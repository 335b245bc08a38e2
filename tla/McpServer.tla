----------------------------- MODULE McpServer -----------------------------
(***************************************************************************)
(* `proxxx mcp serve` and `mcp serve-http` (mcp/server.rs,                 *)
(* mcp/http_server.rs, mcp/dispatch.rs).  Over stdio a reader task hands   *)
(* lines to a loop that answers them one after the other and writes notes  *)
(* in between; over HTTP requests run side by side behind a bearer token,  *)
(* and a client may hold an SSE stream open for the notes.  A destructive  *)
(* tool is never run here: it becomes a row of the pending store and a     *)
(* message to the approvers, and the HITL daemon runs it.                  *)
(***************************************************************************)
EXTENDS McpTools, McpNotify

CONSTANTS
  Slots,      \* the requests, 1..n, in the order they are made
  Callable,   \* the tools they call (a bound)
  Ids,        \* the guest numbers they name
  Alive,      \* the guests that exist
  Tagged,     \* those with the tag of the tag policy
  Keys,       \* the bearer tokens of the clients and the command line
  Configs,    \* the configurations a reload may bring
  MaxOpen,    \* HTTP requests under way at a time (bound)
  LineCap     \* the size of the channel of lines (8)

ASSUME ServerAssumption ==
  /\ IsFiniteSet(Slots) /\ Slots = 1..Cardinality(Slots)
  /\ Callable \subseteq DOMAIN TOOLS
  /\ Ids \subseteq Nat /\ Alive \subseteq 0..(Width - 1) /\ Tagged \subseteq Alive
  /\ MaxOpen \in Nat \ {0} /\ LineCap \in Nat \ {0}
  /\ \A c \in Configs :
       c.policy \in {"none", "tag", "all"} /\ c.need \in Nat /\ c.telegram \in BOOLEAN

VARIABLES
  srv,     \* the server: transport, bind, command-line token, phase; and
           \* whether the client of stdout or of the stream reads
  cfg,     \* the live configuration
  calls,   \* the requests
  pipe,    \* stdin: slots of the lines written and not yet read
  lines,   \* the channel between the reader and the loop
  out,     \* the slots answered on stdout
  bearer   \* the token the stream was opened with

servervars == <<srv, cfg, calls, pipe, lines, out, bearer>>
vars == <<ev, notevars, servervars>>

NoCall ==
  [st |-> "free",        \* where the request is
   after |-> 0,          \* in a batch: the element before it
   key |-> "",           \* the bearer token it came with
   snap |-> [policy |-> "none", need |-> 0, telegram |-> FALSE],
   tool |-> "none",
   named |-> 0,          \* the guest number the client wrote
   vmid |-> 0,           \* the guest it is for
   fetched |-> FALSE,    \* the guest was read for its tags
   todo |-> <<>>,        \* steps left
   sent |-> {},          \* writes made by the server itself
   row |-> "none",       \* the row of the pending store
   require |-> 0,        \* approvals the row waits for
   asked |-> 0,          \* approvals the message asked for; 0: not delivered
   ran |-> FALSE,        \* the daemon wrote something for it
   ans |-> "none"]       \* what the client was told

Waiting == {"tags", "channel", "find", "risk", "send", "run"}
States == {"free", "queued", "layer", "handler", "behind", "go", "done", "gone"} \cup Waiting
Answers == {"none", "silent", "result", "error", "refused", "pending", "timeout",
            "denied"}

Snaps == [policy : {"none", "tag", "all"}, need : Nat, telegram : BOOLEAN]

Calls ==
  [st : States, after : {0} \cup Slots, key : {""} \cup Keys, snap : Snaps,
   tool : {"none"} \cup DOMAIN TOOLS, named : Nat, vmid : 0..(Width - 1),
   fetched : BOOLEAN, todo : Seq(Steps), sent : SUBSET {s.op : s \in Steps},
   row : {"none", "pending", "failed", "executed"}, require : Nat, asked : Nat,
   ran : BOOLEAN, ans : Answers]

Servers ==
  [phase : {"start", "serving", "stopping", "ended", "refused"}, stdio : BOOLEAN,
   require_token : BOOLEAN, cli : {""} \cup Keys, eof : BOOLEAN, reads : BOOLEAN]

TypeOK ==
  /\ NotifyTypeOK
  /\ srv \in Servers /\ cfg \in Configs
  /\ calls \in [Slots -> Calls]
  /\ \A s \in Slots : calls[s].ans # "none" <=> calls[s].st = "done"
  /\ pipe \in Seq({0} \cup Slots) /\ lines \in Seq({0} \cup Slots)
  /\ out \in Seq(Slots) /\ bearer \in {""} \cup Keys
  /\ Len(lines) <= LineCap

Init ==
  /\ NotifyInit
  /\ cfg \in Configs
  /\ \/ srv = [phase |-> "start", stdio |-> TRUE, require_token |-> FALSE,
               cli |-> "", eof |-> FALSE, reads |-> TRUE]
     \/ \E exposed \in BOOLEAN, t \in {""} \cup Keys :
          srv = [phase |-> "start", stdio |-> FALSE, require_token |-> exposed,
                 cli |-> t, eof |-> FALSE, reads |-> TRUE]
  /\ calls = [s \in Slots |-> NoCall]
  /\ pipe = <<>> /\ lines = <<>> /\ out = <<>> /\ bearer = ""

Open == {s \in Slots : calls[s].st \notin {"free", "done", "gone"}}

Serving == srv.phase = "serving"
Alone == UNCHANGED <<task, lock, drift, seen, was, last, news, told, pub>>

(***************************************************************************)
(* Who may talk to the HTTP server.  An empty token is none; the command   *)
(* line's token wins over the configured one; without a token a server on  *)
(* an address of the network (and not --insecure-bind) refuses everyone.   *)
(***************************************************************************)
\* Mutant: without a token the server is open, wherever it listens
token_gate_open(expected, key) ==
  expected = "" \/ key = expected

token_gate(expected, key) ==
  IF expected = "" THEN ~srv.require_token ELSE key = expected

auth_ok(key) == token_gate(IF srv.cli # "" THEN srv.cli ELSE cfg.token, key)

Start ==
  /\ srv.phase = "start"
  /\ IF srv.require_token /\ srv.cli = "" /\ cfg.token = ""
     THEN srv' = [srv EXCEPT !.phase = "refused"] /\ UNCHANGED sub
     ELSE /\ srv' = [srv EXCEPT !.phase = "serving"]
          /\ IF srv.stdio THEN Subscribed ELSE UNCHANGED sub
  /\ Alone /\ UNCHANGED <<ev, cfg, calls, pipe, lines, out, bearer>>

\* SIGHUP.  A file that does not load changes nothing.
Reload ==
  /\ Serving /\ Happens
  /\ \E c \in Configs \ {cfg} : cfg' = c
  /\ UNCHANGED <<notevars, srv, calls, pipe, lines, out, bearer>>

(***************************************************************************)
(* Answers.  Over stdio an answer is a line on stdout, and the loop waits  *)
(* until it is written: with a client that does not read it need not go on *)
(* (Attended), though what the pipe holds may still take it.               *)
(***************************************************************************)
Attended == srv.stdio => srv.reads

ClientTurns ==
  /\ Serving /\ (srv.stdio \/ sub.open) /\ Happens
  /\ srv' = [srv EXCEPT !.reads = ~@]
  /\ UNCHANGED <<notevars, cfg, calls, pipe, lines, out, bearer>>

\* Once a request is over only what it did is kept.
Closed(c, st, a) ==
  IF c.row = "none" /\ c.sent = {}
  THEN [NoCall EXCEPT !.st = st, !.ans = a, !.after = c.after]
  ELSE [c EXCEPT !.st = st, !.ans = a, !.todo = <<>>, !.snap = NoCall.snap,
                 !.fetched = FALSE]

Told(c, a) == Closed(c, "done", a)

Answer1(s, c, a) ==
  /\ calls' = [calls EXCEPT ![s] = Told(c, a)]
  /\ out' = IF srv.stdio /\ a # "silent" THEN Append(out, s) ELSE out

Goes(s, c) == calls' = [calls EXCEPT ![s] = c] /\ UNCHANGED out

(***************************************************************************)
(* stdio: the client writes lines and closes the pipe; the reader task     *)
(* moves each to the channel when there is room, and the end of file after *)
(* the last of them; the loop takes an entry when it has answered the one  *)
(* before.                                                                 *)
(***************************************************************************)
Free == {s \in Slots : calls[s].st = "free" /\ \A t \in Slots : t < s => calls[t].st # "free"}

WriteLine ==
  /\ Serving /\ srv.stdio /\ ~srv.eof /\ Happens
  /\ \E s \in Free :
       /\ calls' = [calls EXCEPT ![s].st = "queued"]
       /\ pipe' = Append(pipe, s)
  /\ UNCHANGED <<notevars, srv, cfg, lines, out, bearer>>

CloseInput ==
  /\ Serving /\ srv.stdio /\ ~srv.eof /\ Happens
  /\ srv' = [srv EXCEPT !.eof = TRUE]
  /\ pipe' = Append(pipe, 0)
  /\ UNCHANGED <<notevars, cfg, calls, lines, out, bearer>>

\* Mutant: the reader task ends without telling the loop
ReadLineEndless ==
  /\ srv.stdio /\ pipe # <<>> /\ Len(lines) < LineCap
  /\ lines' = IF Head(pipe) = 0 THEN lines ELSE Append(lines, Head(pipe))
  /\ pipe' = Tail(pipe)
  /\ UNCHANGED <<ev, notevars, srv, cfg, calls, out, bearer>>

ReadLine ==
  /\ srv.stdio /\ pipe # <<>> /\ Len(lines) < LineCap
  /\ lines' = Append(lines, Head(pipe)) /\ pipe' = Tail(pipe)
  /\ UNCHANGED <<ev, notevars, srv, cfg, calls, out, bearer>>

Busy == \E s \in Slots : calls[s].st \in Waiting \cup {"go"}

\* Mutant: the end of the input is noticed before the lines that wait
TakeLineHasty ==
  /\ Serving /\ srv.stdio /\ lines # <<>> /\ ~Busy
  /\ IF srv.eof
     THEN /\ srv' = [srv EXCEPT !.phase = "ended"] /\ Unsubscribed
          /\ lines' = <<>> /\ UNCHANGED calls
     ELSE /\ lines' = Tail(lines)
          /\ calls' = [calls EXCEPT ![Head(lines)].st = "go"] /\ UNCHANGED <<srv, sub>>
  /\ Alone /\ UNCHANGED <<ev, cfg, pipe, out, bearer>>

TakeLine ==
  /\ Serving /\ srv.stdio /\ lines # <<>> /\ ~Busy
  /\ lines' = Tail(lines)
  /\ IF Head(lines) = 0
     THEN srv' = [srv EXCEPT !.phase = "ended"] /\ Unsubscribed /\ UNCHANGED calls
     ELSE calls' = [calls EXCEPT ![Head(lines)].st = "go"] /\ UNCHANGED <<srv, sub>>
  /\ Alone /\ UNCHANGED <<ev, cfg, pipe, out, bearer>>

(***************************************************************************)
(* HTTP.  A request whose Host or Origin is not one of the server's own is *)
(* turned away before anything else; the token is checked by the router's  *)
(* layer and again by the handler.  A batch is checked once and its        *)
(* elements are handled one after the other.                               *)
(***************************************************************************)
Post ==
  /\ Serving /\ ~srv.stdio /\ Happens /\ Cardinality(Open) < MaxOpen
  /\ \E s \in Free, host \in BOOLEAN, k \in Keys :
       IF ~host THEN Answer1(s, NoCall, "denied")
       ELSE Goes(s, [NoCall EXCEPT !.st = "layer", !.key = k])
  /\ UNCHANGED <<notevars, srv, cfg, pipe, lines, bearer>>

PostBatch ==
  /\ Serving /\ ~srv.stdio /\ Happen(2) /\ Cardinality(Open) < MaxOpen
  /\ \E s \in Free, k \in Keys :
       /\ s + 1 \in Slots
       /\ calls' = [calls EXCEPT ![s] = [NoCall EXCEPT !.st = "layer", !.key = k],
                                 ![s + 1] = [NoCall EXCEPT !.st = "behind", !.after = s]]
  /\ UNCHANGED <<notevars, srv, cfg, pipe, lines, out, bearer>>

Authorize(s) ==
  /\ calls[s].st \in {"layer", "handler"}
  /\ IF auth_ok(calls[s].key)
     THEN Goes(s, [calls[s] EXCEPT !.st = IF @ = "layer" THEN "handler" ELSE "go"])
     ELSE Answer1(s, calls[s], "denied")
  /\ UNCHANGED <<ev, notevars, srv, cfg, pipe, lines, bearer>>

NextOfBatch(s) ==
  /\ calls[s].st = "behind" /\ calls[calls[s].after].st = "done"
  /\ IF calls[calls[s].after].ans = "denied"
     THEN Answer1(s, calls[s], "denied")
     ELSE Goes(s, [calls[s] EXCEPT !.st = "go"])
  /\ UNCHANGED <<ev, notevars, srv, cfg, pipe, lines, bearer>>

\* A client that hangs up takes its request with it, wherever it is.
HangUp ==
  /\ Serving /\ ~srv.stdio /\ Happens
  /\ \E s \in Slots :
       /\ calls[s].st \in Waiting \cup {"layer", "handler", "go"} /\ calls[s].after = 0
       /\ calls' = [t \in Slots |->
            IF t = s \/ (calls[t].after = s /\ calls[t].st = "behind")
            THEN Closed(calls[t], "gone", "none")
            ELSE calls[t]]
  /\ UNCHANGED <<notevars, srv, cfg, pipe, lines, out, bearer>>

(***************************************************************************)
(* dispatch_rpc and the head of handle_tool_call: everything up to the     *)
(* first time the call waits.  The configuration is read once, here.       *)
(***************************************************************************)
OnGuestId(c) == "guest_id" \in TOOLS[c.tool].needs

\* The policy that governs a call, when that does not take the guest's tags
Offline(c) == c.snap.policy = "tag" => ~OnGuestId(c)

Runs(s, c, program) ==
  Goes(s, [c EXCEPT !.st = "run", !.todo = program, !.snap = NoCall.snap])

\* Mutant: a destructive tool no policy governs is run like any other
GateOpen(s, c) ==
  \/ /\ c.tool \notin Destructive \/ c.snap.policy = "none"
     /\ \E p \in programs[c.tool] : Runs(s, c, p)
  \/ /\ c.tool \in Destructive /\ Offline(c) /\ c.snap.policy # "none"
     /\ IF c.snap.policy = "all" THEN Goes(s, [c EXCEPT !.st = "channel"])
        ELSE Answer1(s, c, "refused")
  \/ /\ c.tool \in Destructive /\ ~Offline(c)
     /\ Goes(s, [c EXCEPT !.st = "tags"])

Gate(s, c) ==
  \/ /\ c.tool \notin Destructive
     /\ \E p \in programs[c.tool] : Runs(s, c, p)
  \/ /\ c.tool \in Destructive /\ Offline(c)
     /\ IF c.snap.policy = "all" THEN Goes(s, [c EXCEPT !.st = "channel"])
        ELSE Answer1(s, c, "refused")
  \/ /\ c.tool \in Destructive /\ ~Offline(c)
     /\ Goes(s, [c EXCEPT !.st = "tags"])

config_snap == [policy |-> cfg.policy, need |-> cfg.need, telegram |-> cfg.telegram]

\* handle_tool_call: the arguments, then the gate
CallTool(s) ==
  \E tool \in Callable :
    \E given \in Givings(tool), n \in IF "guest_id" \in TOOLS[tool].needs THEN Ids ELSE {0} :
      \E bad \in {{}} \cup {{p} : p \in given} :
        LET c == [calls[s] EXCEPT !.tool = tool, !.snap = config_snap, !.key = "",
                    !.named = n, !.vmid = Narrow(n)]
        IN  IF Accepts(tool, given, bad, n) THEN Gate(s, c)
            ELSE Answer1(s, calls[s], "error")

\* Other methods answer at once; a line that does not parse, an unknown
\* method and a call of no tool or of an unknown one are errors; the only
\* notification known is not answered.
Dispatch(s) ==
  /\ calls[s].st = "go"
  /\ \/ CallTool(s)
     \/ \E a \in {"result", "error", "silent"} : Answer1(s, calls[s], a)
  /\ UNCHANGED <<ev, notevars, srv, cfg, pipe, lines, bearer>>

(***************************************************************************)
(* The steps of a call after which it waited for someone else: the cluster *)
(* (find_guest, the preflight, a request), the secret of the Telegram bot, *)
(* Telegram.                                                               *)
(***************************************************************************)
Quiet(s) == UNCHANGED <<ev, notevars, srv, cfg, pipe, lines, bearer>>

TagsRead(s) ==
  /\ calls[s].st = "tags"
  /\ LET c == calls[s]
     IN  \/ Answer1(s, c, "error")
         \/ IF c.vmid \in Tagged
            THEN Goes(s, [c EXCEPT !.st = "channel", !.fetched = TRUE])
            ELSE Answer1(s, c, "refused")
  /\ Quiet(s)

\* preflight_op_for_tool
Graded(tool) == tool \in {"stop_guest", "restart_guest", "delete_guest", "migrate_guest"}

\* store.insert, and the request to Telegram is on its way
Recorded(c) ==
  [c EXCEPT !.st = "send", !.row = "pending", !.require = c.snap.need]

Record(s, c) == Goes(s, Recorded(c)) \/ Answer1(s, c, "error")

Resolved(s, c) ==
  IF Graded(c.tool) THEN Goes(s, [c EXCEPT !.st = "risk"]) ELSE Record(s, c)

\* Without [telegram], or a bot that cannot be set up, nobody can be asked.
ChannelReady(s) ==
  /\ calls[s].st = "channel"
  /\ LET c == calls[s]
     IN  \/ Answer1(s, c, "refused")
         \/ /\ c.snap.telegram
            /\ CASE ~OnGuestId(c) -> Record(s, c)
                 [] OnGuestId(c) /\ c.fetched -> Resolved(s, c)
                 [] OTHER -> Goes(s, [c EXCEPT !.st = "find"])
  /\ Quiet(s)

GuestFound(s) ==
  /\ calls[s].st = "find"
  /\ LET c == calls[s]
     IN  Answer1(s, c, "error") \/ (c.vmid \in Alive /\ Resolved(s, c))
  /\ Quiet(s)

\* A severe risk refuses; any other goes into the message.
RiskAssessed(s) ==
  /\ calls[s].st = "risk"
  /\ Answer1(s, calls[s], "refused") \/ Record(s, calls[s])
  /\ Quiet(s)

\* Mutant: the message asks for what the live configuration says
DeliverLive(s) ==
  /\ calls[s].row = "pending" /\ calls[s].st = "send" /\ calls[s].asked = 0
  /\ calls' = [calls EXCEPT ![s].asked = cfg.need]
  /\ UNCHANGED out
  /\ Quiet(s)

\* Telegram shows the message to the approvers.
Deliver(s) ==
  /\ calls[s].row = "pending" /\ calls[s].st = "send" /\ calls[s].asked = 0
  /\ calls' = [calls EXCEPT ![s].asked = calls[s].snap.need]
  /\ UNCHANGED out
  /\ Quiet(s)

SendAnswered(s) ==
  /\ calls[s].st = "send" /\ calls[s].asked # 0
  /\ Answer1(s, calls[s], "pending")
  /\ Quiet(s)

\* Mutant: the row of a message that was not sent stays open
SendFailedOpen(s) ==
  /\ calls[s].st = "send"
  /\ Answer1(s, calls[s], "refused") \/ Answer1(s, calls[s], "error")
  /\ Quiet(s)

\* Not sent, or sent and the answer lost: mark_failed closes the row,
\* whatever its state; when that fails too the call is an error.
SendFailed(s) ==
  /\ calls[s].st = "send"
  /\ \/ Answer1(s, [calls[s] EXCEPT !.row = "failed"], "refused")
     \/ Answer1(s, calls[s], "error")
  /\ Quiet(s)

\* A step of a tool that is run here: it fails, or is done.
RunStep(s) ==
  /\ calls[s].st = "run"
  /\ LET c == calls[s]
     IN  IF c.todo = <<>> THEN Answer1(s, c, "result")
         ELSE LET does == [c EXCEPT !.todo = Tail(@),
                             !.sent = @ \cup Writes(<<Head(c.todo)>>)]
              IN  \/ (Head(c.todo) = Sweep => c.vmid \in Alive) /\ Goes(s, does)
                  \/ Answer1(s, does, "error")
  /\ Quiet(s)

\* Mutant: a call may take as long as it likes
TimeoutNever(s) ==
  FALSE /\ Answer1(s, calls[s], "timeout") /\ Quiet(s)

\* The budget of the tool is used up: the call is dropped where it waits.
Timeout(s) ==
  /\ calls[s].st \in Waiting
  /\ Answer1(s, calls[s], "timeout")
  /\ Quiet(s)

\* Enough approvers press the button in time, and the daemon runs the
\* operation, all of it or up to a request that fails.
Execute(s) ==
  /\ calls[s].row = "pending" /\ calls[s].asked # 0
  /\ \E p \in programs[calls[s].tool] : \E k \in 0..Len(p) :
       calls' = [calls EXCEPT ![s].row = "executed",
                              ![s].ran = (Writes(SubSeq(p, 1, k)) # {})]
  /\ UNCHANGED out
  /\ Quiet(s)

(***************************************************************************)
(* Notes.  Over stdio the loop writes one when it has no line to answer;   *)
(* an SSE stream checks its token before each and every fifteen seconds,   *)
(* and ends when it is no longer good; it is only driven while there is    *)
(* room to write to its client.                                            *)
(***************************************************************************)
OpenStream ==
  /\ Serving /\ ~srv.stdio /\ ~sub.open /\ sub = NoSub /\ Happens
  /\ \E k \in Keys : auth_ok(k) /\ bearer' = k
  /\ Subscribed
  /\ Alone /\ UNCHANGED <<srv, cfg, calls, pipe, lines, out>>

WriteNote ==
  /\ Serving /\ srv.stdio /\ ~Busy /\ lines = <<>>
  /\ Receive
  /\ Alone /\ UNCHANGED <<ev, servervars>>

\* Mutant: the token is checked when the stream is opened
StreamNoteUnchecked ==
  /\ ~srv.stdio /\ srv.phase # "ended" /\ Receive
  /\ Alone /\ UNCHANGED <<ev, servervars>>

StreamNote ==
  /\ ~srv.stdio /\ srv.phase # "ended" /\ sub.open /\ sub.next < pub
  /\ IF auth_ok(bearer) THEN Receive ELSE Unsubscribed
  /\ Alone /\ UNCHANGED <<ev, servervars>>

\* Mutant: an idle stream is not looked at
RecheckNever == FALSE /\ Unsubscribed /\ Alone /\ UNCHANGED <<ev, servervars>>

Recheck ==
  /\ ~srv.stdio /\ sub.open /\ ~auth_ok(bearer)
  /\ Unsubscribed
  /\ Alone /\ UNCHANGED <<ev, servervars>>

(***************************************************************************)
(* The end of the HTTP server: on SIGTERM it takes no more requests, the   *)
(* stream ends, and the process exits when the last request is answered or *)
(* the grace is over, whichever is first.                                  *)
(***************************************************************************)
Signal ==
  /\ Serving /\ ~srv.stdio /\ Happens
  /\ srv' = [srv EXCEPT !.phase = "stopping"]
  /\ Unsubscribed
  /\ Alone /\ UNCHANGED <<cfg, calls, pipe, lines, out, bearer>>

Exit ==
  /\ srv.phase = "stopping"
  /\ srv' = [srv EXCEPT !.phase = "ended"]
  /\ calls' = [s \in Slots |->
       IF s \in Open THEN Closed(calls[s], "gone", "none")
       ELSE calls[s]]
  /\ Alone /\ UNCHANGED <<ev, sub, cfg, pipe, lines, out, bearer>>

Over == srv.phase \in {"ended", "refused"}

Proceed(s) == Authorize(s) \/ NextOfBatch(s) \/ Dispatch(s)

Replied(s) ==
  \/ TagsRead(s) \/ ChannelReady(s) \/ GuestFound(s) \/ RiskAssessed(s)
  \/ SendAnswered(s) \/ SendFailed(s) \/ RunStep(s)

Polls == PollTasks \/ PollIncident \/ PollDrift

Next ==
  \/ Start \/ Reload \/ WriteLine \/ CloseInput \/ ReadLine \/ TakeLine
  \/ Post \/ PostBatch \/ HangUp \/ OpenStream \/ ClientTurns
  \/ \E s \in Slots : ~Over /\ (Proceed(s) \/ Replied(s) \/ Timeout(s))
  \/ \E s \in Slots : Deliver(s) \/ Execute(s)
  \/ WriteNote \/ StreamNote \/ Recheck \/ Signal \/ Exit
  \/ Serving /\ (TaskMoves \/ LockMoves \/ DriftReported) /\ UNCHANGED servervars
  \/ ~Over /\ Polls /\ UNCHANGED servervars

Spec == Init /\ [][Next]_vars

(***************************************************************************)
(* Fairness: the server's own tasks and timers run; nobody else need       *)
(* answer it.  The loop over stdio and the stream run while their client   *)
(* reads.                                                                  *)
(***************************************************************************)
Fairness ==
  /\ WF_vars(Start) /\ WF_vars(ReadLine) /\ WF_vars(Attended /\ TakeLine)
  /\ \A s \in Slots :
       /\ WF_vars(~Over /\ Attended /\ Proceed(s))
       /\ WF_vars(~Over /\ Attended /\ Timeout(s))
  /\ WF_vars(srv.reads /\ WriteNote) /\ WF_vars(srv.reads /\ StreamNote)
  /\ WF_vars(srv.reads /\ Recheck) /\ WF_vars(Exit)
  /\ WF_vars(~Over /\ PollIncident /\ UNCHANGED servervars)
  /\ WF_vars(~Over /\ PollDrift /\ UNCHANGED servervars)

FairSpec == Spec /\ Fairness

-----------------------------------------------------------------------------
(***************************************************************************)
(* No destructive operation is run by the server itself, and the daemon    *)
(* runs one only for a request the approvers were shown.                   *)
(***************************************************************************)
NothingRunsUnasked ==
  \A s \in Slots :
    /\ calls[s].sent \subseteq {"start_guest", "resume_guest"}
    /\ calls[s].ran => calls[s].asked > 0

(***************************************************************************)
(* "An approval is pending only when its request was sent" (#458): a       *)
(* client told "pending" has a request the approvers were shown, one told  *)
(* "refused" has none that could still be approved.                        *)
(***************************************************************************)
PendingIsAsked ==
  \A s \in Slots :
    /\ calls[s].ans = "pending" => calls[s].asked > 0
    /\ calls[s].ans = "refused" => calls[s].row \in {"none", "failed"}

(***************************************************************************)
(* A reload while a call is under way does not change what it asks for:    *)
(* the message names as many approvals as the row waits for.               *)
(***************************************************************************)
AskedAsRecorded ==
  \A s \in Slots : calls[s].asked # 0 => calls[s].asked = calls[s].require

(***************************************************************************)
(* The guest a call is checked against the policies for, is recorded for   *)
(* and acts on is the one the client named (#384).                         *)
(***************************************************************************)
GuestIsTheNamed ==
  \A s \in Slots :
    calls[s].row # "none" \/ calls[s].sent # {} => calls[s].vmid = calls[s].named

(***************************************************************************)
(* Answers on stdout come in the order of the lines, and when the input    *)
(* has ended the server stops only after the last line was dealt with.     *)
(***************************************************************************)
StdioInOrder ==
  srv.stdio =>
    /\ \A i, j \in 1..Len(out) : i < j => out[i] < out[j]
    /\ srv.phase = "ended" => \A s \in Slots : calls[s].st \in {"free", "done"}

(***************************************************************************)
(* A server that other hosts can reach lets nobody in without a token,     *)
(* also after a reload took the token out of the configuration.            *)
(***************************************************************************)
ExposedIsGuarded ==
  srv.require_token =>
    /\ sub.open => bearer # ""
    /\ \A s \in Slots : calls[s].st = "go" /\ calls[s].after = 0 => calls[s].key # ""

(***************************************************************************)
(* A stream whose token was withdrawn hears nothing more (#384).           *)
(***************************************************************************)
RevokedHearsNothing ==
  [][~srv.stdio /\ (sub'.heard # sub.heard \/ sub'.missed # sub.missed) /\ sub.open
       => auth_ok(bearer)]_vars

(***************************************************************************)
(* ... and ends, even when there is nothing to tell it, as long as its     *)
(* client reads: the re-check is part of the body that is being written.   *)
(***************************************************************************)
RevokedStreamsEnd ==
  [](sub.open /\ ~srv.stdio /\ ~auth_ok(bearer)
       => <>(~sub.open \/ auth_ok(bearer) \/ ~srv.reads))

(***************************************************************************)
(* Every request is answered whether or not anyone answers the server,     *)
(* unless its client hangs up, the server is told to stop, or the client   *)
(* of stdout does not read.                                                *)
(***************************************************************************)
EveryRequestAnswered ==
  \A s \in Slots : (s \in Open) ~> (calls[s].st \in {"done", "gone"} \/ ~Attended)

(***************************************************************************)
(* A server that is told to stop, or whose input ends, exits; over stdio   *)
(* not while it has something to write and its client does not read.       *)
(***************************************************************************)
ServerStops == (srv.phase = "stopping" \/ srv.eof) ~> (Over \/ ~Attended)

(***************************************************************************)
(* What happened to the lock or was found to have drifted reaches every    *)
(* client that stays and reads: the pollers notice it and the channel      *)
(* drains.                                                                 *)
(***************************************************************************)
NewsReachesClients ==
  []<>(Serving => NewsIsCurrent /\ (sub.open /\ srv.reads => sub.next = pub))

(***************************************************************************)
(* What a call makes happen is what the client named and the approvers     *)
(* were asked, through reloads, failed sends and timeouts.                 *)
(***************************************************************************)
CallsAreAsked ==
  TypeOK /\ NothingRunsUnasked /\ PendingIsAsked /\ AskedAsRecorded /\ GuestIsTheNamed

(***************************************************************************)
(* Who is served, and what is written to a client: guarded when exposed,   *)
(* answers in order, notes in order, losses announced.                     *)
(***************************************************************************)
ClientsAreServedInOrder ==
  ExposedIsGuarded /\ StdioInOrder /\ LossIsAnnounced /\ TaskNewsInOrder

(***************************************************************************)
(* The server keeps up with a client that reads: requests are answered,    *)
(* news arrives, streams of a withdrawn token end, and a stop is a stop.   *)
(***************************************************************************)
ServerKeepsUp ==
  EveryRequestAnswered /\ NewsReachesClients /\ RevokedStreamsEnd /\ ServerStops

-----------------------------------------------------------------------------
(***************************************************************************)
(* The inductive invariant of CallsAreAsked and ClientsAreServedInOrder.   *)
(***************************************************************************)
Harmless == {"start_guest", "resume_guest"}

\* Where a call is tells what it has done: nothing is recorded or written
\* before it is, the message is the row's, and only power-on is run here.
CallOK(c) ==
  /\ c.vmid = c.named
  /\ c.sent \subseteq Harmless
  /\ c.st = "run" => Writes(c.todo) \subseteq Harmless
  /\ c.st = "behind" => c.after # 0
  /\ c.st \notin {"send", "done", "gone"} => c.row = "none"
  /\ c.row = "none" => c.asked = 0
  /\ c.st = "send" => c.row \in {"pending", "executed"} /\ c.require = c.snap.need
  /\ c.asked # 0 => c.asked = c.require
  /\ c.ran => c.asked # 0
  /\ c.ans = "pending" => c.asked # 0
  /\ c.ans = "refused" => c.row \in {"none", "failed"}

CallInv == \A s \in Slots : CallOK(calls[s])

\* The lines on their way: those in the channel, then those in the pipe.
Lines == Len(lines) + Len(pipe)
Line(k) == IF k <= Len(lines) THEN lines[k] ELSE pipe[k - Len(lines)]

\* They are the queued requests in order, and the end of the input.
QueueInv ==
  /\ \A k \in 1..Lines :
       \/ Line(k) = 0 /\ k = Lines /\ srv.eof
       \/ Line(k) \in Slots /\ calls[Line(k)].st = "queued"
  /\ \A j, k \in 1..Lines : j < k /\ Line(k) # 0 => Line(j) < Line(k)
  /\ \A s \in Slots : calls[s].st = "queued" => \E k \in 1..Lines : Line(k) = s

Working == Waiting \cup {"go"}

\* One line after the other: done, at most one under way, queued, free.
StdioInv ==
  srv.stdio =>
    /\ ~srv.require_token /\ srv.phase # "stopping"
    /\ \A s \in Slots : calls[s].st \in {"free", "queued", "done"} \cup Working
    /\ \A s, t \in Slots : s < t =>
         /\ calls[s].st = "free" => calls[t].st = "free"
         /\ calls[s].st = "queued" => calls[t].st \in {"free", "queued"}
         /\ calls[s].st \in Working => calls[t].st \in {"free", "queued"}
    /\ QueueInv
    /\ \A i \in 1..Len(out) : calls[out[i]].st = "done"
    /\ \A i, j \in 1..Len(out) : i < j => out[i] < out[j]
    /\ srv.phase = "ended" => \A s \in Slots : calls[s].st \in {"free", "done"}

\* The news of a task follow what the poller has in its map, unless it was
\* pruned of it; the end is only told of one that has ended.
NewsInv ==
  \A t \in Tasks :
    /\ t \notin seen.running \cup seen.ended \cup seen.pruned => news[t] = <<>>
    /\ t \in seen.running \ seen.pruned => news[t] \in {<<>>, <<"started">>}
    /\ t \in seen.ended => Ended(t)
    /\ \A i \in 1..Len(news[t]) : news[t][i] # "started" => Ended(t)

ServerInv ==
  CallInv /\ ExposedIsGuarded /\ StdioInv /\ LossIsAnnounced /\ NewsInv /\ TaskNewsInOrder
=============================================================================
