------------------------------- MODULE TuiApp -------------------------------
(***************************************************************************)
(* The TUI's event loop (run in tui/mod.rs): it draws, then takes one key, *)
(* one tick or one message of the data channel, lets the reducer (TuiState)*)
(* change the screen and spawns a task for the side effect.  Tasks call    *)
(* Proxmox, ask for approval, fetch a pane or open an SSH session, and     *)
(* answer through the channel.  The refresh worker is TuiRefresh, the      *)
(* operation queue OpQueue.                                                *)
(***************************************************************************)
EXTENDS TuiRefresh

CONSTANTS
    Gated,          \* operations that need an approval (policies, --secure)
    Blocked,        \* guests with a PVE lock or under HA
    Telegram,       \* whether [telegram] is configured
    Encrypted,      \* whether the SSH key has a passphrase nobody gave yet
    MaxTasks,       \* bound: tasks at once
    MaxKeys         \* bound: keys of the operator

ASSUME AppAssumption ==
    /\ Gated \subseteq {"start", "stop", "restart", "delete", "iso"}
    /\ Blocked \subseteq Guests
    /\ {Telegram, Encrypted} \subseteq BOOLEAN
    /\ MaxTasks \in Nat \ {0} /\ MaxKeys \in Nat

VARIABLES
    tasks,          \* [1..MaxTasks -> task]: what spawn_traced started
    shell,          \* SshSessionHandler.active: the guest, None without one
    finished,       \* whether that session's pump has ended
    unlocked,       \* SshSessionHandler.passphrase is set
    live,           \* the loop has not been left
    keys,           \* keys pressed
    asks,           \* approvals asked for, numbered by their transaction
    overtaken,      \* history: a session was opened while another open ran
    tally           \* history: hard stops [agreed, granted, sent] by guest

screenVars == <<tasks, shell, finished, unlocked, live, keys, asks, overtaken, tally>>
vars == <<app, chan, refreshVars, screenVars>>

---------------------------------------------------------------------------
(* Tasks: a stage and the messages still to be sent                        *)

Idle == [does |-> "nothing", of |-> None, txn |-> 0, at |-> "end", out |-> <<>>]
Task(does, of, at) == [Idle EXCEPT !.does = does, !.of = of, !.at = at]

Free == {i \in DOMAIN tasks : tasks[i] = Idle}

\* The bound on tasks: a key finds room beside the operations that an approval
\* on its way will start.
Room == Cardinality({i \in DOMAIN chan : chan[i].kind = "verdict"}) < Cardinality(Free)
Spawned(t) == [tasks EXCEPT ![CHOOSE i \in Free : \A j \in Free : i <= j] = t]

\* What PVE's answer to the call makes the task say; a graceful stop that was
\* accepted is watched before it is over.
Called(t) ==
    LET started == <<Message("started", [does |-> t.does, for |-> t.of])>>
        failed == <<Message("error", None)>>
        over == IF t.does \in {"start", "stop", "kill", "restart"} THEN <<Message("finished", t.of)>> ELSE <<>>
    IN  {[t EXCEPT !.at = "end", !.out = failed \o over]}
        \cup (IF t.does = "stop" THEN {[t EXCEPT !.at = "watch", !.out = started]}
              ELSE {[t EXCEPT !.at = "end", !.out = started \o over]})

\* wait_for_stopped_with_progress: the guest stops or the minute is over.
Watched(t) ==
    {[t EXCEPT !.at = "end", !.out = <<Message("finished", t.of)>>],
     [t EXCEPT !.at = "end", !.out = <<Message("timeout", t.of), Message("finished", t.of)>>]}

\* Mutant: an error leaves the console without data.
FetchedOrNot(t) ==
    CASE t.does = "snaps" -> {<<Message("snaps", t.of)>>, <<Message("error", None), Message("snaps", t.of)>>}
      [] t.does = "log" -> {<<Message("log", t.of)>>, <<Message("error", None)>>}
      [] OTHER -> {<<Message(t.does, t.of)>>, <<Message("error", None)>>}

\* Mutant: a failed snapshot list is only reported.
FetchedLoudly(t) ==
    CASE t.does \in {"snaps", "log"} -> {<<Message(t.does, t.of)>>, <<Message("error", None)>>}
      [] OTHER -> {<<Message(t.does, t.of)>>}

\* Failed requests of the consoles count as empty answers; a failed snapshot
\* list is reported and then shown as an empty one.
Fetched(t) ==
    CASE t.does = "snaps" -> {<<Message("snaps", t.of)>>, <<Message("error", None), Message("snaps", t.of)>>}
      [] t.does = "log" -> {<<Message("log", t.of)>>, <<Message("error", None)>>}
      [] OTHER -> {<<Message(t.does, t.of)>>}

Verdict(t, yes) == Message("verdict", [txn |-> t.txn, yes |-> yes, op |-> t.does, of |-> t.of])
Asked(t) == Message("asked", [txn |-> t.txn])

\* The request to the approvers fails, or is on its way; then they answer or
\* two minutes pass.
Requested(t) ==
    {[t EXCEPT !.at = "end", !.out = <<Asked(t), Verdict(t, FALSE)>>]}
    \cup (IF Telegram THEN {[t EXCEPT !.at = "vote", !.out = <<Asked(t)>>]} ELSE {})

\* Mutant: the two minutes pass in silence.
VotedOrSilent(t) == {Idle} \cup {[t EXCEPT !.at = "end", !.out = <<Verdict(t, yes)>>] : yes \in BOOLEAN}

Voted(t) == {[t EXCEPT !.at = "end", !.out = <<Verdict(t, yes)>>] : yes \in BOOLEAN}

Steps(t) ==
    CASE t.at = "call" -> Called(t)
      [] t.at = "watch" -> Watched(t)
      [] t.at = "fetch" -> {[t EXCEPT !.at = "end", !.out = o] : o \in Fetched(t)}
      [] t.at = "ask" -> Requested(t)
      [] t.at = "vote" -> Voted(t)
      [] OTHER -> {}

TaskSteps(i) ==
    /\ live /\ tasks[i].out = <<>>
    /\ \E t \in Steps(tasks[i]) : tasks' = [tasks EXCEPT ![i] = t]
    /\ UNCHANGED <<app, chan, refreshVars, shell, finished, unlocked, live, keys, asks, overtaken, tally>>

TaskSends(i) ==
    LET t == tasks[i]
    IN  /\ live /\ t.out # <<>> /\ Len(chan) < ChanCap
        /\ chan' = Append(chan, Head(t.out))
        /\ tasks' = [tasks EXCEPT ![i] = IF Len(t.out) = 1 /\ t.at = "end" THEN Idle ELSE [t EXCEPT !.out = Tail(@)]]
        /\ UNCHANGED <<app, refreshVars, shell, finished, unlocked, live, keys, asks, overtaken, tally>>

\* The progress of a stop is offered with try_send: lost if there is no room.
Progress(i) ==
    /\ live /\ tasks[i].at = "watch" /\ tasks[i].out = <<>>
    /\ Len(chan) < ChanCap
    /\ chan' = Append(chan, Message("polled", tasks[i].of))
    /\ UNCHANGED <<app, refreshVars, screenVars>>

---------------------------------------------------------------------------
(* SshSessionHandler                                                       *)

Opening == {i \in DOMAIN tasks : tasks[i].does = "ssh" /\ tasks[i].at # "end"}

\* Mutant: the prior session stays until the new one replaces it.
TakePriorLater(i) ==
    /\ live /\ tasks[i].at = "take"
    /\ tasks' = [tasks EXCEPT ![i].at = "connect"]
    /\ UNCHANGED <<app, chan, refreshVars, shell, finished, unlocked, live, keys, asks, overtaken, tally>>

\* open: the prior session goes first, then the connection is made.
TakePrior(i) ==
    /\ live /\ tasks[i].at = "take"
    /\ tasks' = [tasks EXCEPT ![i].at = "connect"]
    /\ shell' = None /\ finished' = FALSE
    /\ UNCHANGED <<app, chan, refreshVars, unlocked, live, keys, asks, overtaken, tally>>

Connected(i) ==
    /\ live /\ tasks[i].at = "connect"
    /\ shell' = tasks[i].of /\ finished' = FALSE
    /\ tasks' = [tasks EXCEPT ![i].at = "end", ![i].out = <<Message("opened", tasks[i].of)>>]
    /\ UNCHANGED <<app, chan, refreshVars, unlocked, live, keys, asks, overtaken, tally>>

ConnectFails(i) ==
    /\ live /\ tasks[i].at = "connect"
    /\ tasks' = [tasks EXCEPT ![i].at = "end", ![i].out = <<Message("unopened", tasks[i].of)>>]
    /\ UNCHANGED <<app, chan, refreshVars, shell, finished, unlocked, live, keys, asks, overtaken, tally>>

RemoteExits ==
    /\ live /\ shell # None /\ ~finished
    /\ finished' = TRUE
    /\ UNCHANGED <<app, chan, refreshVars, tasks, shell, unlocked, live, keys, asks, overtaken, tally>>

\* Mutant: the loop waits for the operator to leave.
AutoCloseNever ==
    /\ FALSE
    /\ UNCHANGED vars

\* The loop looks before every wait, and a tick wakes it.
AutoClose ==
    /\ live /\ app.mode.name = "SshSession" /\ shell # None /\ finished
    /\ shell' = None /\ finished' = FALSE
    /\ app' = CloseSshSession(app)
    /\ UNCHANGED <<chan, refreshVars, tasks, unlocked, live, keys, asks, overtaken, tally>>

---------------------------------------------------------------------------
(* dispatch_side_effect                                                    *)

Rest == UNCHANGED <<chan, refreshVars, shell, finished, unlocked, live, overtaken>>

NeedsApproval(op) == (IF op = "kill" THEN "stop" ELSE op) \in Gated

\* check_hitl: the operation waits for an approval instead of being performed.
Withheld(op) == NeedsApproval(op)

\* The call is made on the node the list has for the guest; without one the
\* key press is lost.
Perform(op, g) ==
    IF op = "iso" \/ Known(g)
    THEN tasks' = Spawned(Task(op, g, "call")) /\ UNCHANGED asks
    ELSE UNCHANGED <<tasks, asks>>

Dispatch(op, g) ==
    /\ Room
    /\ IF Withheld(op)
       THEN /\ asks' = asks + 1
            /\ tasks' = Spawned([Task(op, g, "ask") EXCEPT !.txn = asks + 1])
       ELSE Perform(op, g)

Sent(op, g) == op = "kill" /\ ~Withheld(op) /\ Known(g)

---------------------------------------------------------------------------
(* Keys                                                                    *)

Key(modes) == live /\ keys < MaxKeys /\ keys' = keys + 1 /\ app.mode.name \in modes
On(view) == Top(app).name = view

Shows(a) == app' = a /\ UNCHANGED <<tasks, asks, tally>> /\ Rest
Fetches(a, t) ==
    /\ Room
    /\ app' = a /\ tasks' = Spawned(t)
    /\ UNCHANGED <<asks, tally>> /\ Rest
Starts(a, op, g) == app' = a /\ Dispatch(op, g) /\ UNCHANGED tally /\ Rest

Quitting ==
    /\ live' = FALSE
    /\ tasks' = [i \in DOMAIN tasks |-> Idle] /\ shell' = None /\ finished' = FALSE
    /\ UNCHANGED <<app, chan, refreshVars, unlocked, asks, overtaken, tally>>

NotShell == {"Normal", "Search", "Command", "InputTag", "InputBroadcast", "ConfigGrep", "Help",
             "ProfilePicker", "Confirm", "SshPassphrase"}

\* q, Ctrl+C, Esc at the root, a profile chosen in the picker; a signal ends the
\* loop in any mode.
Quit ==
    /\ Key(NotShell \cup {"SshSession"})
    /\ Quitting

KeyBack ==
    /\ Key(NotShell \ {"Help", "SshPassphrase"})
    /\ ~(app.mode = Normal /\ AtRoot(app))
    /\ Shows(Back(app))

KeyView(v) == Key({"Normal"}) /\ Shows(SwitchView(app, v))
KeyDialog(m) == Key({"Normal"}) /\ Shows(IF m = "Command" THEN [InMode(app, m) EXCEPT !.input = None] ELSE InMode(app, m))
KeySearch == Key(NotShell) /\ Shows(InMode(app, "Search"))
KeyHelp == Key({"Help"}) /\ Shows([app EXCEPT !.mode = Normal])
KeyPick(g) ==
    Key({"Normal"}) /\ On("GuestList") /\ Known(g)
    /\ Shows([app EXCEPT !.picked = IF g \in @ THEN @ \ {g} ELSE @ \cup {g}])

\* t and X open a prompt with an empty line.
KeyPrompt(m) ==
    /\ Key({"Normal"}) /\ On("GuestList")
    /\ m = "InputBroadcast" => app.picked # {}
    /\ Shows([InMode(app, m) EXCEPT !.input = None])

\* Every letter goes through CommandInput, whose mode is Command.
KeyType(c) ==
    /\ Key({"Command", "InputTag", "InputBroadcast"})
    /\ Shows([InMode(app, "Command") EXCEPT !.input = c])

\* Enter on an empty tag prompt selects nobody; on an empty broadcast prompt it
\* queues an empty command for everyone selected.
KeyEnterTag == Key({"InputTag"}) /\ Shows([app EXCEPT !.mode = Normal])
KeyEnterBroadcast ==
    /\ Key({"InputBroadcast"})
    /\ LET b == [app EXCEPT !.mode = Normal, !.picked = {}]
       IN  Shows(IF app.picked = {} THEN b ELSE Enqueued(b))

\* s, S, r, d on the list of guests; E on the list of nodes.
KeyEnqueue == Key({"Normal"}) /\ On("GuestList") /\ list.guests # <<>> /\ Shows(Enqueued(app))
KeyEvacuate == Key({"Normal"}) /\ On("NodeList") /\ (Shows(Enqueued(app)) \/ Shows(app))

KeySelect ==
    \/ Key({"Normal"}) /\ (On("Dashboard") \/ On("NodeList")) /\ Shows(push_view(app, View("GuestList", None)))
    \/ \E g \in Guests : Key({"Normal"}) /\ On("GuestList") /\ Known(g) /\ Shows(push_view(app, View("GuestDetail", g)))

\* DownloadIso: an entry with a pinned checksum, to the first storage.
KeyDownload ==
    Key({"Normal"}) /\ On("IsoLibrary") /\ (Starts(app, "iso", None) \/ Shows(app))

Snaps(a, g) ==
    LET b == OpenSnapshotTree(a, g)
    IN  IF Known(g) THEN Fetches(b, Task("snaps", g, "fetch")) ELSE Shows(b)
Hardware(a, n) == Fetches(OpenHardware(a, n), Task("hw", n, "fetch"))
Ha(a) == Fetches(OpenHaConsole(a), Task("ha", None, "fetch"))

KeySnaps(g) == Key({"Normal"}) /\ On("GuestList") /\ Known(g) /\ Snaps(app, g)
KeyHardware(n) == Key({"Normal"}) /\ On("NodeList") /\ Hardware(app, n)
KeyGrep == Key({"Normal"}) /\ Shows(StartConfigGrep(app))
KeyQuery(q) == Key({"ConfigGrep"}) /\ Shows(ConfigGrepInput(app, q))
KeyGrepSubmit ==
    /\ Key({"ConfigGrep"})
    /\ IF app.pane.query = None THEN Shows(app)
       ELSE Fetches(ConfigGrepSubmit(app), Task("grep", app.pane.query, "fetch"))

\* R is a tick whose effect is performed.
KeyRefresh ==
    /\ Key({"Normal"})
    /\ IF PollDue(app) THEN Fetches(Polled(app), Task("log", Top(app).of, "fetch")) ELSE Shows(app)

\* OpenSshSession: an encrypted key is asked for first.
Shell(a, g) ==
    IF Encrypted /\ ~unlocked
    THEN Shows(SshPassphrasePrompt(OpenGuestSsh(a, g), g))
    ELSE /\ Room
         /\ app' = OpenGuestSsh(a, g)
         /\ tasks' = Spawned(Task("ssh", g, "take"))
         /\ overtaken' = (overtaken \/ Opening # {})
         /\ UNCHANGED <<chan, refreshVars, shell, finished, unlocked, live, asks, tally>>

KeyShell(g) == Key({"Normal"}) /\ On("GuestList") /\ Known(g) /\ Shell(app, g)
KeyPassphrase ==
    /\ Key({"SshPassphrase"}) /\ Room
    /\ unlocked' = TRUE
    /\ app' = SshPassphraseSubmit(app)
    /\ tasks' = Spawned(Task("ssh", app.mode.of, "take"))
    /\ overtaken' = (overtaken \/ Opening # {})
    /\ UNCHANGED <<chan, refreshVars, shell, finished, live, asks, tally>>
KeyNoPassphrase == Key({"SshPassphrase"}) /\ Shows(SshPassphraseCancel(app))

\* Ctrl+].
KeyCloseShell ==
    /\ Key({"SshSession"})
    /\ app' = CloseSshSession(app)
    /\ shell' = None /\ finished' = FALSE
    /\ UNCHANGED <<chan, refreshVars, tasks, unlocked, live, asks, overtaken, tally>>

\* parse_command_action.
KeySubmit ==
    /\ Key({"Command"})
    /\ LET c == app.input
           a == [app EXCEPT !.mode = Normal, !.input = None]
       IN  CASE c = None -> Shows(a)
             [] c # None /\ c.name = "ssh" -> Shell(a, c.of)
             [] c # None /\ c.name = "snaps" -> Snaps(a, c.of)
             [] c # None /\ c.name = "hw" -> Hardware(a, c.of)
             [] c # None /\ c.name = "ha" -> Ha(a)
             [] c # None /\ c.name = "iso" -> Shows(push_view(a, View("IsoLibrary", None)))
             [] OTHER -> Shows(a)

guest_block_reason(g) == Known(g) /\ g \in Blocked

\* The arms StartGuest, StopGuest, RestartGuest and DeleteGuest.
GuestOp(a, op, g) ==
    IF op # "start" /\ guest_block_reason(g) THEN Shows(a)
    ELSE Starts(IF op = "delete" THEN a ELSE [a EXCEPT !.busy = @ \cup {g}], op, g)

\* Enter on a search result: a guest, a node, a view, the timeline, an operation
\* or the evacuation of a node.  Without snapshots, target or guests the last
\* and the timeline only say so.
KeySearchEnter ==
    /\ Key({"Search"})
    /\ LET a == [app EXCEPT !.mode = Normal]
       IN  \/ \E g \in Guests : Known(g) /\ Shows(push_view(a, View("GuestDetail", g)))
           \/ Shows(push_view(a, View("NodeList", None)))
           \/ Shows(SwitchView(a, "ApprovalQueue"))
           \/ Shows(push_view(a, View("Other", None)))
           \/ Shows(Enqueued(a))
           \/ Shows(a)
           \/ \E g \in Guests, op \in {"start", "stop", "restart", "delete"} : Known(g) /\ GuestOp(a, op, g)

\* y and Enter; F also skips the guard against locked and HA guests.
KeyAgree(force) ==
    /\ Key({"Confirm"})
    /\ LET g == app.mode.of
           a == [app EXCEPT !.mode = Normal]
       IN  IF ~force /\ guest_block_reason(g) THEN Shows(a)
           ELSE /\ app' = [a EXCEPT !.busy = @ \cup {g}]
                /\ Dispatch("kill", g)
                /\ tally' = [tally EXCEPT ![g].agreed = @ + 1, ![g].sent = IF Sent("kill", g) THEN @ + 1 ELSE @]
                /\ Rest

---------------------------------------------------------------------------
(* Messages and ticks                                                      *)

\* Mutant: the answer is not looked at.
PerformsAnyway(m) == m.kind = "verdict"

\* Does the message start a call by itself?
Performs(m) == m.kind = "verdict" /\ m.of.yes

Reduced(a, m) ==
    CASE m.kind = "started" -> TaskStarted(a, m.of)
      [] m.kind = "finished" -> GuestTaskFinished(a, m.of)
      [] m.kind = "polled" -> GuestStatusPolled(a, m.of)
      [] m.kind = "timeout" -> ShutdownTimedOut(a, m.of)
      [] m.kind = "snaps" -> SnapshotsLoaded(a, m.of)
      [] m.kind = "hw" -> HwDataLoaded(a, m.of)
      [] m.kind = "ha" -> HaDataLoaded(a)
      [] m.kind = "log" -> TaskLogUpdated(a, m.of)
      [] m.kind = "grep" -> ConfigGrepResults(a, m.of)
      [] m.kind = "unopened" -> SshSessionFailed(a, m.of)
      [] m.kind = "asked" -> ApprovalRequested(a, m.of.txn)
      [] m.kind = "verdict" -> ApprovalReceived(a, m.of.txn, m.of.yes)
      [] OTHER -> a

Received == Head(chan)

\* A listing of the refresh worker.
TakeListing ==
    /\ live /\ chan # <<>> /\ Received.kind \in {"guests", "storage"}
    /\ chan' = Tail(chan)
    /\ \/ Received.kind = "guests" /\ list' = GuestsLoaded(list, Received.of) /\ UNCHANGED saved
       \/ Received.kind = "storage" /\ StorageTaken(Received.of)
    /\ UNCHANGED <<app, home, up, worker, faults, screenVars>>

\* Any other message; an approved operation is performed without asking again.
TakeMessage ==
    /\ live /\ chan # <<>> /\ Received.kind \notin {"guests", "storage"}
    /\ chan' = Tail(chan)
    /\ app' = Reduced(app, Received)
    /\ IF Performs(Received)
       THEN LET op == Received.of.op
                g == Received.of.of
            IN  /\ Perform(op, g)
                /\ tally' = IF op = "kill"
                            THEN [tally EXCEPT ![g].granted = IF Received.of.yes THEN @ + 1 ELSE @,
                                                ![g].sent = IF Known(g) THEN @ + 1 ELSE @]
                            ELSE tally
       ELSE UNCHANGED <<tasks, asks, tally>>
    /\ UNCHANGED <<refreshVars, shell, finished, unlocked, live, keys, overtaken>>

\* The loop's tick: the request for the log is computed and dropped.
Tick ==
    /\ live /\ PollDue(app)
    /\ app' = Polled(app)
    /\ UNCHANGED <<chan, refreshVars, screenVars>>

SecondPasses ==
    /\ live /\ ~app.due
    /\ app' = [app EXCEPT !.due = TRUE]
    /\ UNCHANGED <<chan, refreshVars, screenVars>>

---------------------------------------------------------------------------

Init ==
    /\ app = NewApp
    /\ chan = <<>>
    /\ RefreshInit
    /\ tasks = [i \in 1..MaxTasks |-> Idle]
    /\ shell = None /\ finished = FALSE /\ unlocked = FALSE
    /\ live = TRUE
    /\ keys = 0 /\ asks = 0
    /\ overtaken = FALSE
    /\ tally = [g \in Guests |-> [agreed |-> 0, granted |-> 0, sent |-> 0]]

TaskStep(i) == TaskSteps(i) \/ TaskSends(i) \/ TakePrior(i) \/ Connected(i) \/ ConnectFails(i)

ShellKeys ==
    \/ \E g \in Guests : KeyShell(g)
    \/ KeyPassphrase \/ KeyNoPassphrase \/ KeyCloseShell

PaneKeys ==
    \/ \E g \in Guests : KeySnaps(g)
    \/ \E n \in Nodes : KeyHardware(n)
    \/ \E q \in Queries : KeyQuery(q)
    \/ KeyGrep \/ KeyGrepSubmit \/ KeyRefresh

OpKeys ==
    \/ KeySearch \/ KeySearchEnter \/ KeyDownload
    \/ \E force \in BOOLEAN : KeyAgree(force)

PromptKeys ==
    \/ \E m \in {"InputTag", "InputBroadcast"} : KeyPrompt(m)
    \/ \E c \in Commands : KeyType(c)
    \/ KeySubmit \/ KeyEnterTag \/ KeyEnterBroadcast

ViewKeys ==
    \/ \E v \in {"NodeList", "GuestList", "OperationQueue", "Other"} : KeyView(v)
    \/ \E m \in {"Command", "Help", "ProfilePicker"} : KeyDialog(m)
    \/ \E g \in Guests : KeyPick(g)
    \/ KeyHelp \/ KeySelect \/ KeyEnqueue \/ KeyEvacuate

Next ==
    \/ ShellKeys \/ PaneKeys \/ OpKeys \/ PromptKeys \/ ViewKeys \/ KeyBack \/ Quit
    \/ \E i \in DOMAIN tasks : TaskStep(i) \/ Progress(i)
    \/ RemoteExits \/ AutoClose
    \/ TakeMessage \/ TakeListing \/ Tick \/ SecondPasses
    \/ live /\ Refresh /\ UNCHANGED <<app, screenVars>>

Spec == Init /\ [][Next]_vars

\* Requests have timeouts, an approval two minutes, and the loop takes what
\* the channel holds; nothing is assumed of the operator or of the cluster.
Fairness ==
    /\ \A i \in 1..MaxTasks : WF_vars(TaskStep(i))
    /\ WF_vars(TakeMessage) /\ WF_vars(TakeListing) /\ WF_vars(AutoClose)

FairSpec == Spec /\ Fairness

---------------------------------------------------------------------------
(* Properties                                                              *)

\* The screen, the lists and the tasks are what the code can hold, and the
\* channel never exceeds its capacity.
TypeOK ==
    /\ AppTypeOK /\ RefreshTypeOK
    /\ \A i \in DOMAIN tasks : tasks[i].of \in Guests \cup Nodes \cup Queries \cup Upids \cup {None}
    /\ shell \in Guests \cup {None}
    /\ {finished, unlocked, live, overtaken} \subseteq BOOLEAN

\* A hard stop is sent only because the operator agreed to one for that guest,
\* as often as that, and where stops are gated the approvers granted each:
\* the timeout of a graceful stop (ShutdownTimedOut) never escalates alone.
HardStopsAreAgreed ==
    \A g \in Guests :
        /\ tally[g].sent <= tally[g].agreed
        /\ "stop" \in Gated => tally[g].sent <= tally[g].granted

\* What a pane shows belongs to what its view names, however late an answer
\* arrives and whatever was opened and left meanwhile (the stale-fetch guards
\* of SnapshotsLoaded, TaskLogUpdated and HwDataLoaded).  Two hardware views
\* on one stack share hw_node and are excepted.
PanesShowTheirOwn ==
    LET top == Top(app)
        stacked == Cardinality({i \in DOMAIN app.nav : app.nav[i].name = "Hardware"})
    IN  /\ top.name = "SnapshotTree" => app.pane.snap \in {None, top.of}
        /\ top.name = "TaskLog" => app.pane.log \in {None, top.of}
        /\ top.name = "Hardware" /\ stacked = 1 => app.pane.hw \in {None, top.of}

\* While the loop runs and the keyboard belongs to a shell there is one, or one
\* is being opened, or the news of its failure is on the way: the operator is
\* never left with a "connecting" pane that nothing ends (SshSessionFailed,
\* CloseSshSession).
NeverStuckConnecting ==
    live /\ app.mode.name = "SshSession" =>
        \/ shell # None
        \/ \E i \in DOMAIN tasks : tasks[i].does = "ssh"
        \/ \E i \in DOMAIN chan : chan[i].kind = "unopened"

\* The shell that gets the keys is the one of the guest the mode names, once
\* nothing is being opened and unless an open ran while another began (open
\* installs its session whoever else is connecting).
KeysReachTheNamedGuest ==
    app.mode.name = "SshSession" /\ shell # None /\ Opening = {} /\ ~overtaken
        => shell = app.mode.of

\* The cache that seeds the next start holds a cycle in which every node's
\* guests and storage were heard (cycle_is_complete, #378).
CacheIsWhole == saved # None => saved.heard = Nodes /\ saved.pools = Nodes

\* An entry that is not of the last listing is on a node marked stale.
StaleIsMarked ==
    \A i \in DOMAIN list.guests :
        list.guests[i].cycle < list.cycle => list.guests[i].node \in list.stale

\* A guest the last listing reports on a node that answered is looked up
\* there, even when a failed node's last-known list names it too (get_node).
LookupIsFresh ==
    \A g \in Guests :
        (\E i \in DOMAIN list.guests : list.guests[i].guest = g /\ list.guests[i].node \notin list.stale)
            => get_node(g) \notin list.stale

\* A remote shell that ends gives the keyboard back.
ShellsEnd ==
    []<>~(app.mode.name = "SshSession" /\ finished)

\* The hardware and HA consoles stop loading, whatever their requests answer.
ConsolesLoad ==
    []<>(live => ~app.pane.hwLoading /\ ~app.pane.haLoading)

\* Approvals shown as pending are settled, by a vote, a failed request or the
\* two minutes: with the operator's keys spent none stays pending.
ApprovalsSettle ==
    []<>(live => \A i \in DOMAIN app.asked : app.asked[i].status # "Pending")

Fetching(does, of) == \E i \in DOMAIN tasks : tasks[i].does = does /\ tasks[i].of = of

\* A snapshot list that is being fetched ends the loading of its tree unless
\* the operator leaves the tree, and a search ends its own unless its text is
\* edited or its view left, whether or not the requests fail.  The conditions
\* are the code's: an answer that finds another view or another text is
\* dropped and leaves snap_tree_loading or grep_searching set.
FetchesShow ==
    /\ \A g \in Guests :
        Fetching("snaps", g) /\ Top(app) = View("SnapshotTree", g)
            ~> ~live \/ ~app.pane.snapLoading \/ Top(app) # View("SnapshotTree", g)
    /\ \A q \in Queries :
        Fetching("grep", q) /\ app.pane.query = q
            ~> ~live \/ ~app.pane.searching \/ app.pane.query # q

\* The operator is in control: what stops hard was agreed to, and the keyboard
\* belongs to what the screen names.
OperatorInControl ==
    TypeOK /\ HardStopsAreAgreed /\ NeverStuckConnecting /\ KeysReachTheNamedGuest

\* What the screen and the cache show is of the object and the time they name.
ScreenIsTrue == PanesShowTheirOwn /\ CacheIsWhole /\ StaleIsMarked /\ LookupIsFresh

\* What the operator waits for ends: a shell gives the keyboard back, the
\* hardware and HA consoles load, approvals are settled, and a snapshot tree
\* or a search ends for who stays with it.  Not claimed of a tree or a search
\* that was left: their flags stay set.
WaitsEnd == ShellsEnd /\ ConsolesLoad /\ ApprovalsSettle /\ FetchesShow
=============================================================================
