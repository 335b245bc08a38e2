------------------------------ MODULE TuiState ------------------------------
(***************************************************************************)
(* What the TUI's reducer keeps of its screen (app.rs): the mode that      *)
(* gives a key its meaning, the stack of views and the panes whose data    *)
(* background tasks fetch.  The operators are the arms of `update` that    *)
(* change no more than that; an application state is a record, an arm maps *)
(* one to the next.                                                        *)
(*                                                                         *)
(* A pane keeps whose data it shows, never the data.  Views that only draw *)
(* what is loaded anyway (storage, heatmap, backups, timeline, comparison) *)
(* are the view "Other"; the cursor inside a list is not kept, and a key   *)
(* that acts on the highlighted row may act on any row.                    *)
(***************************************************************************)
EXTENDS Naturals, Sequences, FiniteSets

CONSTANTS
    Guests, Nodes,
    Queries,        \* texts a config search may look for
    None            \* no guest, no node, no task, no text

VARIABLE app        \* AppState

View(name, of) == [name |-> name, of |-> of]
Mode(name, of) == [name |-> name, of |-> of]
Normal == Mode("Normal", None)

Simple == {"Dashboard", "NodeList", "GuestList", "OperationQueue", "ApprovalQueue",
           "HaConsole", "ConfigGrep", "IsoLibrary", "Other"}
Upids == [does : {"start", "stop", "kill", "restart", "delete", "iso"}, for : Guests \cup {None}]

Views ==
    [name : Simple, of : {None}]
    \cup [name : {"SnapshotTree", "GuestSshSession", "GuestDetail"}, of : Guests]
    \cup [name : {"Hardware"}, of : Nodes]
    \cup [name : {"TaskLog"}, of : Upids]

Modes ==
    [name : {"Normal", "Search", "Command", "InputTag", "InputBroadcast", "ConfigGrep",
             "Help", "ProfilePicker"}, of : {None}]
    \cup [name : {"Confirm", "SshSession", "SshPassphrase"}, of : Guests]

\* What the command line may hold: the commands parse_command_action knows,
\* and any other text.
Commands ==
    [name : {"ssh", "snaps"}, of : Guests] \cup [name : {"hw"}, of : Nodes]
    \cup [name : {"ha", "iso", "text"}, of : {None}]

EmptyPane ==
    [snap |-> None, snapLoading |-> FALSE,
     hw |-> None, hwNode |-> None, hwLoading |-> FALSE,
     ha |-> FALSE, haLoading |-> FALSE,
     log |-> None,
     query |-> None, hits |-> None, searching |-> FALSE]

NewApp ==
    [mode |-> Normal, nav |-> <<View("Dashboard", None)>>, pane |-> EmptyPane,
     input |-> None, picked |-> {}, busy |-> {}, asked |-> <<>>, due |-> TRUE]

---------------------------------------------------------------------------
(* The navigation stack                                                    *)

Top(a) == a.nav[Len(a.nav)]

push_view(a, v) == [a EXCEPT !.nav = Append(@, v)]

\* What a view leaves behind when it is popped.
Released(p, v) ==
    CASE v.name = "SnapshotTree" -> [p EXCEPT !.snap = None, !.snapLoading = FALSE]
      [] v.name = "Hardware" -> [p EXCEPT !.hw = None, !.hwLoading = FALSE]
      [] v.name = "ConfigGrep" -> [p EXCEPT !.hits = None, !.query = None]
      [] v.name = "HaConsole" -> [p EXCEPT !.ha = FALSE, !.haLoading = FALSE]
      [] v.name = "TaskLog" -> [p EXCEPT !.log = None]
      [] OTHER -> p

AtRoot(a) == Len(a.nav) = 1

pop_view(a) ==
    IF AtRoot(a) THEN a
    ELSE [a EXCEPT !.pane = Released(@, Top(a)), !.nav = SubSeq(@, 1, Len(@) - 1)]

\* Esc in a dialog gives the dialog up; in Normal mode it leaves the view.
Back(a) ==
    IF a.mode # Normal THEN [a EXCEPT !.mode = Normal, !.input = None] ELSE pop_view(a)

SwitchView(a, name) == [push_view(a, View(name, None)) EXCEPT !.picked = {}]

InMode(a, name) == [a EXCEPT !.mode = Mode(name, None)]

---------------------------------------------------------------------------
(* Panes that fetch                                                        *)

OpenSnapshotTree(a, g) ==
    [push_view(a, View("SnapshotTree", g)) EXCEPT !.pane.snap = None, !.pane.snapLoading = TRUE]

\* Mutant: the stale-fetch guard is gone.
SnapshotsLoadedAnywhere(a, g) == [a EXCEPT !.pane.snap = g, !.pane.snapLoading = FALSE]

SnapshotsLoaded(a, g) ==
    IF Top(a) = View("SnapshotTree", g)
    THEN [a EXCEPT !.pane.snap = g, !.pane.snapLoading = FALSE]
    ELSE a

OpenHardware(a, n) ==
    [push_view(a, View("Hardware", n)) EXCEPT !.pane.hwNode = n, !.pane.hwLoading = TRUE, !.pane.hw = None]

HwDataLoaded(a, n) ==
    IF a.pane.hwNode = n THEN [a EXCEPT !.pane.hw = n, !.pane.hwLoading = FALSE] ELSE a

OpenHaConsole(a) == [push_view(a, View("HaConsole", None)) EXCEPT !.pane.haLoading = TRUE]

HaDataLoaded(a) == [a EXCEPT !.pane.ha = TRUE, !.pane.haLoading = FALSE]

TaskStarted(a, u) == [push_view(a, View("TaskLog", u)) EXCEPT !.pane.log = None]

\* Mutant: the last log that arrives is shown.
TaskLogUpdatedAnywhere(a, u) == IF Top(a).name = "TaskLog" THEN [a EXCEPT !.pane.log = u] ELSE a

TaskLogUpdated(a, u) == IF Top(a) = View("TaskLog", u) THEN [a EXCEPT !.pane.log = u] ELSE a

\* The log is asked for at most once a second.
PollDue(a) == Top(a).name = "TaskLog" /\ a.due
Polled(a) == IF PollDue(a) THEN [a EXCEPT !.due = FALSE] ELSE a

StartConfigGrep(a) ==
    [push_view(InMode(a, "ConfigGrep"), View("ConfigGrep", None))
        EXCEPT !.pane.query = None, !.pane.hits = None]

ConfigGrepInput(a, q) == [a EXCEPT !.pane.query = q]

ConfigGrepSubmit(a) == IF a.pane.query = None THEN a ELSE [a EXCEPT !.pane.searching = TRUE]

\* Mutant: the results are shown and the flag is forgotten.
ConfigGrepResultsStill(a, q) == IF a.pane.query = q THEN [a EXCEPT !.pane.hits = q] ELSE a

ConfigGrepResults(a, q) ==
    IF a.pane.query = q THEN [a EXCEPT !.pane.hits = q, !.pane.searching = FALSE] ELSE a

---------------------------------------------------------------------------
(* SSH sessions                                                            *)

OpenGuestSsh(a, g) ==
    [push_view(a, View("GuestSshSession", g)) EXCEPT !.mode = Mode("SshSession", g)]

Shown(a) == Top(a).name = "GuestSshSession"

CloseSshSession(a) ==
    IF a.mode.name = "SshSession" \/ Shown(a) THEN pop_view([a EXCEPT !.mode = Normal]) ELSE a

\* Mutant: a failure is only shown by the pane it belongs to.
SshSessionFailedInPlace(a, g) ==
    IF Top(a) = View("GuestSshSession", g) THEN pop_view([a EXCEPT !.mode = Normal]) ELSE a

\* Whatever the mode is, it becomes Normal; the view goes if it is on top.
SshSessionFailed(a, g) ==
    LET b == [a EXCEPT !.mode = Normal]
    IN  IF Top(a) = View("GuestSshSession", g) THEN pop_view(b) ELSE b

SshPassphrasePrompt(a, g) == [a EXCEPT !.input = None, !.mode = Mode("SshPassphrase", g)]
SshPassphraseSubmit(a) == [a EXCEPT !.input = None, !.mode = Mode("SshSession", a.mode.of)]
SshPassphraseCancel(a) ==
    LET b == [a EXCEPT !.input = None, !.mode = Normal]
    IN  IF Shown(a) THEN pop_view(b) ELSE b

---------------------------------------------------------------------------
(* Guest operations and approvals                                          *)

GuestTaskFinished(a, g) == [a EXCEPT !.busy = @ \ {g}]
GuestStatusPolled(a, g) == [a EXCEPT !.busy = @ \cup {g}]

\* The question replaces whatever dialog, or shell, has the keyboard.
ShutdownTimedOut(a, g) == [a EXCEPT !.mode = Mode("Confirm", g), !.busy = @ \cup {g}]

\* Operations that are queued end up in the view of the queue (OpQueue has
\* the queue itself).
Enqueued(a) == push_view(a, View("OperationQueue", None))

ApprovalRequested(a, t) ==
    [push_view(a, View("ApprovalQueue", None)) EXCEPT !.asked = Append(@, [txn |-> t, status |-> "Pending"])]

ApprovalReceived(a, t, yes) ==
    [a EXCEPT !.asked = [i \in DOMAIN @ |->
        IF @[i].txn = t THEN [@[i] EXCEPT !.status = IF yes THEN "Approved" ELSE "Denied"] ELSE @[i]]]

AppTypeOK ==
    /\ app.mode \in Modes
    /\ app.nav \in Seq(Views) /\ app.nav # <<>>
    /\ app.pane.snap \in Guests \cup {None} /\ app.pane.hw \in Nodes \cup {None}
    /\ app.pane.hwNode \in Nodes \cup {None} /\ app.pane.log \in Upids \cup {None}
    /\ {app.pane.query, app.pane.hits} \subseteq Queries \cup {None}
    /\ app.input \in Commands \cup {None}
    /\ app.picked \subseteq Guests /\ app.busy \subseteq Guests
=============================================================================
