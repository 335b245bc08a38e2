# TLA+ verification of proxxx

proxxx is a single Rust binary that operates Proxmox VE: a command line, a TUI, an
MCP server and unattended daemons over one REST client. What can go wrong in it, and
what tests hardly reach, is *control*: an operation that runs twice after a crash or
without the approvals its policy asks for, a status or an exit code that tells a
story other than Proxmox's, a log that stops verifying, a refusal that comes after
the first write, a node rebooted while another is down, a screen that shows one
guest and acts on another. This directory models that control in TLA+, checks it
with TLC on small instances and proves the central safety properties with TLAPS for
instances of every size.

Paths below are relative to the crate (`src/src/` here is the crate's `src/`).

## 1. Inventory

| Part | State it keeps | Operations | Hard behaviour | What makes it correct | Module |
|---|---|---|---|---|---|
| HITL approvals (`hitl/`, `cli/common.rs`, `mcp/dispatch.rs`, `hitl_serve`) | `hitl_pending.db`, the Telegram chat, the update offset of each daemon | resolve, insert, send, close; poll, `process_callback`, checks, call, mark, edit | redelivered and forged callbacks, two daemons, crashes at every await, expiry, retention | one call at most, only after a quorum of authorised people; truthful status; votes are not lost | `HitlApprovals`, `ApprovalContract` |
| Audit log (`audit/mod.rs`) | `audit.db`, `audit.key`, retired keys, one cached logger per process | write-ahead row, outcome row, verify, first-use key, `rotate-key` | processes racing for the write lock, the first key and a rotation; kills; failing commits | the chain does not fork and keeps verifying, no signing key is lost, nothing is sent without its row | `AuditChain` |
| Gateway gates and retries (`api/client.rs`, `api/transport.rs`), incident lockdown (`incident/mod.rs`), config reload | retry budget, token; one lock file per scope; `read_only` | guard, freeze check, write-ahead, authenticate, send, retry, re-authenticate; freeze, thaw, TTL, reload | answers that come late or not at all, 401 loops, locks read one after the other | no retry of what may have run; a lock that is on refuses | `MutationGate` |
| Gateway endpoints (`api/mod.rs`, `api/client.rs`) | none | 230 operations: verb and kind of answer | calls that are several requests | used by the two rows below | `Gateway` |
| Command line (`cli/`) | one process | the programs of all subcommands: ask, check, look up, weigh risk, call, wait, judge | refusals spread over 30 files, failing calls and tasks, guests that move | a refusal is clean; exit codes and reports are true; every command ends | `CliTable`, `CliFlags`, `CliRun` |
| Guest lookup (`cli/common.rs`, `api/mod.rs`), preflight (`app/preflight.rs`) | none | list, confirm, walk, sweep; risks | nodes that fail or lose the guest behind the walk | "not found" is true; what could not be asked is not invented | `GuestLookup`, `Preflight` |
| Batches (`cli/common.rs`) | the results so far | single, canary, rolling, `--strict` | gated, failing and missing targets in one batch | no gated target is touched; rollouts stop; every target is reported | `BatchRun` |
| Rolling patch (`app/patch.rs`) | the plan, the node in work | refresh, list, upgrade, reboot, wait | a reboot seen only through polls | one node at a time, recorded, truthful exit | `PatchRollout` |
| State reconcile (`state/`, `cli/reconcile.rs`, `cli/daemon.rs`) | the declared document, the status file, audit entries | export, diff, preflight, confirm, apply per family; unmanned tick | edits between all of these, fail-fast, interruption, pushes and reloads | what is reported applied is live; an unmanned run keeps its limits and leaves a trace; drift goes away | `StateApply`, `Reconcile` |
| Daemon supervisor (`cli/daemon.rs`, `util/shutdown.rs`), alerts (`alerts/`, `cli/monitoring.rs`), schedules (`cli/schedule.rs`) | components, gauges, the shutdown flag; the suppression window; `schedules.toml` | start, watch, select, grace, abort; snapshot, evaluate, send, persist; add, remove, enable, `run_due` | a signal racing a component's end; failing sends and snapshots; load-work-save of one file by several processes | true exit codes and gauges; alerts are heard and spaced; commands hold | `DaemonServe`, `AlertWatch`, `ScheduleStore` |
| MCP server (`mcp/`) | calls under way, the token, the stream, what the pollers saw | read, take, gate, look up, insert, deliver, answer, time out; poll, publish, receive | reloads and timeouts inside a call, withdrawn tokens, lag, EOF with work left | nothing runs unasked; answers are true and in order; losses are announced; it stops | `McpServer`, `McpTools`, `McpNotify` |
| TUI operation queue and HITL coordinator (`app/queue.rs`, `app/cache.rs`, `tui/mod.rs`) | `op_queue`, the watch channel, its table, `QUEUE_SEQ`, `QUEUE_WRITTEN`; pending approvals | enqueue, remove, execute, restore, sweep, flush, quit, switch profile; register, vote, expire | a background writer racing a write-ahead; crashes; tasks that outlive their session; two clocks | at most one execution, allowed; statuses true on screen and disk; nothing pending is lost | `OpQueue` |
| TUI reducer, event loop, refresh and SSH (`app.rs`, `tui/`) | modes, the view stack, panes, tasks, the data channel, the lists and their cache, the shell | every key, tick and message; fetches; gated operations; the refresh cycle; open and close of shells | answers that arrive after their view is gone, bounded channel, partial cycles, shells that fail or overlap | hard stops are agreed to; panes show their own; the cache is whole; waits end | `TuiState`, `TuiApp`, `TuiRefresh` |

How they interact. Every mutation, from whichever front end, passes the gates of
`PxClient` (`MutationGate`), and its write-ahead and outcome rows go through the
audit log (`AuditChain`). Before that, an operation that a policy matches needs
approval: CLI batches (`BatchRun`) and MCP tools (`McpServer`) leave a row in
`hitl_pending.db` and return, and a `hitl serve` daemon executes it
(`HitlApprovals`); the TUI keeps the waiting operation in its own process (`OpQueue`,
`TuiApp`). The daemon process runs the HITL loop, alerts, schedules and the reconcile
loop as components (`DaemonServe`). `CliTable` and `McpTools` are programs over the
same `Gateway`. Composition is by `EXTENDS` where components share state in a process
(`CliRun` over lookup, batch, patch and preflight; `DaemonServe` over alerts and
schedules; `McpServer` over its pollers; `TuiApp` over refresh); across processes a
module has the other side's answers as a nondeterministic choice.

## 2. The modules

### HitlApprovals and ApprovalContract

State: `rows` is the table `hitl_pending_requests`; `sender` the program counter of
the CLI or MCP call that created a request; `chat` the message and its buttons;
`updates` and `confirmed` the queue Telegram keeps of callbacks; `daemon` the
program counter, the offset and the fetched batch of each `hitl_serve`; `guest`
what the cluster answers to `find_guest`. `grant` and `calls` are history.

Actions: `Resolve`, `Insert` (with the retention sweep), `SendOk`, `SendErr`,
`CloseUnsent` and `SenderDies` are the sender. `Poll` is `getUpdates` (external,
modelled from its use: an update is returned until a later poll confirms it).
`IgnoreCallback`, `DropCallback`, `ExpireRequest`, `DenyRequest`, `AwaitApprovals` and
`ApproveRequest` are the outcomes of `handle_callback_update`, each one transaction of
`process_callback` (BEGIN IMMEDIATE, so atomic). `CheckPasses`, `CheckRefuses`,
`LookupFails`, `Issue`, `ShowExecuting`, `Return`, `Record` and `EditMessage` are the
awaits of the execution in `hitl/daemon.rs`; `Crash` and `Start` may happen at any of
them. Messages are abstracted to whether their buttons are there, callbacks to
request, decision, person and whether the tag and the chat are genuine.

`ApprovalContract` is the promise without store, Telegram, processes or time: open,
granted or refused, by the sets of people whose votes are enough; performed at most
once and only when granted. `KeepsContract`
is the refinement under the mapping `AbsVerdict`, `AbsVotes`, `calls > 0`.

### AuditChain

A MAC is modelled by what it binds: the signing key and the predecessor. `cache` is
the logger a process keeps (key and verdict of its one full verification), `mut`
the control point of a mutation inside `with_cached_logger_at`, `rot` that of a
`rotate-key`. Every read of a file and every SQLite transaction is its own step.
`trouble` remembers which overlaps and faults a behaviour has had, because some
statements hold only without them (section 5). Init has a fresh log, and a log
restored without its key.

### MutationGate and Gateway

One call through `guard_read_only`, the global and the profile's freeze lock (read
one after the other), the write-ahead row, authentication, and the loop of
`send_with_retry`, against operators who freeze and thaw, TTLs, torn lock files and
a reload. `Receive` has one case per answer that `transport.rs` and `error.rs` tell
apart, and whether Proxmox carried the mutation out is chosen separately where the
answer does not settle it (timeouts, gateway errors). `Gateway` is the table of all
operations with their verbs and answers; `CliTable` and `McpTools` refer to it by the
operations' names.

### OpQueue

The event loop is one process (`phase`): it flushes a dirty queue before the next
event, as the top of the loop does, and it waits for a write-ahead
(`phase = "saving"`). `watch` and `writing` are the watch channel and the snapshot
the writer task has; `Save` is `save_queue_snapshot` with its comparison of the
sequence number. `stage` is the task that has an operation, `msg` the `DataMsg` on its
way back. `registered`, `approvers`, `ttl`, `timer` and `verdict` are
`HitlCoordinator.pending`, the oneshot and the two clocks. Sessions end by `Crash`,
`Quit` then `Exit`, or `Quit` then `Return`: a profile switch re-enters `run()` in the
same process, where the statics and the running tasks stay and nobody listens to them
(`orphans`). `apply_callback` reads the time before it waits for the lock, so an entry
that has expired meanwhile may be judged as of either time; `told` are the operations
whose approval was applied in the request's life. Operations are numbers because queue order is enqueue order. The text of
an error is abstracted to whether nothing was sent (Refused), the call failed (Failed)
or the outcome is unknown (Interrupted).

### StateApply and Reconcile

`StateApply` is pure: what each family may declare (the `...Decl` sets), `Exported`, `Differs`
and one `diff_...` per family, joined by `FamilyDiffs` in the order of
`FamilyRank`, the risk of a change, the calls a change is translated into
(`CallsOf` and the `...Sent` operators, one per family) and what Proxmox makes of such a
call (external, modelled from how `apply.rs` relies on it). A value keeps what the
families treat differently: a field fixed at creation, an optional text, a flag, named
sub-entries and their order. `Reconcile` runs it: the unmanned daemon and an operator
are `Actors` with a program counter through export, diff, gate, confirmation, one call
at a time, recheck; others edit, push, reload, lock and stop in between. `alone` and
`hurt` remember whether anybody or a fault interfered with a run. A plan is a set of
changes, taken up in the order `InOrder` of the diff (families, then deletes, updates,
creates; `First` is the next one); changes of one family and kind are independent of
each other, so one order stands for all. `outs` has the outcome of each change that
has one, `sent` the changes for which a call has left. The audit entry of a run and the
drift status are best-effort in the code and may fail to be written here: `entry` is
`"lost"` or `"unrecorded"` then, the error the code logs instead, and `saved` is false.

### CliTable, CliFlags, CliRun, GuestLookup, BatchRun, PatchRollout, Preflight

`CliTable` gives each command its programs, sequences of about twenty kinds of step
(`Ask`, `Check`, `Find`, `Risk`, `Call`, `Poll`, `Must`, `Judge`...). `CliFlags` is
what clap accepts, and the classification of `--secure`. `CliRun` chooses a command
with any accepted flags and takes its steps against failing requests, tasks that end
well, badly or never, locks, moving guests and nodes. `GuestLookup` and `BatchRun` are
the long steps `Find` and the batch; `PatchRollout` the program of `patch`. `Targets` are
the entries of the command line: a guest that is named twice is two entries, each with its
own turn and its own line of the report. In a rollout a node may be listed as not online
at any moment (`NodeFlickers`), beside the reboot it was told to make (`NodeReboots`);
`mistaken` are the nodes that a poll took for rebooting before their reboot began.
`Preflight` is `assess` and `assess_deep_with` as set-valued operators; its ASSUMEs
check over all listings that what could not be asked never invents or hides a risk.

### DaemonServe, AlertWatch, ScheduleStore

`run_unified`: components, a watcher for each, the channel of exits, the `select!`
whose ready branches race (`sup`), the grace period, the aborts. `AlertWatch` keeps
times as ages; `disk` is the window's row in the cache database. In `ScheduleStore`
every actor has its own copy of the file between load and save. Three histories, each a
set of jobs, say what the code does not protect: `torn`, a saved change of the job was
overwritten by a save that had not seen it; `lost`, it ran in a `run_due` that did not
save (the save failed, or the process was killed); `shared`, two `run_due` in progress
took it. `ChildReturns` is the end of a job's command, which nothing bounds in time.

### McpServer, McpTools, McpNotify

`calls[s]` is one request with its program counter through gate, lookup, insert,
deliver, answer; it carries the configuration it read. Lines over stdio go through a
bounded channel and are answered in turn; HTTP requests run side by side. `ClientTurns`
is a client that stops reading, or reads again: writes to stdout are awaited inside the
loop and a stream is polled only while its client takes what it is sent.
`McpNotify` follows one subscriber of the broadcast channel; the poller's map of seen
tasks is pruned at `SeenCap` to `SeenKeep` (4096 and 2048 in the code). Guest numbers are modelled
with their width (`% Width`), because a narrowing is what #384 was about.

### TuiState, TuiApp, TuiRefresh

`TuiState` has the reducer's arms as operators on a record `app`; a pane keeps whose
data it shows, never the data. `TuiApp` adds the keys (one operator per group of keys
of `map_key`), the tasks a side effect spawns, the bounded data channel, approvals,
the SSH handler and ticks. `TuiRefresh` is the worker's cycle, node by node, and the
merge into the lists. The queue of operations is not in `TuiApp`: it is `OpQueue`.

## 3. Runs

Each run asks one question of one component or composition. Properties that are
about the same promise are conjoined under one name; the parts are named
definitions of their own in the module, each with the comment that states it.

| Run | Instance | What it shows |
|---|---|---|
| `HitlSafety` | one request that needs two approvals, two authorised people and a stranger, two daemons on one store, one crash, store faults, TTL and retention | `AtMostOneCall`, `CallNeedsQuorum`, `StatusTellsOutcome`; the refinement `KeepsContract` |
| `HitlTwoRequests` | two requests in one chat, one whose row decodes to no operation, replies that are lost although the message was delivered | `ApprovedIsInFlight`: an approved row has a daemon that will give it an outcome |
| `HitlLive` | one daemon that crashes once and restarts | `QuorumDecides`, `ApprovedSettles` |
| `AuditTrail` | two processes with a mutation each, two rotations, commits, restores and directory syncs that fail, one kill, a fresh log or one restored without its key | `LogIsOneChain` (`NoFork`, `NoForgedStart`), `TrailCoversIssued`, `LogVerifies` (`SigningKeysKept`, `ChainVerifies`, `RefusalsHaveCause`), `MutationsEnd` |
| `GateCalls` | one mutation and one read, two attempts, locks with and without TTL, two operator turns | `LockedMeansUnsent`, `ExecutedAtMostOnce`, `BooksAreTrue` (`RetryBudget`, `TrailIsTrue`), `CallsEnd` |
| `QueueSession` | a gated persistable operation through three sessions, or in a batch with one that is neither, or a batch of two such ones; two approvers, one database fault | `SentAtMostOnce`, `QueueTellsTruth`, `ApprovedIsNotTimedOut`, `CallsAreAllowed` (`CallsAreApproved`, `GlassBreaksOnce`), `PendingIsKept` (`CleanExitSaves`, `SweepSparesPending`), `RunningResolves` |
| `ReconcileFamilies` | one object of each of the thirteen families, every pair of declared and live values, a rule with its resource, a rule whose resource is exchanged for another, one event | `ApplyDelivers` (`AppliedMeansMatch`, `QuietRunsSucceed`), `DriftIsRemoved` |
| `ReconcileRace` | a pool and an administrator's grant, the daemon and an operator at once, two events (edits, pushes, reloads, failures of calls and of audit and status writes, interruption) | `UnmannedStaysInside`, `RunsAreAccounted` (`RunsLeaveTrace`, `NoSilentLoss`, `StatusIsTrue`) |
| `DaemonServe` | the alert watcher or the scheduler beside the HITL loop, three faults, a second timer and two commands on the schedule file | `DaemonTellsTruth` (`ExitCodeIsTrue`, `GaugeIsTrue`, `StopKeepsWindow`, `CommandsHold`), `NothingTooEarly` (`AlertsAreSpaced`, `RunsAreSpaced`), `Stops`, `TroubleIsHeard` |
| `CliCommands` | every command and flag, two nodes, three targets (absent, template and gated ones among them), one move, one fault | `RefusalsAreClean` (`RefusedMeansUntouched`, `SecureSparesCluster`, `PolicyHolds`), `ReportsAreTrue` (`ZeroMeansDone`, `NotFoundIsTrue`, `EveryTargetReported`, `BatchExitIsTrue`, `PatchExitIsTrue`), `RolloutsAreSafe` (`RolloutStops`, `PatchIsRecorded`, `OneNodeAtATime`, `RebootsApart`), `EveryCommandEnds` |
| `McpSession` | two calls, three tools, three profiles that a reload exchanges, one stream with room for one note, two tasks with a memory of one, three pieces of news (or turns of the client) | `CallsAreAsked` (`NothingRunsUnasked`, `PendingIsAsked`, `AskedAsRecorded`, `GuestIsTheNamed`), `ClientsAreServedInOrder` (`ExposedIsGuarded`, `StdioInOrder`, `LossIsAnnounced`, `TaskNewsInOrder`), `RevokedHearsNothing`, `ServerKeepsUp` (`EveryRequestAnswered`, `NewsReachesClients`, `RevokedStreamsEnd`, `ServerStops`) |
| `TuiSession` | two guests on two nodes, two tasks, a channel of two messages, up to six keys, two logs at once, or two refresh cycles with two faults | `OperatorInControl` (`HardStopsAreAgreed`, `NeverStuckConnecting`, `KeysReachTheNamedGuest`), `ScreenIsTrue` (`PanesShowTheirOwn`, `CacheIsWhole`, `StaleIsMarked`, `LookupIsFresh`), `WaitsEnd` (`ShellsEnd`, `ConsolesLoad`, `ApprovalsSettle`, `FetchesShow`) |

The type invariant of each module is checked as the first part of one of these.

### The bounds, and why they are enough

A hazard here needs few actors and few steps: two daemons for a double execution,
two processes for a fork, one crash between two writes, one guest that moves behind
a walk over two nodes, one message that arrives after its view is gone. The bounds
are the smallest that let each of these happen, and for every property a mutant of
the modelled code (a dropped guard, a swapped order, a missing reset) is known to
break it inside them.

Some runs bound which hazards come together, because the full product is too large:

- `MCAuditChain.Mixture`: rotations that keep to themselves come twice and may fail
  to commit; a rotation that overlaps an append or another rotation, or is killed,
  comes alone.
- `MCOpQueue.Mixture`: one operation goes through several sessions, presses and
  faults; with a second one beside it there is one session and no vote; two ungated ones
  are a batch of their own, after the first has left the queue.
- `MCTuiApp`: a behaviour has a topic (shells, panes, operations, prompts, logs, a guest
  that moves, refresh), which limits the keys and whether the refresh worker runs.
  Every task, message, tick and fault remains possible in each topic.
- `MCReconcile`: an object has the values that its family treats differently, and no
  world has more than three objects. Declarations for which the code does not converge
  (`Unheard`, section 5) are among them; the properties say what holds of them.
- `HitlSafety` uses symmetry of the daemons: no property names one.

Deadlock is checked in `CliCommands` and `DaemonServe`, where an end of the process
is a state of its own. In the other runs the system may stop: every request decided,
every budget of crashes and presses used.

### Fairness

Weak fairness is assumed of what the program itself runs and nothing else: never of
a person, of Proxmox's good will or of time passing unless a timer of the program
waits for it.

- `HitlLive`: `Serve`, the daemon's loop including its restart by the service
  manager. Not of the presses, and not of the crash.
- `AuditTrail`: a process inside a mutation or a started rotation goes on; SQLite's
  busy wait ends because the holder of the lock is such a process or was killed.
- `GateCalls`: `Step`, since every await of a call has a timeout in `transport.rs`.
- `QueueSession`: the loop, its writer task, each operation's task, delivery of the
  in-process channel, and the tick that runs the approval's clock.
- `ReconcileFamilies`: the daemon's tick, an operator's apply once begun, and the
  restart of a daemon by its service manager.
- `DaemonServe`: component tasks, their watchers, the supervisor's `select!`, and
  time (`Passing`) because the grace period is a `tokio::time::timeout`. The HITL
  loop's end is fair only once the flag is set; a component that hangs is aborted.
  `ChildReturns` is not fair: `Command::output` has no timeout, and the runtime waits
  for the blocking thread it runs on. `Stops` therefore allows a daemon that has decided
  everything and waits for such a command for ever.
- `CliCommands`: the process's own prompt steps (`Prompt`); their waits have a deadline or
  a bounded number of polls, and requests answer or fail. Not an interactive session, a
  viewer or a tail of logs (`DoRemote`), and not the end of a task that `migrate --stream`
  follows, to which the code gives no deadline. `EveryCommandEnds` excepts a command that
  stays in one of these.
- `McpSession`: reader, worker, calls and their timeout, the pollers, the exit; the loop
  over stdio and the stream only while their client reads. The client may stop reading or
  never hang up. `EveryRequestAnswered` and `ServerStops` are promised to a client of
  stdout that reads in the end, `NewsReachesClients` and `RevokedStreamsEnd` to one of the
  stream that does.
- `TuiSession`: tasks, taking messages off the channel, the automatic close of a
  shell; not keys, and approvals settle by their own clock.

## 4. Proofs

Checked by TLAPS for every value of the constants that meets the named assumptions
(`HitlAssumption`; `OpsAssumption`, `KindsAssumption`, `BoundsAssumption` and
`WaitAssumption`; `GateAssumption`; `AuditAssumption`; `AlertAssumption`,
`ScheduleAssumption` and `FlavourAssumption`; `StateApplyAssumption` and
`ReconcileAssumption`; `LookupAssumption` and `BatchAssumption`): any number of
requests, daemons, approvers, operations, sessions, calls, processes, rules, nodes, jobs,
objects, targets, moves and faults. TLC evaluates those
assumptions in every run of these modules. The ones that are more than a type: an
approval lives no longer than the task waits for it (`WaitAssumption`, the 120 s of
both in `tui/mod.rs`); the objects of a cluster and their sub-entries are finite sets;
documents, initial clusters and edits hold, for each object, something its family can
hold. The other ASSUMEs have no parameter in them: they are facts of a table that is
written out in full (the tools of the MCP server, the programs of the commands), which
TLC evaluates and the prover cites without expanding the table.

`HitlApprovalsProofs`: `TypeCorrect`, `Invariance`, `CallOnce`, `CallAfterQuorum`,
`StatusTruthful`, `InFlight`. None of the three first safety properties is inductive: that a call is
made once does not follow from its having been made at most once so far, but from
who may make it. `ApprovalInv` says this in three parts. `Position`: a daemon at
work has an update Telegram queued. `Ownership`: a request has an owner, a daemon
between the commit of the quorum vote and the recorded outcome, only after its grant
and never two, and the owner's control point tells whether the call was made.
`Votes`: recorded votes are genuine presses of authorised people and a grant is a
quorum of them. The argument turns on one fact of the code: only `process_callback`
turns pending into approved, in one transaction, and nothing turns it back. Crashes
are easy for the invariant, since they remove owners; expiry and the sender's close
are where it needs the row to have no grant. `InFlight` turns `Ownership` around: as
long as no daemon died and the store takes its writes, what leaves an approved row
without an owner is only the recorded outcome.

Also there: `ContractKept`, the refinement `Spec => KeepsContract`. A
request that a step leaves alone, or changes only where the contract does not look, is
`Fixed`; the lemmas `Invisible`, `Refusal`, `Voting` and `Performing` say which step
of the contract is taken when all requests but one are `Fixed`, and each action is
brought under one of them. `Ownership` gives what the mapping needs: an undecided
request has no grant, and the owner that issues the call has one and has not called.
`Blank` is the one further invariant: a request without a row has no votes, so that
its insertion is invisible, and pruning touches only rows the contract has closed.

`OpQueueProofs`: `QueueTypes`, `QueueInvariance`, `QueueSendsOnce`,
`QueueStatusTrue`, `QueueCallsApproved`, `QueueGlass` and their conjunction
`QueueCallsAllowed`, `QueueNotTimedOut`, `QueueExitSaves`, `QueueSweeps` and their
conjunction `QueuePendingKept`. `QueueInv` has these parts. `SeqInv`: snapshots are numbered in
the order they are taken and the write-ahead the loop waits for is newer than
whatever the writer holds. `TaskInv`: an operation is in one place, with a task, in
a message or in the write-ahead, and the place tells whether it was sent.
`PendingInv`: a copy of the queue that says Pending (on disk, in the channel, with
the writer) is about an operation nobody has touched, *or its sequence number is
already superseded*: this disjunct is what `save_queue_snapshot`'s comparison is
for, and where a snapshot saved out of order would break the proof. `TruthInv` and
`FreshInv` are the same for the other statuses. `GateInv`: whatever is past the gate
(a verdict, a message, a task, a write-ahead that skips the gate) has its approvals,
and no entry of an earlier session is left when a new process starts. The two action
properties follow because only `CallProxmox` sends (`OnlyCallsSend`).
`QueueNotTimedOut` has an invariant of its own, `AskInv`: the clock of a request that
was asked for is never behind the clock of the task that waits for it, from the moment
the message is sent to the moment the verdict is taken, so an expired wait has no
registered request left that is in its life. One that has outlived it may still be
approved with a time read before the lock; the theorem is about the others (`told`). `QueuePendingKept` rests on `SaveInv`: while no
write failed, a queue that is not dirty is in `Latest`, the newest snapshot that is or
will be on disk, up to the Running entries that a restart shows as Interrupted; a
snapshot the writer still has is older than the one in the channel.

`MutationGateProofs` (from `GateAssumption`: any calls, profiles, retry budget, TTLs
and operator turns): `GateTypes`, `GateInvariance`, `GateExecutesOnce`,
`GateLocksHold`, `GateBooks`. `GateInv` has three parts. `Progress`: where a mutation
is tells what it has done; in the retry loop it has its "sent" row and has *not* been
executed, which is `RetriesAreSafe`: no answer after which a mutation goes on is one
Proxmox may have carried out. `Ahead`: a lock that bars a mutation is on and lies
ahead of it, so that a lock that stays on is met; the locks are read one after the
other, and the proof needs that none of them is skipped. `Budget`: the attempts left,
with the one a forced login adds.

`AuditChainProofs` (from `AuditAssumption`: any processes, mutations, rotations,
faults and kills, overlapping ones included): `AuditTypes`, `AuditInvariance`,
`AuditOneChain`, `AuditTrailComplete`, `AuditKeys`, `AuditVerifies`. `ChainInv` adds to the properties `Appender`
(who is about to insert holds the write lock and was told the last row under it),
`Covered` (who may leave, has left or is answered has a "sent" row) and `Stranded`
(on a log restored without its key nobody gets past `first_use_key`). Rows only grow
and a rotation's commit changes nothing but labels (`RowsGrow`). `KeyInv` is the
invariant of `LogVerifies` and says who holds which key. Without conditions: one
mutation of a process is in the section (`Exclusive`), nobody has a key before there is
one and no row is unsigned (`Keyed`), keys are numbered as published (`Published`). As
long as `trouble` has not recorded the overlap concerned: appends and rotations are not
in progress together (`Apart`), a rotation's point tells where the old key is
(`Turning`), the fresh key has signed nothing as long as it may be withdrawn (`Fresh`),
a mutation holds the key on disk (`Current`), and a row labelled primary is signed by
that key, or by the one whose rotation is about to commit (`Labelled`). The proof needs
the last two to see that the one verification of a process cannot go wrong (`Clean`),
and `Fresh` for the commit that fails: the new key disappears from disk.

`DaemonServeProofs`: `DaemonInvariance`, `DaemonTruth`, `DaemonAlertsSpaced`,
`DaemonRunsSpaced` and the conjunction of these two, `DaemonPaced`. `DaemonInv` has
`SupInv` (the supervisor has decided nothing before it judges, an exit it was told of
is one, and without a request a component that is over has failed: the exit code
follows), `WindowInv` (the window has the time of the last firing, or that time was so
long ago at the start of the tick that the entry was evicted; a loop that is not
running has it on disk) and `ScheduleInv`. Its `PaceInv` is about each job that is neither
in `torn` nor in `lost`, with any number of runs and commands under way: runs that took
it together know so (`TwoKnow`), one that has it to itself found it an interval after its
last end (`DueAlone`), and the copies of the runs that ran it, and the file but for what
is unsaved, have it due an interval after that end (`CopyPaced`, `FilePaced`). `RunInv` and
`CommandInv` say in which jobs a copy may differ from the file. The two action properties are
about ages, which the model caps at `Cap`; the proof needs that every window that is
compared is below the cap, which is what `Window` is for.

`ReconcileProofs`: `ReconcileInvariance`, `ReconcileInside`, `ReconcileAccounted`,
`ReconcileDelivers`. The
invariant is about one run at a time (`RunOK` in the proofs), and one lemma for each
way a run moves is used for the daemon and the operator alike; the other run is left
alone or `Disturbed`. `SeenInv`: what an undisturbed run has read is what there is.
`PlanInv`: one change for an object, that fits it, gone through in order. `CallInv`:
the calls left of a change fit its object, and an update that takes its object away
(a grant is cleared and set, an IP set deleted and created) still has the call that
brings it back. `LossInv`: what an undisturbed run was only to update and is gone has
failed, is to be brought back, or is a rule whose resource went before it and will
fail. `TraceInv` and `GateInv` say what was sent and by which gate. Under them lie
lemmas on the operators of `StateApply`: what the diff of two states yields
(`DiffFacts`), that the calls of every family fit and restore (`CallsFacts`), that a
call Proxmox accepts leaves a cluster whose objects are of their families, and what it
can make disappear (`EffectFacts`). That a finite plan has a first change is the
existence of a least rank, from the well-foundedness of the naturals.

`ReconcileDelivers` is `ApplyDelivers` for every family, plan and number of members. Its
invariant is `DeliverInv` beside the one above: an undisturbed run has formed its changes
from what it read (`Formed`); what it has not come to is as it was read, except that a
rule may have lost the resources the run has deleted (`Found`, `Gone`); what it applied is
there and what failed had to. The hard part is a change under way, whose calls are as many
as the object has members. `Heading` says of the calls *left* that they lead from the
present value to the declared one, without counting them: `Filling` for a pool or an IP
set (comment, removals, delete, create and additions in this order, no name twice; each
name that nobody adds is already as declared once the removals and the create are done),
`Granting` for a grant. So no induction over the length is needed: the calls of a fresh
change are heading there (`HeadStart`), the first of them leaves the rest heading there
(`HeadStep`, from `FillStep`, `GrantStep` and `PlainStep`), and no calls left means the
value is the declared one (`FillEnd`, `GrantEnd`). `StandingCall` is the frame: a call
disturbs no other object but the rules of a resource it deletes, and these are still to
come because resources are before rules in the order. TLC passes `DeliverInv` as an
invariant of both Reconcile instances.

`McpServerProofs`: `ServerInvariant`, `ServerAsks`, `ServerInOrder`, `ServerRevokes`.
The invariant is `ServerInv`. `CallInv` says of each request what it has done by the
place it is at: nothing is recorded before the send, the row waits for what the
configuration read at the head of the call said, what is left of an inline program
writes power-on at most. `StdioInv` orders the requests of a session (done, at most one
under way, queued, free) and `QueueInv` says that the lines in the channel followed by
those in the pipe are the queued ones in order and then the end of the input; stdout is
in order because the request under way is behind all that are done, and the end is
noticed last because nothing can be behind it. `NewsInv` ties the notes of a task to
the poller's map and to what was pruned from it: an end is only told of a task that has
ended, which is why even a pruned one is not announced as started after it. The proof describes every step of one request by one shape (`Shape`):
where it may go, that it still fits the invariant, and what it adds to stdout. It uses
of the tool table only what TLC evaluates on it: `OnlyPowerOnIsInline` and
`ProgramsAreSteps`.

`CliRunProofs`: `CliInvariant`, `CliRefusalsAreClean`, `CliReportsAreTrue`,
`CliRolloutsAreSafe`. `CliInv` is the conjunction of what the command keeps and the
invariants of its three long steps. `ProgramInv`: what is left to do is the end of one
of the command's programs and what was sent was sent by the steps before it. With it the
properties of a run follow from four facts of the table of programs: `RefusalsFirst` (no
command but `clone` may refuse after something that writes), `SecureCovers` (what
`--secure` lets through is harmless or comes after the creation of the guest),
`MarksAreJudged` and `ProgramsAreSteps`. `PartsInv`: a lookup, a batch or a rollout under
way is the present step. `LookupInv`: a guest that has not moved is where nobody has
looked yet, so a walk without an error that saw it nowhere tells the truth. `BatchInv`
has the place in the list of targets (`PlaceInv`: the slice and the rest are what the
turns have left), what is reported of an entry before and after its turn (`EntryInv`),
whom the batch may touch (`TouchInv`), what its flags say (`FlagInv`) and how far the plan
has come (`StageInv`: the pilot, or all of the pilot passed; for waves, the number of
waves that passed without an error). Of a batch that is over, `Reached(m)` says how far it
got; from it `RolloutStops` follows for every percentage, wave size and list of targets,
with the arithmetic of `canary_pilot_count` and of the waves. `PatchInv` says that the
node at hand is the only one begun and not finished, and that every other node that
reboots is one a poll was mistaken about (`RebootInv`). Every step after which the command goes on is brought under the
lemma `StepDone`, and every exit under `StepLeaves`.

The attempts corrected four things. `NoSilentLoss` used to say that what a run was
only to update and is gone was reported as *failed*. The proof broke on a rule whose
resource the same run deletes: Proxmox purges the rule with the resource, the answer of
the delete is lost, and the fail-fast loop reports the rule as skipped. TLC finds the
behaviour once an HA resource and its rule are among the objects (`HaMove` of
`MCReconcile`); the property now allows the report "aborted". The proof of
`LogVerifies` asked where each of the two key files may change, which led to
`rename_durable`: it can fail after it has renamed. `ReplaceUnsynced` is that step.
`BatchExitIsTrue` used to say that exit 2 means a target failed or was skipped; it is not
so when the pilot of a canary is all there is and waits for approval (section 5), and the
instance had no percentage that makes it so. It has 100 now. `QuietRunsSucceed` used to
say that without a fault a quiet run fails only at a fixed field or a missing resource.
The proof asked what a rule's update finds after the same run deleted the rule's
resources: nothing, when they were all it had, and the update is answered 404 although
the resources it names now are there (section 5). `HaSwap` of `MCReconcile` is that
world, and `Orphaned` names the case.

Only model-checked: everything under fairness, which the prover cannot handle, and the
two invariants of `TuiApp`, whose state is spread over the most modules.

## 5. Disagreements met while modelling

Each is what the code does at the line named, against what a comment or a document
says, or a window in which two actors meet. The models have the code's behaviour;
where a property would fail because of it, the property says under which condition
it holds.

Approvals and the command line
- The buttons vanish after the first vote of a quorum: `hitl/daemon.rs:247` edits the
  message with an empty keyboard on every vote, where `hitl/telegram.rs:531` says the
  buttons go "after the outcome is recorded" and `docs/integrations/hitl.md:209`
  counts on further votes. A second approver needs a client that still shows them.
- A request whose message was delivered but whose reply was lost is closed as never
  sent (`cli/common.rs:936` "nobody was asked"); if somebody approved it before the
  close, the daemon runs it although the command reported it as not run.
- `cli/common.rs:684` gives a rolling batch with a failed and a pending guest the
  larger code; `docs/reference/exit-codes.md:17` says "If a guest also failed, the
  exit is `2`".
- `cli/common.rs:631`: a canary whose pilot waits for approval exits 2 (646), also when
  the pilot is all there is and nothing failed or was skipped; the same page has 9 for
  that, and the batch without a policy gives 9.
- `cli/common.rs:1008`: a `--strict` batch bails at its first failure with the error
  alone; the results it had collected, task ids included, are not printed.
- `cli/mod.rs:2243`: `clone --profile` finds out that the profile cannot be applied
  after the clone exists; `cli/cloudimg.rs:557` ignores how the resize task ended.
- A timed out MCP call leaves its row open (`mcp/dispatch.rs:1010`): an approval that
  comes later is still executed.

Audit log and gates
- `audit/mod.rs:1008`: an append that read its key before a rotation writes after it
  with the retired key, against the account at 860–866. Overlapping rotations lose a
  key (890); a commit that fails together with the restore (940) or a kill in
  between (934) leaves the log with a key that does not sign it; a process remembers
  one bad verdict (980). `trouble` tracks exactly these.
- `audit/mod.rs:934`: `rename_durable` renames and then syncs the directory
  (`util/durable.rs:38`). If the sync fails the rotation takes the replacement for
  failed and removes the retired copy, with the fresh key already in place: the key that
  signed every row is gone, where 875 says "the primary is left as it was" and 883 "the
  key files and rows are then unchanged".
- A freeze that is written after the check does not stop the call under way
  (`api/client.rs:705`); thaw reads the lock and then removes whatever is there
  (`incident/mod.rs:599`).

TUI
- `tui/mod.rs:1883`: a batch whose write-ahead failed stays Running and no key takes it
  up again, where the comment at 1880 says the user "can retry".
- Two TUIs on one profile restore the same Pending entries (`app/cache.rs:479`).
- Overlapping opens of a shell leave the one that connected last
  (`tui/ssh_handler.rs:127`); Enter also agrees to the hard stop that the comment at
  `app.rs:1663` reserves for `y`; two hardware views share `hw_node`
  (`app.rs:1288`).
- Snapshots that arrive while another view is on top are dropped (`app.rs:1333`) and
  `snap_tree_loading` stays set, also when the tree is on top again; the comment at
  `tui/mod.rs:2415` says "so loading flag clears". `grep_searching` survives an edit of the
  text (`app.rs:1753`) and leaving the view (624). `FetchesShow` holds for who stays.
- `tui/mod.rs:261` takes the time before it waits for the lock of the pending approvals
  (262): a press that waited is judged by a time before the expiry (266), and its approver
  reads "Approved" although the task's own wait has ended (1547) and denies.
- A tick drops the `FetchTaskLog` of an open log (`tui/mod.rs:790`), where
  `docs/reference/tui.md:18` says "live log".
- The first character typed at the tag or broadcast prompt turns it into the command
  palette (`app.rs:969`), against `docs/reference/tui.md:97` and 108.

State, patches, alerts, schedules
- `failback` of an HA resource is not exported (`state/export.rs:758`, against
  `docs/reference/cli.md:217`), and a cleared comment of a backup job or alias is
  carried by no call, so such a declaration is reported as drift for ever. The diff
  compares an HA rule's resources in order, against `state/model.rs:778`–781.
- A rule that is to get new resources while all it has are to be deleted: the deletes
  come first (`state/diff.rs:145`, 148), Proxmox removes the emptied rule with them, and
  the rule's update fails with a 404, which only its delete tolerates
  (`state/apply.rs:1473`). `state/apply.rs:351` calls the order sensible for applying;
  here it takes a second run, which creates the rule.
- Every answer but Online counts as the reboot, a failed `get_nodes` and Unknown among
  them, and the uptime is not read (`app/patch.rs:588`–594, against the comment at 561): a
  node that is unlisted for one poll before its reboot begins is taken to be back, and the
  next node is rebooted while it goes down. A reboot faster than a poll and one that never
  began look alike. `RebootsApart` excepts the nodes so mistaken and no others.
- `run_due` saves the file it loaded before its work (`cli/schedule.rs:438`): a
  command in between is overwritten, and two timers that load the file before either has
  saved (396) both run a job that is due. `CommandsHold` and `RunsAreSpaced` except these
  jobs and no others.
- A child of the scheduler has no timeout (`cli/schedule.rs:416`): after the grace period
  the process still waits for the thread that waits for it.
- `migrate --stream` follows its task without a deadline (`cli/mod.rs:1981` passes 0), and
  `logs tail` follows for ever (`cli/logs.rs:262`), as it says.
- The audit entry of an apply, the record of an interrupted one and the drift status are
  best-effort (`state/converge.rs:244`, 293; `cli/daemon.rs:544`, 884): what is promised is
  the entry or the logged error.
- Alert windows are evicted after 86400 s (`cli/monitoring.rs:666`): a rule with a
  longer `dedup_secs` fires again, against `docs/integrations/alerts.md:103`. The same
  page says the window does not survive a restart; the code persists it.

MCP
- A profile's own freeze is never announced (`mcp/notifications.rs:249`, against 99);
  the first list that fails and the pruning of the seen set announce old tasks again
  (187, 226).
- The stdio loop awaits its writes inside the `select!` (`mcp/server.rs:275`), and a stream
  re-checks its token only when it is polled (`mcp/http_server.rs:438`): a client that does
  not read stalls answers and the shutdown of its session, and a withdrawn stream that
  nobody reads stays open.
- `mcp/tools.rs:115`–116 document a limit of 64 where the code has 256;
  `app/preflight.rs:602` says "substring" where whole tags are compared.

## 6. Not modelled, and what the models leave out

- TUI drawing (`tui/views/`, themes, layout): pure functions of the state, without
  effects; what they could get wrong is how things look.
- TLS pinning and known hosts: cryptographic libraries decide; one comparison each.
- Consoles (VNC, SPICE, serial), the PBS client, the mount helper and the utilities:
  transport of bytes without decisions, or single requests.
- Wizards, `doctor`, completions, printed reports and JSON layouts: output.
- Policy pattern matching and config parsing: string functions; a request is in the
  model because a policy did match, a configuration because it parsed.
- The rate limiter's delay, the fan-out of read commands over several profiles.
- `HitlApprovals`: an `ApprovedOp` is one call that succeeds or fails. A daemon that
  dies in the call leaves the row approved; the model shows that nobody runs it
  again, not that somebody looks at it.
- `AuditChain`: contents of a row, `verify`'s report, repair by hand.
- `MutationGate`: how a path is built or an answer decoded. A thaw is one step.
- `OpQueue`: more than one TUI process on a profile; the text of descriptions and
  the script export. SQLite transactions are atomic and durable, and a save that
  returned an error wrote nothing.
- `StateApply`: fields that all behave alike are one field; Proxmox's own validation
  is the four refusals `apply.rs` relies on.
- `McpServer`: a write to a closed stdout ends the server with an error; the model's client
  stops reading but does not close.
- `TuiApp`: scrolling, sorting and filtering of lists, and the contents of panes. That an
  Enter at the dialog of a stop that timed out was meant for something else is not
  expressed: every Enter there is an agreement.
- `TuiRefresh`: a node that `get_nodes` does not list, and a panic of a node's task, whose
  JoinError is dropped (`tui/mod.rs:1105`): in both the node would be neither failed nor
  partial and the cycle would count as complete. Panics are denied by the crate's lints.

## 7. Plan

Done: the approval path, the audit log, the gates, the operation queue; the command
line with batches, patches and lookups, state reconcile, the daemon with alerts and
schedules, the MCP server, the TUI; proofs of the first four, of the daemon, of the
reconciler, of the MCP server and of the command line.

Left, in this order:

1. Proofs for the one module that is only model-checked: `OperatorInControl` and
   `ScreenIsTrue` of `TuiApp` with `TuiRefresh`.
2. A composition of `MutationGate` and `AuditChain`, so that the gate's write-ahead is
   the log's append.
3. Two TUI processes on one profile.
