--------------------------- MODULE ScheduleStore ---------------------------
(***************************************************************************)
(* Recurring commands: schedules.toml, the `schedule' commands and run_due, *)
(* which the daemon's loop calls on a thread of its own and a cron entry    *)
(* may call too (cli/schedule.rs, schedule_loop of cli/daemon.rs).          *)
(*                                                                         *)
(* Everybody loads the file, changes the copy and saves the whole of it.    *)
(* `due' counts down the seconds to next_run.                               *)
(***************************************************************************)
EXTENDS Naturals, FiniteSets

CONSTANTS
    Jobs,       \* names of schedules
    Every,      \* the interval of a schedule
    UseCron,    \* a cron entry calls `schedule run-due' too
    MaxCommands \* bound on the operator's commands and on cron's calls

Runners == {"loop"} \cup (IF UseCron THEN {"cron"} ELSE {})
NoEntry == [on |-> FALSE, due |-> Every + 1]
Entries == [on : BOOLEAN, due : 0..Every] \cup {NoEntry}
Files == [Jobs -> Entries]
Empty == [j \in Jobs |-> NoEntry]

ASSUME ScheduleAssumption ==
    /\ Every \in Nat \ {0} /\ MaxCommands \in Nat /\ UseCron \in BOOLEAN
    /\ "none" \notin Jobs

VARIABLES
    file,       \* schedules.toml
    due,        \* [Runners -> a run_due in progress]
    cmd,        \* the operator's command in progress
    commands,   \* commands and cron calls so far
    idle,       \* seconds since the last run of a job ended, up to Every
    meant,      \* what the operator was told a job is: "on", "off" or "gone"
    torn,       \* the jobs of which a saved change was overwritten by a later save
    lost        \* the jobs that ran in a run_due which did not save

scheduleVars == <<file, due, cmd, commands, idle, meant, torn, lost>>

\* A run_due keeps its copy of the file, the jobs that were due, those still to
\* run and the one that runs.  `stale' (the jobs that somebody else has saved
\* since the copy was made) and `shared' (the jobs another run_due in progress
\* took too) are history.
Runs == [pc : {"idle", "running"}, copy : Files, took : SUBSET Jobs, todo : SUBSET Jobs,
         job : Jobs \cup {"none"}, stale : SUBSET Jobs, shared : SUBSET Jobs]
CommandOps == {"add", "remove", "pause", "resume"}
Commands == [pc : {"loaded"}, copy : Files, op : CommandOps, job : Jobs, stale : SUBSET Jobs]

NotRunning == [pc |-> "idle", copy |-> Empty, took |-> {}, todo |-> {}, job |-> "none",
               stale |-> {}, shared |-> {}]
NoCommand == [pc |-> "idle", copy |-> Empty, op |-> "none", job |-> "none", stale |-> {}]

ScheduleInit ==
    /\ file = Empty
    /\ due = [r \in Runners |-> NotRunning]
    /\ cmd = NoCommand
    /\ commands = 0
    /\ idle = [j \in Jobs |-> Every]
    /\ meant = [j \in Jobs |-> "gone"]
    /\ torn = {} /\ lost = {}

\* The run r seen by somebody else's save, of the jobs js.
Outdated(run, js) == IF run.pc = "running" THEN [run EXCEPT !.stale = @ \cup js] ELSE run

---------------------------------------------------------------------------
(* The operator: add, remove, pause and resume                             *)

CommandLoads(op, j) ==
    /\ cmd.pc = "idle" /\ commands < MaxCommands
    /\ op = "add" => file[j] = NoEntry
    /\ cmd' = [pc |-> "loaded", copy |-> file, op |-> op, job |-> j, stale |-> {}]
    /\ commands' = commands + 1
    /\ UNCHANGED <<file, due, idle, meant, torn, lost>>

\* The copy after the command; pausing what is not there changes nothing.
Edited(entry, op) ==
    CASE op = "add" -> [on |-> TRUE, due |-> Every]
      [] op = "remove" -> NoEntry
      [] op # "remove" /\ entry = NoEntry -> NoEntry
      [] op = "pause" /\ entry # NoEntry -> [entry EXCEPT !.on = FALSE]
      [] op = "resume" /\ entry # NoEntry -> [entry EXCEPT !.on = TRUE]

StateOf(entry) == IF entry = NoEntry THEN "gone" ELSE IF entry.on THEN "on" ELSE "off"

CommandSaves ==
    /\ cmd.pc = "loaded"
    /\ LET new == [cmd.copy EXCEPT ![cmd.job] = Edited(@, cmd.op)]
           changed == IF new[cmd.job] = cmd.copy[cmd.job] THEN {} ELSE {cmd.job}
       IN  /\ file' = new
           /\ meant' = [meant EXCEPT ![cmd.job] = StateOf(new[cmd.job])]
           /\ due' = [r \in Runners |-> Outdated(due[r], changed)]
    /\ torn' = torn \cup cmd.stale
    /\ cmd' = NoCommand
    /\ UNCHANGED <<commands, idle, lost>>

---------------------------------------------------------------------------
(* run_due                                                                 *)

Ready(f) == {j \in Jobs : f[j].on /\ f[j].due = 0}

\* The jobs due in the file that another run_due in progress took too.
Contended == {j \in Ready(file) : \E r \in Runners : j \in due[r].took}

\* The file is read once; what is due is decided by the time of the start.
RunDue(r) ==
    /\ due[r].pc = "idle"
    /\ due' = [q \in Runners |->
                 IF q = r
                 THEN [pc |-> "running", copy |-> file, took |-> Ready(file), todo |-> Ready(file),
                       job |-> "none", stale |-> {}, shared |-> Contended]
                 ELSE [due[q] EXCEPT !.shared = @ \cup (Ready(file) \cap due[q].took)]]
    /\ UNCHANGED <<file, cmd, idle, meant, torn, lost>>

Spawn(r) ==
    /\ due[r].pc = "running" /\ due[r].job = "none" /\ due[r].todo # {}
    /\ due' = [due EXCEPT ![r].job = CHOOSE j \in due[r].todo : TRUE]
    /\ UNCHANGED <<file, cmd, commands, idle, meant, torn, lost>>

\* Mutant: the next run is counted from the old due date, which has passed.
RescheduledAtOnce(entry) == entry

\* Mutant: a schedule is done once it has run.
RescheduledNever(entry) == NoEntry

\* The next run is counted from the end of this one, failed or not.
Rescheduled(entry) == [entry EXCEPT !.due = Every]

ChildEnds(r) ==
    /\ due[r].pc = "running" /\ due[r].job # "none"
    /\ due' = [due EXCEPT ![r].copy[due[r].job] = Rescheduled(@),
                          ![r].todo = @ \ {due[r].job},
                          ![r].job = "none"]
    /\ idle' = [idle EXCEPT ![due[r].job] = 0]
    /\ UNCHANGED <<file, cmd, commands, meant, torn, lost>>

\* The whole copy is saved, over whatever was saved since it was made.
SaveStore(r) ==
    /\ due[r].pc = "running" /\ due[r].job = "none" /\ due[r].todo = {}
    /\ file' = due[r].copy
    /\ torn' = torn \cup due[r].stale
    /\ due' = [q \in Runners |-> IF q = r THEN NotRunning ELSE Outdated(due[q], due[r].took)]
    /\ cmd' = IF cmd.pc = "loaded" THEN [cmd EXCEPT !.stale = @ \cup due[r].took] ELSE cmd
    /\ UNCHANGED <<commands, idle, meant, lost>>

\* The process goes away under run_due: what ran is not recorded.
KillRun(r) ==
    /\ due' = [due EXCEPT ![r] = NotRunning]
    /\ lost' = lost \cup (due[r].took \ due[r].todo) \cup ({due[r].job} \cap Jobs)

\* The store can not be written: what ran is not recorded either.
SaveFails(r) ==
    /\ due[r].pc = "running" /\ due[r].job = "none" /\ due[r].todo = {}
    /\ KillRun(r)
    /\ UNCHANGED <<file, cmd, commands, idle, meant, torn>>

\* The steps of run_due itself; how long a child takes is not its own doing.
RunStep(r) == Spawn(r) \/ SaveStore(r)

CronCalls ==
    /\ UseCron /\ commands < MaxCommands
    /\ commands' = commands + 1
    /\ RunDue("cron")

---------------------------------------------------------------------------

Sooner(f) == [j \in Jobs |-> IF f[j] # NoEntry /\ f[j].due > 0 THEN [f[j] EXCEPT !.due = @ - 1] ELSE f[j]]

SecondPasses ==
    /\ file' = Sooner(file)
    /\ due' = [r \in Runners |-> [due[r] EXCEPT !.copy = Sooner(@)]]
    /\ cmd' = [cmd EXCEPT !.copy = Sooner(@)]
    /\ idle' = [j \in Jobs |-> IF idle[j] < Every THEN idle[j] + 1 ELSE idle[j]]
    /\ UNCHANGED <<commands, meant, torn, lost>>

---------------------------------------------------------------------------
(* What the runs and the file keep                                         *)

ScheduleTypes ==
    /\ file \in Files /\ due \in [Runners -> Runs] /\ cmd \in Commands \cup {NoCommand}
    /\ commands \in Nat /\ idle \in [Jobs -> 0..Every]
    /\ meant \in [Jobs -> {"on", "off", "gone"}] /\ torn \subseteq Jobs /\ lost \subseteq Jobs

\* The jobs a run has run and not saved yet.
Unsaved(r) == due[r].took \ due[r].todo

\* A copy nobody has saved over differs from the file in what the run ran, and
\* there only in the date.
RunInv(r) ==
    /\ due[r].pc = "idle" => due[r] = NotRunning
    /\ due[r].todo \subseteq due[r].took
    /\ due[r].job \in due[r].todo \cup {"none"}
    /\ due[r].pc = "running" =>
         \A j \in Jobs \ (torn \cup due[r].stale) :
            /\ j \in due[r].took => file[j].on /\ due[r].copy[j].on
            /\ j \notin Unsaved(r) => due[r].copy[j] = file[j]

CommandInv ==
    cmd.pc = "loaded" => \A j \in Jobs \ (torn \cup cmd.stale) : cmd.copy[j] = file[j]

Paced(f, j) == f[j] # NoEntry => idle[j] + f[j].due >= Every

\* Two runs that took a job know of each other (in their history).
TwoKnow(j) ==
    \A r, q \in Runners : r # q /\ j \in due[r].took /\ j \in due[q].took => j \in due[r].shared

\* A run that has a job still to run, alone, found it an interval after its end.
DueAlone(j) ==
    \A r \in Runners : j \in due[r].todo /\ j \notin due[r].shared => idle[j] >= Every

\* The copy of a run that ran a job, or that of another that did, says an
\* interval from the end of its last run,
CopyPaced(j) ==
    \A r \in Runners : j \in Unsaved(r) /\ j \notin due[r].stale =>
        Paced(due[r].copy, j) \/ \E q \in Runners \ {r} : j \in Unsaved(q)

\* and so does the file, but for what is still unsaved.
FilePaced(j) == Paced(file, j) \/ \E r \in Runners : j \in Unsaved(r)

\* Where a job stands whose saves were neither overwritten nor missed.
PaceInv ==
    \A j \in Jobs \ (torn \cup lost) : TwoKnow(j) /\ DueAlone(j) /\ CopyPaced(j) /\ FilePaced(j)

ScheduleInv == PaceInv /\ CommandInv /\ \A r \in Runners : RunInv(r)
===========================================================================
