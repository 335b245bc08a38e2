---------------------------- MODULE DaemonServe ----------------------------
(***************************************************************************)
(* `daemon serve': the components it starts, the watchers that report their *)
(* end, the process-wide shutdown flag, the choice of the exit code and the *)
(* end of the process (run_unified of cli/daemon.rs, util/shutdown.rs,      *)
(* metrics/daemon_health.rs, main.rs), composed with the alert watch and    *)
(* the scheduler.                                                           *)
(***************************************************************************)
EXTENDS AlertWatch, ScheduleStore

CONSTANT Flavours   \* the sets of components the flags and sections may enable

VARIABLES
    comps,      \* the components that were started
    hitl,       \* the approval loop, as far as the supervisor sees it
    ticker,     \* the schedule loop: waiting, in run_due, ended
    told,       \* the exits in the channel
    watched,    \* the components whose watcher still waits
    up,         \* daemon_health: the gauge of each component
    sup,        \* where the supervisor is
    code,       \* its exit code
    own,        \* the components that ended before a shutdown was requested
    grace       \* the grace period ran out

supVars == <<comps, hitl, ticker, told, watched, up, sup, code, own, grace>>
vars == <<alertVars, scheduleVars, supVars, flag, faults>>

Components == {"alerts", "schedule", "hitl"}

ASSUME FlavourAssumption == Flavours \subseteq SUBSET Components

SupInit(cs) ==
    /\ comps = cs /\ watched = cs /\ up = cs
    /\ hitl = "run" /\ ticker = "wait"
    /\ told = {} /\ own = {} /\ grace = FALSE
    /\ sup = IF cs = {} THEN "exited" ELSE "select"
    /\ code = IF cs = {} THEN 1 ELSE 0

\* The alerts start only when there are rules.
Init ==
    /\ AlertInit /\ ScheduleInit
    /\ flag = FALSE /\ faults = 0
    /\ \E f \in Flavours :
          /\ rules = {} => "alerts" \in f
          /\ SupInit(IF rules = {} THEN f \ {"alerts"} ELSE f)

Over(c) ==
    CASE c = "alerts" -> watch.pc = "ended"
      [] c = "schedule" -> ticker = "ended"
      [] c = "hitl" -> hitl = "ended"

Alive == sup # "exited"

\* A component that ends without a shutdown has failed.
Owns(c) == own' = IF flag THEN own ELSE own \cup {c}

---------------------------------------------------------------------------
(* The components                                                          *)

Watching ==
    /\ Alive /\ "alerts" \in comps
    /\ WatchStep
    /\ IF watch'.pc = "ended" THEN Owns("alerts") ELSE UNCHANGED own
    /\ UNCHANGED <<scheduleVars, comps, hitl, ticker, told, watched, up, sup, code, grace>>

\* The loop waits, then hands run_due to a thread and waits for it.
TickerFires ==
    /\ Alive /\ "schedule" \in comps /\ ticker = "wait" /\ ~flag
    /\ ticker' = "busy"
    /\ RunDue("loop") /\ UNCHANGED commands
    /\ UNCHANGED <<alertVars, comps, hitl, told, watched, up, sup, code, own, grace, flag, faults>>

\* The thread outlives the loop that waits for it.
Running ==
    /\ \E r \in Runners :
          /\ r = "loop" => Alive
          /\ (NoFault /\ RunStep(r)) \/ (Fault /\ SaveFails(r))
    /\ ticker' = IF ticker = "busy" /\ due'["loop"].pc = "idle" THEN "wait" ELSE ticker
    /\ UNCHANGED <<alertVars, comps, hitl, told, watched, up, sup, code, own, grace, flag>>

\* The command of a job returns.  Nothing limits how long it takes.
ChildReturns ==
    /\ \E r \in Runners : (r = "loop" => Alive) /\ ChildEnds(r)
    /\ UNCHANGED <<alertVars, supVars, flag, faults>>

TickerEnds ==
    /\ Alive /\ ticker = "wait" /\ flag
    /\ ticker' = "ended"
    /\ UNCHANGED <<alertVars, scheduleVars, comps, hitl, told, watched, up, sup, code, own, grace, flag, faults>>

\* The approval loop returns after a shutdown, or fails on its own.
HitlEnds ==
    /\ Alive /\ "hitl" \in comps /\ hitl = "run"
    /\ (flag /\ NoFault) \/ Fault
    /\ hitl' = "ended"
    /\ Owns("hitl")
    /\ UNCHANGED <<alertVars, scheduleVars, comps, ticker, told, watched, up, sup, code, grace, flag>>

---------------------------------------------------------------------------
(* The supervisor                                                          *)

\* The flag is set before anybody who waits for it wakes.
Signal ==
    /\ Alive /\ ~flag
    /\ flag' = TRUE
    /\ UNCHANGED <<alertVars, scheduleVars, supVars, faults>>

\* Mutant: the gauge is set only for an exit that is reported.
WatcherReportsQuietly(c) ==
    /\ Alive /\ c \in watched /\ Over(c)
    /\ watched' = watched \ {c}
    /\ told' = IF sup = "returned" THEN told ELSE told \cup {c}
    /\ UNCHANGED up
    /\ UNCHANGED <<alertVars, scheduleVars, comps, hitl, ticker, sup, code, own, grace, flag, faults>>

\* The end of a component reaches the gauge and the channel; one that the
\* supervisor aborted is not reported.
WatcherReports(c) ==
    /\ Alive /\ c \in watched /\ Over(c)
    /\ watched' = watched \ {c}
    /\ told' = IF sup = "returned" THEN told ELSE told \cup {c}
    /\ up' = up \ {c}
    /\ UNCHANGED <<alertVars, scheduleVars, comps, hitl, ticker, sup, code, own, grace, flag, faults>>

\* The select looks at the flag first, then at the channel.
PollSignal ==
    /\ sup = "select"
    /\ sup' = IF flag THEN "grace" ELSE "polled"
    /\ UNCHANGED <<alertVars, scheduleVars, comps, hitl, ticker, told, watched, up, code, own, grace, flag, faults>>

PollExits ==
    /\ sup = "polled"
    /\ \/ told # {} /\ sup' = "judge" /\ \E c \in told : told' = told \ {c}
       \/ told = {} /\ sup' = "pending" /\ UNCHANGED told
    /\ UNCHANGED <<alertVars, scheduleVars, comps, hitl, ticker, watched, up, code, own, grace, flag, faults>>

\* Whatever wakes the select, it starts with the flag again.
Woken ==
    /\ sup = "pending" /\ (flag \/ told # {})
    /\ sup' = "select"
    /\ UNCHANGED <<alertVars, scheduleVars, comps, hitl, ticker, told, watched, up, code, own, grace, flag, faults>>

\* Mutant: an exit is a fault, whatever the flag says.
JudgeHastily ==
    /\ sup = "judge"
    /\ code' = 1 /\ sup' = "abort"
    /\ UNCHANGED <<alertVars, scheduleVars, comps, hitl, ticker, told, watched, up, own, grace, flag, faults>>

\* Mutant: the other components go on when one of them ends.
JudgeGoesOn ==
    /\ sup = "judge"
    /\ sup' = IF flag THEN "grace" ELSE "select"
    /\ UNCHANGED <<alertVars, scheduleVars, comps, hitl, ticker, told, watched, up, code, own, grace, flag, faults>>

\* An exit is a fault unless a shutdown has been requested by now.
Judge ==
    /\ sup = "judge"
    /\ IF flag THEN code' = 0 /\ sup' = "grace" ELSE code' = 1 /\ sup' = "abort"
    /\ UNCHANGED <<alertVars, scheduleVars, comps, hitl, ticker, told, watched, up, own, grace, flag, faults>>

\* The components are waited for until the last watcher is gone or
\* SHUTDOWN_GRACE is over.
Grace ==
    /\ sup = "grace"
    /\ \/ watched = {} /\ UNCHANGED grace
       \/ watched # {} /\ grace' = TRUE
    /\ sup' = "abort" /\ told' = {}
    /\ UNCHANGED <<alertVars, scheduleVars, comps, hitl, ticker, watched, up, code, own, flag, faults>>

Abort ==
    /\ sup = "abort"
    /\ IF "alerts" \in comps /\ ~Over("alerts") THEN DropWatch ELSE UNCHANGED <<watch, forgot>>
    /\ ticker' = "ended" /\ hitl' = "ended"
    /\ sup' = "returned" /\ told' = {}
    /\ UNCHANGED <<bad, rules, since, dedup, disk, fired, heard, scheduleVars, comps, watched, up, code, own, grace, flag, faults>>

\* With exit code 0 the runtime is dropped, which waits for the thread of
\* run_due; otherwise the process exits at once.
Exit ==
    /\ sup = "returned"
    /\ \/ code = 0 /\ due["loop"].pc = "idle" /\ UNCHANGED <<due, lost>>
       \/ code = 1 /\ KillRun("loop")
    /\ sup' = "exited"
    /\ UNCHANGED <<alertVars, file, cmd, commands, idle, meant, torn, comps, hitl, ticker, told, watched, up, code, own, grace, flag, faults>>

Kill ==
    /\ Alive /\ Fault
    /\ IF "alerts" \in comps THEN DropWatch ELSE UNCHANGED <<watch, forgot>>
    /\ KillRun("loop")
    /\ ticker' = "ended" /\ hitl' = "ended"
    /\ sup' = "exited" /\ code' = 1
    /\ own' = comps
    /\ UNCHANGED <<bad, rules, since, dedup, disk, fired, heard, file, cmd, commands, idle, meant, torn, comps, told, watched, up, grace, flag>>

\* systemd starts it again after a failure, an administrator after a stop.
Restart ==
    /\ sup = "exited" /\ Fault
    /\ LET cs == IF rules = {} THEN comps \ {"alerts"} ELSE comps
       IN  /\ cs # {}
           /\ comps' = cs /\ watched' = cs /\ up' = cs
    /\ watch' = Started
    /\ hitl' = "run" /\ ticker' = "wait"
    /\ told' = {} /\ own' = {} /\ grace' = FALSE
    /\ sup' = "select" /\ code' = 0 /\ flag' = FALSE
    /\ UNCHANGED <<bad, rules, since, dedup, disk, fired, heard, forgot, scheduleVars>>

---------------------------------------------------------------------------

Elsewhere ==
    /\ Fault
    /\ \/ \E t \in Targets : Trouble(t)
       \/ \E rs \in {{}, Rules} : ReloadRules(rs)
    /\ UNCHANGED <<scheduleVars, supVars>>

Ordered ==
    /\ \/ \E op \in {"add", "remove", "pause", "resume"}, j \in Jobs : CommandLoads(op, j)
       \/ CommandSaves
       \/ CronCalls
    /\ UNCHANGED <<alertVars, supVars, flag, faults>>

Passing ==
    /\ "alerts" \in comps => Elapse
    /\ "alerts" \notin comps => UNCHANGED <<alertVars, flag, faults>>
    /\ "schedule" \in comps => SecondPasses
    /\ "schedule" \notin comps => UNCHANGED scheduleVars
    /\ UNCHANGED supVars

Supervise == PollSignal \/ PollExits \/ Woken \/ Judge \/ Abort \/ Exit \/ Grace

Next ==
    \/ Watching \/ TickerFires \/ Running \/ ChildReturns \/ TickerEnds \/ HitlEnds
    \/ Signal \/ Kill \/ Restart
    \/ Supervise \/ \E c \in Components : WatcherReports(c)
    \/ "alerts" \in comps /\ Elsewhere
    \/ "schedule" \in comps /\ Ordered
    \/ Passing

Spec == Init /\ [][Next]_vars

Fairness ==
    /\ WF_vars(Watching) /\ WF_vars(Running) /\ WF_vars(TickerFires) /\ WF_vars(TickerEnds)
    /\ WF_vars(HitlEnds /\ flag) /\ WF_vars(Supervise)
    /\ \A c \in Components : WF_vars(WatcherReports(c))
    /\ WF_vars(Passing)

FairSpec == Spec /\ Fairness

---------------------------------------------------------------------------
(* Properties                                                              *)

SupTypes ==
    /\ comps \in SUBSET Components /\ watched \subseteq comps /\ up \subseteq comps
    /\ told \subseteq comps /\ own \subseteq comps
    /\ sup \in {"select", "polled", "pending", "judge", "grace", "abort", "returned", "exited"}
    /\ code \in 0..1 /\ ticker \in {"wait", "busy", "ended"} /\ hitl \in {"run", "ended"}
    /\ grace \in BOOLEAN /\ flag \in BOOLEAN /\ faults \in Nat

\* Type correctness of the supervisor and of what its components keep; the
\* schedule loop waits for a run_due only while one runs.
TypeOK ==
    /\ AlertTypes /\ ScheduleTypes /\ SupTypes
    /\ ticker = "busy" => due["loop"].pc = "running"

\* The exit code tells a fault from a shutdown: 0 only after a request, 1
\* only when a component had ended before one, however the end of the last
\* component and the signal race.
ExitCodeIsTrue ==
    sup \in {"abort", "returned", "exited"} =>
        /\ code = 0 => flag
        /\ code = 1 => own # {} \/ comps = {}

\* The gauge of a component is down once its watcher is done, and never
\* before the component has ended.
GaugeIsTrue ==
    \A c \in comps : /\ Alive /\ c \notin up => Over(c)
                     /\ c \in up => c \in watched

\* A daemon that stopped within the grace period has its suppression window
\* on disk.
StopKeepsWindow ==
    sup = "exited" /\ code = 0 /\ ~grace /\ ~forgot => disk = dedup \/ "alerts" \notin comps

Window == IF DedupSecs < EvictSecs THEN DedupSecs ELSE EvictSecs

\* The same rule does not fire again for a target within its window (or the day
\* after which evict_older_than forgets one), across stops and restarts, as long
\* as the window is on disk.
AlertsAreSpaced ==
    [][\A k \in Keys : fired'[k] < fired[k] => forgot \/ fired[k] >= fired'[k] + Window]_vars

\* Runs of one job are an interval apart, whoever starts them, with three
\* exceptions that the code really has: a job that two overlapping run_due both
\* read as due runs in both (shared); a job whose saved date was overwritten by a
\* copy made before (torn); a job that ran in a run_due which was killed, or could
\* not save, before it recorded so (lost).  An overlap of two run_due that took
\* different jobs, or of a run_due and a command on another job, is no exception.
RunsAreSpaced ==
    [][\A r \in Runners : due[r].job = "none" /\ due'[r].job # "none" =>
          \/ idle[due'[r].job] >= Every
          \/ due'[r].job \in due[r].shared \cup torn \cup lost]_vars

\* What the operator was told a job is, is what the file says, unless a copy
\* made before the command was saved over it.  Overlapping, killed and failed
\* runs by themselves change nothing here.
CommandsHold ==
    \A j \in Jobs \ torn : StateOf(file[j]) = meant[j]

\* The supervisor before it has decided, and what it decides on: an exit it was
\* told of is of a component that is over, and without a request one that is
\* over has failed.
SupInv ==
    /\ sup \in {"select", "polled", "pending", "judge", "grace"} => code = 0
    /\ sup = "grace" => flag
    /\ sup = "judge" => flag \/ own # {}
    /\ \A c \in told : Over(c)
    /\ ~flag /\ sup \notin {"returned", "exited"} => \A c \in comps : Over(c) => c \in own
    /\ sup = "returned" => ticker = "ended"
    /\ "alerts" \in comps /\ sup \in {"returned", "exited"} => watch.pc = "ended"

\* The inductive invariant of the daemon.
DaemonInv ==
    /\ SupInv /\ ExitCodeIsTrue /\ GaugeIsTrue
    /\ "alerts" \in comps => WindowInv
    /\ ScheduleInv /\ CommandsHold

\* After a request, and after a fault, the daemon ends; or, asked to stop, it is
\* done with everything and waits for ever for the command of a job that does
\* not return, which no timeout bounds.
Stops ==
    \/ (flag \/ own # {}) ~> (sup = "exited")
    \/ <>[](sup = "returned" /\ code = 0 /\ due["loop"].job # "none")

\* Trouble that lasts and has a rule is heard of, failed snapshots, failed
\* sends and restarts in between included.
TroubleIsHeard ==
    \A k \in Keys :
        <>[](k[1] \in rules /\ k[2] \in bad /\ "alerts" \in comps /\ Alive /\ ~flag) => []<>(k \in heard)

\* What the supervisor and its components tell and store is so: exit code,
\* gauges, the suppression window and the schedule file.
DaemonTellsTruth ==
    TypeOK /\ ExitCodeIsTrue /\ GaugeIsTrue /\ StopKeepsWindow /\ CommandsHold

\* Nothing fires or runs again before its time, with the exceptions above.
NothingTooEarly == AlertsAreSpaced /\ RunsAreSpaced
===========================================================================
