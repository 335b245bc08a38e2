---------------------------- MODULE AlertWatch ----------------------------
(***************************************************************************)
(* `alerts watch': the loop that takes a snapshot of the cluster, evaluates *)
(* the rules, suppresses what it sent a short while ago and keeps the       *)
(* suppression window on disk (cli/monitoring.rs, alerts/engine.rs,         *)
(* alerts/dedup.rs, app/cache.rs).                                          *)
(*                                                                         *)
(* A target is a node, which is bad while it is not online, or a storage or *)
(* a replication job, which is bad while it is too full or failing.         *)
(* Times are kept as ages, in seconds up to Cap; an age of Cap is as good   *)
(* as no entry.                                                             *)
(***************************************************************************)
EXTENDS Naturals, FiniteSets

CONSTANTS
    Rules,      \* names of rules
    Nodes,      \* targets of the node_offline rules
    Others,     \* targets of the storage_above and replication_failing rules
    NodeRules,  \* the node_offline rules
    ForSecs,    \* how long a node must be offline
    DedupSecs,  \* the suppression window
    EvictSecs,  \* the age at which a window is forgotten (86400 in the code)
    Interval,   \* between two snapshots
    MaxTick,    \* bound on the time a tick takes
    MaxFaults   \* bound on failures, kills and starts

Targets == Nodes \cup Others

ASSUME AlertAssumption ==
    /\ NodeRules \subseteq Rules /\ Nodes \cap Others = {}
    /\ {ForSecs, DedupSecs, EvictSecs, Interval, MaxTick, MaxFaults} \subseteq Nat
    /\ Interval > 0

Larger(a, b) == IF a > b THEN a ELSE b
Cap == Larger(ForSecs, Larger(DedupSecs, EvictSecs)) + MaxTick + 1
NotSeen == Cap + 1
Older(age) == IF age < Cap THEN age + 1 ELSE age

VARIABLES
    bad,        \* the targets in trouble
    rules,      \* the rules in the configuration as loaded
    since,      \* EngineState: the age of a node's outage, or NotSeen
    dedup,      \* DedupCache: how long ago a rule fired for a target
    disk,       \* the persisted copy of it
    watch,      \* the loop: [pc, snap, at, todo, wake]
    flag,       \* a shutdown has been requested
    faults,     \* failures so far
    fired,      \* how long ago an alert was handed to the channels
    heard,      \* the alerts that reached a channel
    forgot      \* a loop ended or started without its window

alertVars == <<bad, rules, since, dedup, disk, watch, fired, heard, forgot>>

Keys == (NodeRules \X Nodes) \cup ((Rules \ NodeRules) \X Others)
Fresh == [k \in Keys |-> Cap]
Fault == faults < MaxFaults /\ faults' = faults + 1
NoFault == UNCHANGED faults

Watches == [pc : {"start", "loop", "tick", "send", "sleep", "ended"}, snap : SUBSET Targets,
            at : 0..MaxTick, todo : SUBSET Keys, wake : 0..Interval]

Started == [pc |-> "start", snap |-> {}, at |-> 0, todo |-> {}, wake |-> 0]

AlertInit ==
    /\ bad = {} /\ rules \in {Rules, {}}
    /\ since = [n \in Nodes |-> NotSeen]
    /\ dedup = Fresh /\ disk = Fresh
    /\ watch = Started
    /\ fired = Fresh /\ heard = {} /\ forgot = FALSE

Sleep(w) == [w EXCEPT !.pc = "sleep", !.wake = Interval, !.at = 0, !.todo = {}, !.snap = {}]

\* A window on disk that can not be read is a start without one.
LoadWindow ==
    /\ watch.pc = "start"
    /\ rules # {}
    /\ \/ NoFault /\ dedup' = disk /\ UNCHANGED forgot
       \/ Fault /\ dedup' = Fresh /\ forgot' = TRUE
    /\ since' = [n \in Nodes |-> NotSeen]
    /\ watch' = [watch EXCEPT !.pc = "loop"]
    /\ UNCHANGED <<bad, rules, disk, flag, fired, heard>>

\* Without a rule at the start there is nothing to watch; a channel that can
\* not be set up ends the loop too.
NothingToWatch ==
    /\ watch.pc = "start"
    /\ (rules = {} /\ NoFault) \/ Fault
    /\ watch' = [watch EXCEPT !.pc = "ended"]
    /\ UNCHANGED <<bad, rules, since, dedup, disk, flag, fired, heard, forgot>>

\* The signal is looked at before the snapshot.
Snapshot ==
    /\ watch.pc = "loop" /\ ~flag
    /\ \/ NoFault /\ watch' = [watch EXCEPT !.pc = "tick", !.snap = bad]
       \/ Fault /\ watch' = Sleep(watch)
    /\ UNCHANGED <<bad, rules, since, dedup, disk, flag, fired, heard, forgot>>

\* Mutant: every sighting of an outage is the first.
SightedAgain(snap) == [n \in Nodes |-> IF n \in snap THEN 0 ELSE NotSeen]

\* The first sighting is kept while the node stays offline.
Sighted(snap) ==
    [n \in Nodes |-> CASE n \notin snap -> NotSeen
                       [] n \in snap /\ since[n] = NotSeen -> 0
                       [] OTHER -> since[n]]

\* evaluate: the events of the rules that are configured.
Events(snap, seen) ==
    {k \in Keys : /\ k[1] \in rules
                  /\ k[2] \in snap
                  /\ k[1] \in NodeRules => seen[k[2]] >= ForSecs}

\* A tick without rules does not evaluate anything, the outages included.
Evaluate ==
    /\ watch.pc = "tick"
    /\ \/ /\ rules = {}
          /\ watch' = Sleep(watch)
          /\ UNCHANGED since
       \/ /\ rules # {}
          /\ since' = Sighted(watch.snap)
          /\ watch' = [watch EXCEPT !.pc = "send", !.at = 0, !.todo = Events(watch.snap, Sighted(watch.snap))]
    /\ UNCHANGED <<bad, rules, dedup, disk, flag, faults, fired, heard, forgot>>

\* Mutant: the window closes a second early.
AllowAfter(k, at) == dedup[k] = Cap \/ dedup[k] + 1 >= at + DedupSecs

\* DedupCache::allow.
Allow(k, at) == dedup[k] = Cap \/ dedup[k] >= at + DedupSecs

\* The window opens before the channels are called, and stays open when all
\* of them fail.
Send ==
    /\ watch.pc = "send" /\ watch.todo # {}
    /\ LET k == CHOOSE e \in watch.todo : TRUE
       IN  /\ watch' = [watch EXCEPT !.todo = @ \ {k}]
           /\ \/ /\ ~Allow(k, watch.at)
                 /\ NoFault /\ UNCHANGED <<dedup, fired, heard>>
              \/ /\ Allow(k, watch.at)
                 /\ dedup' = [dedup EXCEPT ![k] = watch.at]
                 /\ fired' = [fired EXCEPT ![k] = watch.at]
                 /\ \/ NoFault /\ heard' = heard \cup {k}
                    \/ Fault /\ UNCHANGED heard
    /\ UNCHANGED <<bad, rules, since, disk, flag, forgot>>

Evicted == [k \in Keys |-> IF dedup[k] >= watch.at + EvictSecs THEN Cap ELSE dedup[k]]

\* The end of a tick; a window that can not be written is only logged.
Persist ==
    /\ watch.pc = "send" /\ watch.todo = {}
    /\ dedup' = Evicted
    /\ \/ NoFault /\ disk' = Evicted
       \/ Fault /\ UNCHANGED disk
    /\ watch' = Sleep(watch)
    /\ UNCHANGED <<bad, rules, since, flag, fired, heard, forgot>>

\* sleep_unless_shutdown.
Wake ==
    /\ watch.pc = "sleep" /\ ~flag /\ watch.wake = 0
    /\ watch' = [watch EXCEPT !.pc = "loop"]
    /\ UNCHANGED <<bad, rules, since, dedup, disk, flag, faults, fired, heard, forgot>>

\* Mutant: the writes of the ticks are trusted on the way out.
FlushSkipped ==
    /\ watch.pc \in {"loop", "sleep"} /\ flag
    /\ NoFault
    /\ watch' = [watch EXCEPT !.pc = "ended"]
    /\ UNCHANGED <<bad, rules, since, dedup, disk, flag, fired, heard, forgot>>

\* The last write of the window, on the way out.
Flush ==
    /\ watch.pc \in {"loop", "sleep"} /\ flag
    /\ \/ NoFault /\ disk' = dedup /\ UNCHANGED forgot
       \/ Fault /\ UNCHANGED disk /\ forgot' = (forgot \/ disk # dedup)
    /\ watch' = [watch EXCEPT !.pc = "ended"]
    /\ UNCHANGED <<bad, rules, since, dedup, flag, fired, heard>>

WatchStep == LoadWindow \/ NothingToWatch \/ Snapshot \/ Evaluate \/ Send \/ Persist \/ Wake \/ Flush

\* The loop is dropped where it waits.
DropWatch ==
    /\ watch' = [watch EXCEPT !.pc = "ended"]
    /\ forgot' = (forgot \/ disk # dedup)

---------------------------------------------------------------------------
(* The environment                                                         *)

Trouble(t) ==
    /\ bad' = IF t \in bad THEN bad \ {t} ELSE bad \cup {t}
    /\ heard' = {k \in heard : k[2] # t}
    /\ UNCHANGED <<rules, since, dedup, disk, watch, flag, fired, forgot>>

Elapse ==
    /\ watch.pc = "send" => watch.at < MaxTick
    /\ since' = [n \in Nodes |-> Older(since[n])]
    /\ dedup' = [k \in Keys |-> Older(dedup[k])]
    /\ disk' = [k \in Keys |-> Older(disk[k])]
    /\ fired' = [k \in Keys |-> Older(fired[k])]
    /\ watch' = [watch EXCEPT !.at = IF watch.pc = "send" THEN @ + 1 ELSE @,
                              !.wake = IF @ > 0 THEN @ - 1 ELSE @]
    /\ UNCHANGED <<bad, rules, flag, faults, heard, forgot>>

ReloadRules(rs) ==
    /\ rs # rules
    /\ rules' = rs
    /\ UNCHANGED <<bad, since, dedup, disk, watch, flag, fired, heard, forgot>>

---------------------------------------------------------------------------
(* What the loop keeps                                                     *)

AlertTypes ==
    /\ bad \subseteq Targets /\ rules \subseteq Rules /\ heard \subseteq Keys
    /\ since \in [Nodes -> 0..NotSeen]
    /\ dedup \in [Keys -> 0..Cap] /\ disk \in [Keys -> 0..Cap] /\ fired \in [Keys -> 0..Cap]
    /\ watch \in Watches /\ forgot \in BOOLEAN

\* The window says when a rule last fired, or that this was EvictSecs before the
\* tick that is under way; a loop that is not running has it on disk.
WindowInv ==
    ~forgot =>
        /\ watch.pc \in {"start", "ended"} => disk = dedup
        /\ \A k \in Keys : \/ dedup[k] = fired[k]
                           \/ dedup[k] = Cap /\ fired[k] >= watch.at + EvictSecs
===========================================================================
