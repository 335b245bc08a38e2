----------------------------- MODULE McpNotify -----------------------------
(***************************************************************************)
(* What the MCP server tells its clients without being asked               *)
(* (mcp/notifications.rs): three pollers (tasks, the incident lock, the    *)
(* drift state) publish to a broadcast channel of bounded size, and a      *)
(* subscriber that falls behind is told how many notes it missed.  One     *)
(* subscriber is followed: stdout, or one SSE stream.                      *)
(***************************************************************************)
EXTENDS Integers, FiniteSets, Sequences

CONSTANTS
  MaxTasks,    \* tasks of the cluster, numbered by their start time (bound)
  Capacity,    \* BROKER_CAPACITY
  SeenCap,     \* how many tasks the poller remembers (4096)
  SeenKeep,    \* how many of them are left when it prunes (2048)
  MaxNotes,    \* notes about one task (bound)
  MaxEvents    \* what happens to the server from outside (bound)

ASSUME NotifyAssumption ==
  /\ MaxTasks \in Nat /\ Capacity \in Nat \ {0} /\ MaxEvents \in Nat \ {0}
  /\ SeenCap \in Nat /\ SeenKeep \in Nat /\ MaxNotes \in Nat

Tasks == 1..MaxTasks
Locks == {"none", "global", "profile", "corrupt"}
NotReported == [sync |-> TRUE, ts |-> 0]

VARIABLES
  ev,      \* how much has happened from outside
  task,    \* the cluster's tasks
  lock,    \* the freeze that holds: of every profile, of this one, unreadable
  drift,   \* what `reconcile watch` last stored; ts 0: nothing yet
  seen,    \* the poller's map: tasks remembered as running, as ended; pruned
  was,     \* was_frozen of the incident watcher
  last,    \* `last` of the drift watcher
  news,    \* the notes published about each task, in order
  told,    \* the last note published about the lock and about drift
  pub,     \* how many notes were published
  sub      \* the subscriber

notevars == <<task, lock, drift, seen, was, last, news, told, pub, sub>>

Happen(n) == ev + n <= MaxEvents /\ ev' = ev + n

Happens == Happen(1)

NoSub == [open |-> FALSE, from |-> 0, next |-> 0, heard |-> 0, missed |-> 0]

NotifyTypeOK ==
  /\ ev \in 0..MaxEvents /\ lock \in Locks
  /\ task \in [Tasks -> {"none", "running", "ok", "failed"}]
  /\ seen \in [running : SUBSET Tasks, ended : SUBSET Tasks, pruned : SUBSET Tasks]
  /\ seen.running \cap seen.ended = {}
  /\ news \in [Tasks -> Seq({"started", "completed", "failed"})]
  /\ pub \in Nat
  /\ sub \in [open : BOOLEAN, from : Nat, next : Nat, heard : Nat, missed : Nat]
  /\ sub.from <= sub.next /\ sub.next <= pub

\* The pollers start while no freeze holds and one task runs, which they
\* know, unless the first list of tasks could not be read.
NotifyInit ==
  /\ drift = NotReported /\ last = NotReported /\ pub = 0
  /\ lock = "none" /\ was = FALSE
  /\ task = [t \in Tasks |-> IF t = 1 THEN "running" ELSE "none"]
  /\ \E known \in SUBSET {t \in Tasks : task[t] = "running"} :
       /\ ev = IF known = {} THEN 1 ELSE 0
       /\ seen = [running |-> known, ended |-> {}, pruned |-> {}]
  /\ news = [t \in Tasks |-> <<>>]
  /\ told = [frozen |-> was, drift |-> "none"]
  /\ sub = NoSub

(***************************************************************************)
(* The cluster, the operators and the daemon.                              *)
(***************************************************************************)
TaskMoves ==
  /\ \E t \in Tasks :
       \/ /\ task[t] = "none" /\ \A u \in Tasks : u < t => task[u] # "none"
          /\ task' = [task EXCEPT ![t] = "running"]
       \/ /\ task[t] = "running"
          /\ \E end \in {"ok", "failed"} : task' = [task EXCEPT ![t] = end]
  /\ Happens
  /\ UNCHANGED <<lock, drift, seen, was, last, news, told, pub, sub>>

LockMoves ==
  /\ \E l \in Locks \ {lock} : lock' = l
  /\ Happens
  /\ UNCHANGED <<task, drift, seen, was, last, news, told, pub, sub>>

DriftReported ==
  /\ \E s \in BOOLEAN : drift' = [sync |-> s, ts |-> drift.ts + 1]
  /\ Happens
  /\ UNCHANGED <<task, lock, seen, was, last, news, told, pub, sub>>

(***************************************************************************)
(* spawn_task_poller.  PVE lists every running task and the ended ones     *)
(* until they are too old.  When the map has grown too large only the      *)
(* tasks that started last stay in it, whether or not the others are still *)
(* listed.                                                                 *)
(***************************************************************************)
Ended(t) == task[t] \in {"ok", "failed"}

Outcome(t) == IF task[t] = "ok" THEN "completed" ELSE "failed"

\* Mutant: a task that ended is forgotten at once
NotesForgetful(listed) ==
  [t \in listed |->
     IF t \notin seen.running
     THEN IF Ended(t) THEN <<Outcome(t)>> ELSE <<"started">>
     ELSE IF Ended(t) THEN <<Outcome(t)>> ELSE <<>>]

Notes(listed) ==
  [t \in listed |->
     CASE t \notin seen.running \cup seen.ended ->
            <<IF Ended(t) THEN Outcome(t) ELSE "started">>
       [] t \in seen.running /\ Ended(t) -> <<Outcome(t)>>
       [] OTHER -> <<>>]

Kept(S) ==
  IF Cardinality(S) > SeenCap
  THEN {t \in S : Cardinality({u \in S : u > t}) < SeenKeep} ELSE S

PollTasks ==
  /\ \E gone \in SUBSET {t \in Tasks : Ended(t)} :
       LET listed == {t \in Tasks : task[t] # "none"} \ gone
           notes == Notes(listed)
           run == (seen.running \ listed) \cup {t \in listed : ~Ended(t)}
           end == (seen.ended \ listed) \cup {t \in listed : Ended(t)}
           kept == Kept(run \cup end)
       IN  /\ news' = [t \in Tasks |-> IF t \in listed THEN news[t] \o notes[t] ELSE news[t]]
           /\ pub' = pub + Cardinality({t \in listed : notes[t] # <<>>})
           /\ seen' = [running |-> run \cap kept, ended |-> end \cap kept,
                       pruned |-> seen.pruned \cup ((run \cup end) \ kept)]
           /\ seen' # seen \/ pub' # pub
           /\ \A t \in Tasks : Len(news'[t]) <= MaxNotes
  /\ UNCHANGED <<ev, task, lock, drift, was, last, told, sub>>

(***************************************************************************)
(* spawn_incident_watcher.  It reads the lock of every profile; one it     *)
(* cannot read leaves things as they were.                                 *)
(***************************************************************************)
\* Mutant: a change is noticed and not published
PollIncidentUntold ==
  /\ lock # "corrupt" /\ was # (lock = "global")
  /\ was' = (lock = "global")
  /\ UNCHANGED <<ev, told, pub, task, lock, drift, seen, last, news, sub>>

PollIncident ==
  /\ lock # "corrupt" /\ was # (lock = "global")
  /\ was' = (lock = "global")
  /\ told' = [told EXCEPT !.frozen = (lock = "global")]
  /\ pub' = pub + 1
  /\ UNCHANGED <<ev, task, lock, drift, seen, last, news, sub>>

(***************************************************************************)
(* spawn_reconcile_watcher.                                                *)
(***************************************************************************)
should_publish_reconcile ==
  IF last.ts = 0 THEN ~drift.sync
  ELSE drift.sync # last.sync \/ (~drift.sync /\ drift.ts # last.ts)

PollDrift ==
  /\ drift.ts # 0 /\ drift # last
  /\ last' = drift
  /\ IF should_publish_reconcile
     THEN /\ told' = [told EXCEPT !.drift = IF drift.sync THEN "in_sync" ELSE "drifted"]
          /\ pub' = pub + 1
     ELSE UNCHANGED <<told, pub>>
  /\ UNCHANGED <<ev, task, lock, drift, seen, was, news, sub>>

(***************************************************************************)
(* The channel.  A receiver that is more than the capacity behind is told  *)
(* how many notes it lost and goes on with the oldest that is kept.        *)
(***************************************************************************)
Subscribed == sub' = [NoSub EXCEPT !.open = TRUE, !.from = pub, !.next = pub]

\* Mutant: the lost notes are skipped in silence
ReceiveSilently ==
  /\ sub.open /\ sub.next < pub
  /\ LET first == IF pub - sub.next > Capacity THEN pub - Capacity ELSE sub.next
     IN  sub' = [sub EXCEPT !.next = first + 1, !.heard = @ + 1]

Receive ==
  /\ sub.open /\ sub.next < pub
  /\ LET lost == (pub - sub.next) - Capacity
     IN  sub' = IF lost > 0
                THEN [sub EXCEPT !.next = @ + lost, !.missed = @ + lost]
                ELSE [sub EXCEPT !.next = @ + 1, !.heard = @ + 1]

Unsubscribed == sub' = [sub EXCEPT !.open = FALSE]

(***************************************************************************)
(* A client can tell that it missed something: every note published since  *)
(* it subscribed was heard, is waiting, or was counted in a "lagged" note. *)
(***************************************************************************)
LossIsAnnounced == sub.heard + sub.missed = sub.next - sub.from

(***************************************************************************)
(* A task is never said to have started after it was said to have ended.   *)
(* The notes about one are its start and then its end, or either alone,    *)
(* each once, unless the poller's map was pruned of it: a long task, or an *)
(* ended one that is still listed, is then announced again.                *)
(***************************************************************************)
TaskNewsInOrder ==
  \A t \in Tasks :
    /\ \A i, j \in 1..Len(news[t]) :
         i < j /\ news[t][j] = "started" => news[t][i] = "started"
    /\ t \notin seen.pruned =>
         \/ Len(news[t]) <= 1
         \/ Len(news[t]) = 2 /\ news[t][1] = "started" /\ news[t][2] # "started"

(***************************************************************************)
(* What clients were last told about the lock and about drift is so.       *)
(***************************************************************************)
NewsIsCurrent ==
  /\ lock = "global" => told.frozen
  /\ lock = "none" => ~told.frozen
  /\ drift.ts # 0 => (drift.sync <=> told.drift # "drifted")
=============================================================================
