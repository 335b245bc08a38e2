------------------------- MODULE DaemonServeProofs -------------------------
(***************************************************************************)
(* Proofs about `daemon serve', its alert watch and its scheduler.  The     *)
(* alert watch and the schedule store take part in a step by one of their   *)
(* own moves or not at all, so each has its lemmas, and the supervisor puts *)
(* them together.                                                          *)
(***************************************************************************)
EXTENDS DaemonServe, TLAPS

\* How the alert watch may take part in a step: by a step of its loop, of its
\* surroundings, by being dropped, or by being started again.
AlertMove ==
    \/ UNCHANGED alertVars
    \/ WatchStep
    \/ DropWatch /\ UNCHANGED <<bad, rules, since, dedup, disk, fired, heard>>
    \/ \E t \in Targets : Trouble(t)
    \/ \E rs \in {{}, Rules} : ReloadRules(rs)
    \/ Elapse

AlertRestart ==
    watch' = Started /\ UNCHANGED <<bad, rules, since, dedup, disk, fired, heard, forgot>>

\* How the schedule store may take part in a step.
ScheduleMove ==
    \/ UNCHANGED scheduleVars
    \/ \E r \in Runners : RunDue(r) /\ commands' \in {commands, commands + 1}
    \/ \E r \in Runners : RunStep(r) \/ ChildEnds(r)
    \/ \E r \in Runners : KillRun(r) /\ UNCHANGED <<file, cmd, commands, idle, meant, torn>>
    \/ \E op \in CommandOps, j \in Jobs : CommandLoads(op, j)
    \/ CommandSaves
    \/ SecondPasses

\* The ages the constants allow.
LEMMA Ages ==
    /\ Cap \in Nat /\ NotSeen = Cap + 1 /\ MaxTick \in Nat /\ Interval \in Nat
    /\ ForSecs \in Nat /\ DedupSecs \in Nat /\ EvictSecs \in Nat
    /\ Cap > DedupSecs + MaxTick /\ Cap > EvictSecs + MaxTick
<1>1. \A x \in {ForSecs, DedupSecs, EvictSecs, Interval, MaxTick, MaxFaults} : x \in Nat
  BY AlertAssumption
<1>2. /\ ForSecs \in Nat /\ DedupSecs \in Nat /\ EvictSecs \in Nat
      /\ Interval \in Nat /\ MaxTick \in Nat
  BY <1>1
<1> QED
  BY <1>2 DEF Cap, NotSeen, Larger

\* An age grows up to the cap.
LEMMA OlderFacts ==
    ASSUME NEW a \in 0..Cap
    PROVE  Older(a) \in 0..Cap /\ Older(a) >= a /\ (a < Cap => Older(a) = a + 1)
  BY Ages DEF Older

\* Every step is a move of the watch, of the store, or a restart.
LEMMA Moves ==
    ASSUME [Next]_vars
    PROVE  (AlertMove \/ Restart) /\ ScheduleMove
<1> USE DEF alertVars, scheduleVars, supVars, vars
<1>1. CASE Watching
  BY <1>1 DEF Watching, AlertMove, ScheduleMove
<1>2. CASE TickerFires
  BY <1>2 DEF TickerFires, AlertMove, ScheduleMove, Runners
<1>3. CASE Running
  BY <1>3 DEF Running, AlertMove, ScheduleMove, SaveFails
<1>15. CASE ChildReturns
  BY <1>15 DEF ChildReturns, AlertMove, ScheduleMove
<1>4. CASE TickerEnds \/ HitlEnds \/ Signal
  BY <1>4 DEF TickerEnds, HitlEnds, Signal, AlertMove, ScheduleMove
<1>5. CASE Kill
  BY <1>5 DEF Kill, AlertMove, ScheduleMove, Runners
<1>6. CASE Restart
  BY <1>6 DEF Restart, ScheduleMove
<1>7. CASE PollSignal \/ PollExits \/ Woken \/ Judge \/ Grace
  BY <1>7 DEF PollSignal, PollExits, Woken, Judge, Grace, AlertMove, ScheduleMove
<1>8. CASE Abort
  BY <1>8 DEF Abort, AlertMove, ScheduleMove
<1>9. CASE Exit
  BY <1>9 DEF Exit, AlertMove, ScheduleMove, Runners
<1>10. CASE \E c \in Components : WatcherReports(c)
  BY <1>10 DEF WatcherReports, AlertMove, ScheduleMove
<1>11. CASE "alerts" \in comps /\ Elsewhere
  BY <1>11 DEF Elsewhere, AlertMove, ScheduleMove
<1>12. CASE "schedule" \in comps /\ Ordered
  <2>1. AlertMove
    BY <1>12 DEF Ordered, AlertMove
  <2>2. CASE CronCalls
    <3>1. "cron" \in Runners /\ RunDue("cron") /\ commands' = commands + 1
      BY <2>2 DEF CronCalls, Runners
    <3> QED
      BY <2>1, <3>1 DEF ScheduleMove
  <2>3. CASE \E op \in {"add", "remove", "pause", "resume"}, j \in Jobs : CommandLoads(op, j)
    BY <2>1, <2>3 DEF ScheduleMove, CommandOps
  <2>4. CASE CommandSaves
    BY <2>1, <2>4 DEF ScheduleMove
  <2> QED
    BY <1>12, <2>1, <2>2, <2>3, <2>4 DEF Ordered
<1>13. CASE Passing
  BY <1>13 DEF Passing, AlertMove, ScheduleMove
<1>14. CASE UNCHANGED vars
  BY <1>14 DEF AlertMove, ScheduleMove
<1> QED
  BY <1>1, <1>2, <1>3, <1>4, <1>5, <1>6, <1>7, <1>8, <1>9, <1>10, <1>11, <1>12, <1>13,
     <1>14, <1>15 DEF Next, Supervise

----------------------------------------------------------------------------
(* The alert watch                                                         *)

\* The watch is well typed when it starts.
LEMMA AlertTypesInit == AlertInit => AlertTypes
<1> SUFFICES ASSUME AlertInit PROVE AlertTypes
  OBVIOUS
<1>1. Fresh \in [Keys -> 0..Cap]
  BY Ages DEF Fresh
<1>2. Started \in Watches
  BY Ages DEF Started, Watches
<1>3. since \in [Nodes -> 0..NotSeen]
  BY Ages DEF AlertInit
<1> QED
  BY <1>1, <1>2, <1>3 DEF AlertInit, AlertTypes

\* The records the loop passes through.
LEMMA WatchFacts ==
    ASSUME NEW w \in Watches
    PROVE  /\ \A p \in {"start", "loop", "tick", "send", "sleep", "ended"} :
                [w EXCEPT !.pc = p] \in Watches
           /\ Sleep(w) \in Watches /\ Sleep(w).pc = "sleep" /\ Sleep(w).at = 0
<1>1. 0 \in 0..MaxTick /\ Interval \in 0..Interval
  BY Ages
<1>2. \A p \in {"start", "loop", "tick", "send", "sleep", "ended"} :
        [w EXCEPT !.pc = p] \in Watches
  BY DEF Watches
<1>3. Sleep(w) \in Watches
  BY <1>1 DEF Watches, Sleep
<1>4. Sleep(w).pc = "sleep" /\ Sleep(w).at = 0
  BY DEF Watches, Sleep
<1> QED
  BY <1>2, <1>3, <1>4

\* Every move of the watch keeps its types.
LEMMA AlertTypesStep ==
    ASSUME AlertTypes, AlertMove PROVE AlertTypes'
<1> USE DEF AlertTypes
<1>a. watch \in Watches
  OBVIOUS
<1>1. CASE UNCHANGED alertVars
  BY <1>1 DEF alertVars
<1>2. CASE LoadWindow
  <2>1. Fresh \in [Keys -> 0..Cap] /\ [n \in Nodes |-> NotSeen] \in [Nodes -> 0..NotSeen]
    BY Ages DEF Fresh
  <2> QED
    BY <1>2, <2>1, WatchFacts DEF LoadWindow
<1>3. CASE NothingToWatch
  BY <1>3, WatchFacts DEF NothingToWatch
<1>4. CASE Snapshot
  <2>1. [watch EXCEPT !.pc = "tick", !.snap = bad] \in Watches
    BY DEF Watches
  <2> QED
    BY <1>4, <2>1, WatchFacts DEF Snapshot
<1>5. CASE Evaluate
  <2>1. Sighted(watch.snap) \in [Nodes -> 0..NotSeen]
    BY Ages DEF Sighted
  <2>2. [watch EXCEPT !.pc = "send", !.at = 0, !.todo = Events(watch.snap, Sighted(watch.snap))]
          \in Watches
    <3>1. 0 \in 0..MaxTick /\ Events(watch.snap, Sighted(watch.snap)) \in SUBSET Keys
      BY Ages DEF Events
    <3> QED
      BY <3>1 DEF Watches
  <2> QED
    BY <1>5, <2>1, <2>2, WatchFacts DEF Evaluate
<1>6. CASE Send
  <2>1. PICK k \in watch.todo :
          /\ watch' = [watch EXCEPT !.todo = @ \ {k}]
          /\ \/ UNCHANGED <<dedup, fired, heard>>
             \/ /\ dedup' = [dedup EXCEPT ![k] = watch.at]
                /\ fired' = [fired EXCEPT ![k] = watch.at]
                /\ heard' \in {heard, heard \cup {k}}
    BY <1>6 DEF Send
  <2>2. watch' \in Watches /\ watch.at \in 0..Cap /\ k \in Keys
    BY <2>1, Ages DEF Watches
  <2> QED
    BY <1>6, <2>1, <2>2 DEF Send
<1>7. CASE Persist
  <2>1. Evicted \in [Keys -> 0..Cap]
    BY Ages DEF Evicted
  <2> QED
    BY <1>7, <2>1, WatchFacts DEF Persist
<1>8. CASE Wake
  BY <1>8, WatchFacts DEF Wake
<1>9. CASE Flush
  BY <1>9, WatchFacts DEF Flush
<1>10. CASE DropWatch /\ UNCHANGED <<bad, rules, since, dedup, disk, fired, heard>>
  BY <1>10, WatchFacts DEF DropWatch
<1>11. CASE \E t \in Targets : Trouble(t)
  BY <1>11 DEF Trouble
<1>12. CASE \E rs \in {{}, Rules} : ReloadRules(rs)
  BY <1>12 DEF ReloadRules
<1>13. CASE Elapse
  <2>1. /\ dedup' \in [Keys -> 0..Cap] /\ disk' \in [Keys -> 0..Cap]
        /\ fired' \in [Keys -> 0..Cap]
    BY <1>13, OlderFacts DEF Elapse
  <2>2. since' \in [Nodes -> 0..NotSeen]
    <3>1. \A a \in 0..NotSeen : Older(a) \in 0..NotSeen
      BY Ages DEF Older
    <3> QED
      BY <1>13, <3>1 DEF Elapse
  <2>3. watch' \in Watches
    <3>1. watch.at \in 0..MaxTick /\ watch.wake \in 0..Interval
      BY DEF Watches
    <3>2. (IF watch.pc = "send" THEN watch.at + 1 ELSE watch.at) \in 0..MaxTick
      BY <1>13, <3>1, Ages DEF Elapse
    <3>3. (IF watch.wake > 0 THEN watch.wake - 1 ELSE watch.wake) \in 0..Interval
      BY <3>1, Ages
    <3> QED
      BY <1>13, <3>2, <3>3 DEF Elapse, Watches
  <2> QED
    BY <1>13, <2>1, <2>2, <2>3 DEF Elapse
<1> QED
  BY <1>1, <1>2, <1>3, <1>4, <1>5, <1>6, <1>7, <1>8, <1>9, <1>10, <1>11, <1>12, <1>13
  DEF AlertMove, WatchStep

\* The window and its copy on disk stay what the alerts that were sent say.
LEMMA WindowStep ==
    ASSUME AlertTypes, AlertTypes', WindowInv, AlertMove PROVE WindowInv'
<1> USE DEF AlertTypes
<1>0. SUFFICES ASSUME ~forgot' PROVE WindowInv'
  BY DEF WindowInv
<1>a. /\ watch \in Watches /\ watch.at \in 0..MaxTick /\ MaxTick \in Nat /\ EvictSecs \in Nat
      /\ Cap \in Nat /\ \A k \in Keys : fired[k] \in 0..Cap /\ dedup[k] \in 0..Cap
  BY Ages DEF Watches
<1> DEFINE Told(k) == dedup[k] = fired[k] \/ (dedup[k] = Cap /\ fired[k] >= watch.at + EvictSecs)
<1>b. ASSUME ~forgot, UNCHANGED <<dedup, fired>>, watch'.at \in {watch.at, 0}
      PROVE  \A k \in Keys : Told(k)'
  BY <1>a, <1>b DEF WindowInv
<1>c. \A p \in {"start", "loop", "tick", "send", "sleep", "ended"} :
        /\ [watch EXCEPT !.pc = p].pc = p
        /\ [watch EXCEPT !.pc = p].at = watch.at
  BY <1>a DEF Watches
<1>1. CASE UNCHANGED alertVars
  BY <1>1 DEF alertVars, WindowInv
<1>2. CASE LoadWindow
  <2>1. ~forgot /\ dedup' = dedup /\ fired' = fired /\ watch'.pc = "loop" /\ watch'.at = watch.at
    BY <1>0, <1>2, <1>c DEF LoadWindow, WindowInv
  <2> QED
    BY <1>b, <2>1 DEF WindowInv
<1>3. CASE NothingToWatch
  <2>1. /\ UNCHANGED <<dedup, fired, disk, forgot>> /\ watch'.pc = "ended"
        /\ watch'.at = watch.at /\ watch.pc = "start"
    BY <1>3, <1>c DEF NothingToWatch
  <2> QED
    BY <1>0, <1>b, <2>1 DEF WindowInv
<1>4. CASE Snapshot
  <2>1. /\ UNCHANGED <<dedup, fired, disk, forgot>> /\ watch'.pc \in {"tick", "sleep"}
        /\ watch'.at \in {watch.at, 0}
    <3>1. Sleep(watch).pc = "sleep" /\ Sleep(watch).at = 0
      BY <1>a, WatchFacts
    <3>2. /\ [watch EXCEPT !.pc = "tick", !.snap = bad].pc = "tick"
          /\ [watch EXCEPT !.pc = "tick", !.snap = bad].at = watch.at
      BY <1>a DEF Watches
    <3> QED
      BY <1>4, <3>1, <3>2 DEF Snapshot
  <2> QED
    BY <1>0, <1>b, <2>1 DEF WindowInv
<1>5. CASE Evaluate
  <2>1. /\ UNCHANGED <<dedup, fired, disk, forgot>> /\ watch'.pc \in {"send", "sleep"}
        /\ watch'.at = 0
    <3>1. Sleep(watch).pc = "sleep" /\ Sleep(watch).at = 0
      BY <1>a, WatchFacts
    <3>2. \A es : /\ [watch EXCEPT !.pc = "send", !.at = 0, !.todo = es].pc = "send"
                  /\ [watch EXCEPT !.pc = "send", !.at = 0, !.todo = es].at = 0
      BY <1>a DEF Watches
    <3> QED
      BY <1>5, <3>1, <3>2 DEF Evaluate
  <2> QED
    BY <1>0, <1>b, <2>1 DEF WindowInv
<1>6. CASE Send
  <2>1. PICK k \in watch.todo :
          /\ watch' = [watch EXCEPT !.todo = @ \ {k}]
          /\ \/ UNCHANGED <<dedup, fired>>
             \/ /\ dedup' = [dedup EXCEPT ![k] = watch.at]
                /\ fired' = [fired EXCEPT ![k] = watch.at]
    BY <1>6 DEF Send
  <2>2. watch'.pc = "send" /\ watch'.at = watch.at /\ forgot' = forgot
    BY <1>6, <1>a, <2>1 DEF Send, Watches
  <2>3. \A j \in Keys : \/ dedup'[j] = dedup[j] /\ fired'[j] = fired[j]
                        \/ dedup'[j] = fired'[j]
    BY <2>1
  <2> QED
    BY <1>0, <2>2, <2>3 DEF WindowInv
<1>7. CASE Persist
  <2>1. watch'.pc = "sleep" /\ watch'.at = 0 /\ forgot' = forgot /\ fired' = fired
    BY <1>7, <1>a, WatchFacts DEF Persist
  <2>2. \A k \in Keys : dedup'[k] = IF dedup[k] >= watch.at + EvictSecs THEN Cap ELSE dedup[k]
    BY <1>7 DEF Persist, Evicted
  <2>3. \A k \in Keys : Told(k)'
    BY <1>0, <1>a, <2>1, <2>2 DEF WindowInv
  <2> QED
    BY <2>1, <2>3 DEF WindowInv
<1>8. CASE Wake
  <2>1. /\ UNCHANGED <<dedup, fired, disk, forgot>> /\ watch'.pc = "loop"
        /\ watch'.at = watch.at
    BY <1>8, <1>c DEF Wake
  <2> QED
    BY <1>0, <1>b, <2>1 DEF WindowInv
<1>9. CASE Flush
  <2>1. /\ UNCHANGED <<dedup, fired>> /\ watch'.pc = "ended" /\ watch'.at = watch.at
        /\ ~forgot /\ disk' = dedup'
    BY <1>0, <1>9, <1>c DEF Flush
  <2> QED
    BY <1>b, <2>1 DEF WindowInv
<1>10. CASE DropWatch /\ UNCHANGED <<bad, rules, since, dedup, disk, fired, heard>>
  <2>1. watch'.pc = "ended" /\ watch'.at = watch.at /\ ~forgot /\ disk' = dedup'
    BY <1>0, <1>10, <1>c DEF DropWatch
  <2> QED
    BY <1>10, <1>b, <2>1 DEF WindowInv
<1>11. CASE \E t \in Targets : Trouble(t)
  BY <1>11 DEF Trouble, WindowInv
<1>12. CASE \E rs \in {{}, Rules} : ReloadRules(rs)
  BY <1>12 DEF ReloadRules, WindowInv
<1>13. CASE Elapse
  <2>1. /\ watch'.pc = watch.pc /\ watch'.at \in {watch.at, watch.at + 1}
        /\ watch'.at \in 0..MaxTick /\ forgot' = forgot
    BY <1>13, <1>a, Ages DEF Elapse, Watches
  <2>2. \A k \in Keys : fired'[k] = Older(fired[k]) /\ dedup'[k] = Older(dedup[k])
    BY <1>13 DEF Elapse
  <2>3. disk = dedup => disk' = dedup'
    BY <1>13 DEF Elapse
  <2>4. ASSUME NEW k \in Keys PROVE Told(k)'
    <3>1. dedup[k] = fired[k] => dedup'[k] = fired'[k]
      BY <2>2
    <3>2. dedup[k] = Cap => dedup'[k] = Cap
      BY <2>2, <1>a DEF Older
    <3>3. fired[k] >= watch.at + EvictSecs => fired'[k] >= watch'.at + EvictSecs
      <4>1. fired'[k] = fired[k] + 1 \/ fired'[k] = Cap
        BY <1>a, <2>2 DEF Older
      <4> QED
        BY <1>a, <2>1, <4>1, Ages
    <3> QED
      BY <1>0, <2>1, <3>1, <3>2, <3>3 DEF WindowInv
  <2> QED
    BY <1>0, <2>1, <2>3, <2>4 DEF WindowInv
<1> QED
  BY <1>1, <1>2, <1>3, <1>4, <1>5, <1>6, <1>7, <1>8, <1>9, <1>10, <1>11, <1>12, <1>13
  DEF AlertMove, WatchStep

----------------------------------------------------------------------------
(* The schedule store                                                      *)

\* An entry is absent, or due within its interval.
LEMMA EntryFacts ==
    ASSUME NEW e \in Entries
    PROVE  /\ e.on \in BOOLEAN /\ (e.on => e # NoEntry)
           /\ e # NoEntry => e.due \in 0..Every /\ e = [on |-> e.on, due |-> e.due]
           /\ \A d \in 0..Every : /\ [e EXCEPT !.due = d] \in Entries
                                  /\ [e EXCEPT !.due = d].on = e.on
                                  /\ [e EXCEPT !.due = d].due = d
                                  /\ [e EXCEPT !.due = d] # NoEntry
           /\ e # NoEntry => \A b \in BOOLEAN : /\ [e EXCEPT !.on = b] \in Entries
                                                /\ [e EXCEPT !.on = b].on = b
                                                /\ [e EXCEPT !.on = b].due = e.due
                                                /\ [e EXCEPT !.on = b] # NoEntry
<1>1. Every \in Nat /\ Every > 0
  BY ScheduleAssumption
<1>2. NoEntry.on = FALSE /\ NoEntry.due = Every + 1
  BY DEF NoEntry
<1>3. \A d \in 0..Every : d # Every + 1
  BY <1>1
<1>4. CASE e = NoEntry
  <2>1. e \in [on : BOOLEAN, due : Nat]
    BY <1>1, <1>4 DEF NoEntry
  <2>2. \A d \in 0..Every : /\ [e EXCEPT !.due = d] \in [on : BOOLEAN, due : 0..Every]
                            /\ [e EXCEPT !.due = d].on = e.on
                            /\ [e EXCEPT !.due = d].due = d
    BY <2>1
  <2> QED
    BY <1>2, <1>3, <1>4, <2>2 DEF Entries
<1>5. CASE e # NoEntry
  <2>1. e \in [on : BOOLEAN, due : 0..Every]
    BY <1>5 DEF Entries
  <2>2. \A d \in 0..Every : /\ [e EXCEPT !.due = d] \in [on : BOOLEAN, due : 0..Every]
                            /\ [e EXCEPT !.due = d].on = e.on
                            /\ [e EXCEPT !.due = d].due = d
    BY <2>1
  <2>3. \A b \in BOOLEAN : /\ [e EXCEPT !.on = b] \in [on : BOOLEAN, due : 0..Every]
                           /\ [e EXCEPT !.on = b].on = b
                           /\ [e EXCEPT !.on = b].due = e.due
    BY <2>1
  <2>4. \A x \in [on : BOOLEAN, due : 0..Every] : x # NoEntry /\ x \in Entries
    BY <1>2, <1>3 DEF Entries
  <2>5. e.on \in BOOLEAN /\ e.due \in 0..Every /\ e = [on |-> e.on, due |-> e.due]
    BY <2>1
  <2> QED
    BY <1>5, <2>2, <2>3, <2>4, <2>5
<1> QED
  BY <1>4, <1>5

\* A second brings every entry nearer, and changes nothing else.
LEMMA SoonerFacts ==
    ASSUME NEW f \in Files
    PROVE  /\ Sooner(f) \in Files
           /\ \A j \in Jobs :
                /\ Sooner(f)[j] = NoEntry <=> f[j] = NoEntry
                /\ Sooner(f)[j].on = f[j].on
                /\ f[j] # NoEntry => /\ f[j].due \in 0..Every
                                     /\ f[j].due > 0 => Sooner(f)[j].due = f[j].due - 1
                                     /\ f[j].due = 0 => Sooner(f)[j].due = 0
<1>0. Every \in Nat
  BY ScheduleAssumption
<1>1. ASSUME NEW j \in Jobs
      PROVE  /\ Sooner(f)[j] \in Entries
             /\ Sooner(f)[j] = NoEntry <=> f[j] = NoEntry
             /\ Sooner(f)[j].on = f[j].on
             /\ f[j] # NoEntry => /\ f[j].due \in 0..Every
                                  /\ f[j].due > 0 => Sooner(f)[j].due = f[j].due - 1
                                  /\ f[j].due = 0 => Sooner(f)[j].due = 0
  <2>1. f[j] \in Entries
    BY DEF Files
  <2>2. Sooner(f)[j] = IF f[j] # NoEntry /\ f[j].due > 0
                       THEN [f[j] EXCEPT !.due = f[j].due - 1] ELSE f[j]
    BY DEF Sooner
  <2>3. CASE f[j] # NoEntry /\ f[j].due > 0
    <3>1. f[j].due \in 0..Every /\ f[j].due - 1 \in 0..Every
      BY <1>0, <2>1, <2>3, EntryFacts
    <3>2. f[j].due # 0
      BY <2>3, <3>1
    <3> QED
      BY <2>1, <2>2, <2>3, <3>1, <3>2, EntryFacts
  <2>4. CASE ~(f[j] # NoEntry /\ f[j].due > 0)
    BY <2>1, <2>2, <2>4, EntryFacts
  <2> QED
    BY <2>3, <2>4
<1>2. Sooner(f) \in Files
  BY <1>1 DEF Files, Sooner
<1> QED
  BY <1>1, <1>2

\* An entry that is absent everywhere, and a run that is not there.
LEMMA IdleFacts ==
    /\ Empty \in Files /\ NotRunning \in Runs /\ \A j \in Jobs : Empty[j] = NoEntry
    /\ Sooner(Empty) = Empty
    /\ NotRunning.pc = "idle" /\ NotRunning.todo = {} /\ NotRunning.took = {}
    /\ NotRunning.job = "none" /\ NotRunning.stale = {} /\ NotRunning.shared = {}
    /\ NotRunning.copy = Empty
  BY DEF Empty, Files, Entries, NotRunning, Runs, Sooner

\* The copy a command saves.
LEMMA EditedFacts ==
    ASSUME NEW e \in Entries, NEW op \in CommandOps
    PROVE  /\ Edited(e, op) \in Entries
           /\ Edited(e, op) # NoEntry =>
                Edited(e, op).due = Every \/ (e # NoEntry /\ Edited(e, op).due = e.due)
<1>1. Every \in 0..Every
  BY ScheduleAssumption
<1>2. [on |-> TRUE, due |-> Every] \in Entries /\ NoEntry \in Entries
  BY <1>1 DEF Entries
<1>3. CASE op = "add"
  BY <1>2, <1>3 DEF Edited
<1>4. CASE op = "remove"
  BY <1>2, <1>4 DEF Edited
<1>5. CASE op \in {"pause", "resume"} /\ e = NoEntry
  BY <1>2, <1>5 DEF Edited
<1>6. CASE op = "pause" /\ e # NoEntry
  BY <1>6, EntryFacts DEF Edited
<1>7. CASE op = "resume" /\ e # NoEntry
  BY <1>7, EntryFacts DEF Edited
<1> QED
  BY <1>3, <1>4, <1>5, <1>6, <1>7 DEF CommandOps

\* The store is well typed before the first command.
LEMMA ScheduleTypesInit == ScheduleInit => ScheduleTypes
<1> SUFFICES ASSUME ScheduleInit PROVE ScheduleTypes
  OBVIOUS
<1>1. Every \in 0..Every
  BY ScheduleAssumption
<1> QED
  BY <1>1, IdleFacts DEF ScheduleInit, ScheduleTypes

\* b is the run a, up to its history.
SameRun(a, b) ==
    /\ b.pc = a.pc /\ b.copy = a.copy /\ b.took = a.took /\ b.todo = a.todo /\ b.job = a.job

\* What somebody else's save makes of a run.
LEMMA OutdatedFacts ==
    ASSUME NEW a \in Runs, NEW js \in SUBSET Jobs
    PROVE  /\ Outdated(a, js) \in Runs /\ SameRun(a, Outdated(a, js))
           /\ Outdated(a, js).shared = a.shared
           /\ Outdated(a, js).stale = IF a.pc = "running" THEN a.stale \cup js ELSE a.stale
           /\ a.pc = "idle" => Outdated(a, js) = a
<1>1. CASE a.pc = "running"
  <2>1. Outdated(a, js) = [a EXCEPT !.stale = a.stale \cup js]
    BY <1>1 DEF Outdated
  <2>2. a.stale \cup js \in SUBSET Jobs
    BY DEF Runs
  <2> QED
    BY <1>1, <2>1, <2>2 DEF Runs, SameRun
<1>2. CASE a.pc # "running"
  BY <1>2 DEF Outdated, Runs, SameRun
<1> QED
  BY <1>1, <1>2

\* A run_due that starts, and the one it meets.
LEMMA RunDueFacts ==
    ASSUME ScheduleTypes, NEW r \in Runners, RunDue(r)
    PROVE  /\ due' \in [Runners -> Runs]
           /\ due'[r] = [pc |-> "running", copy |-> file, took |-> Ready(file),
                         todo |-> Ready(file), job |-> "none", stale |-> {}, shared |-> Contended]
           /\ \A q \in Runners \ {r} :
                /\ SameRun(due[q], due'[q]) /\ due'[q].stale = due[q].stale
                /\ due'[q].shared = due[q].shared \cup (Ready(file) \cap due[q].took)
<1> DEFINE new == [pc |-> "running", copy |-> file, took |-> Ready(file), todo |-> Ready(file),
                   job |-> "none", stale |-> {}, shared |-> Contended]
           met(q) == [due[q] EXCEPT !.shared = @ \cup (Ready(file) \cap due[q].took)]
<1>0. due \in [Runners -> Runs] /\ file \in Files
  BY DEF ScheduleTypes
<1>1. Ready(file) \in SUBSET Jobs /\ Contended \in SUBSET Jobs
  BY DEF Ready, Contended
<1>2. new \in Runs
  BY <1>0, <1>1 DEF Runs
<1>3. ASSUME NEW q \in Runners
      PROVE  /\ met(q) \in Runs /\ SameRun(due[q], met(q)) /\ met(q).stale = due[q].stale
             /\ met(q).shared = due[q].shared \cup (Ready(file) \cap due[q].took)
  <2>1. due[q] \in Runs /\ due[q].shared \cup (Ready(file) \cap due[q].took) \in SUBSET Jobs
    BY <1>0, <1>1 DEF Runs
  <2> QED
    BY <2>1 DEF Runs, SameRun
<1>4. due' = [q \in Runners |-> IF q = r THEN new ELSE met(q)]
  BY DEF RunDue
<1> HIDE DEF new, met
<1>5. due' \in [Runners -> Runs] /\ due'[r] = new /\ \A q \in Runners \ {r} : due'[q] = met(q)
  BY <1>2, <1>3, <1>4
<1> QED
  BY <1>3, <1>5 DEF new

\* A run that starts a child.
LEMMA SpawnFacts ==
    ASSUME ScheduleTypes, NEW r \in Runners, Spawn(r)
    PROVE  /\ due' \in [Runners -> Runs] /\ due'[r].job \in due[r].todo
           /\ due'[r] = [due[r] EXCEPT !.job = due'[r].job]
           /\ due'[r].pc = due[r].pc /\ due'[r].copy = due[r].copy
           /\ due'[r].took = due[r].took /\ due'[r].todo = due[r].todo
           /\ due'[r].stale = due[r].stale /\ due'[r].shared = due[r].shared
           /\ \A q \in Runners \ {r} : due'[q] = due[q]
<1>0. due \in [Runners -> Runs] /\ due[r] \in Runs
  BY DEF ScheduleTypes
<1>1. PICK j \in due[r].todo : due' = [due EXCEPT ![r].job = j]
  BY DEF Spawn
<1>2. due'[r] = [due[r] EXCEPT !.job = j] /\ \A q \in Runners \ {r} : due'[q] = due[q]
  BY <1>0, <1>1
<1>3. [due[r] EXCEPT !.job = j] \in Runs
  BY <1>0 DEF Runs
<1>4. due' \in [Runners -> Runs]
  BY <1>0, <1>1, <1>3
<1> QED
  BY <1>0, <1>2, <1>4 DEF Runs

\* A run whose child ends.
LEMMA ChildFacts ==
    ASSUME ScheduleTypes, NEW r \in Runners, ChildEnds(r)
    PROVE  /\ due' \in [Runners -> Runs] /\ due'[r].job = "none"
           /\ due[r].job \in Jobs /\ due'[r].pc = due[r].pc
           /\ due'[r].copy = [due[r].copy EXCEPT ![due[r].job] = Rescheduled(@)]
           /\ due'[r].took = due[r].took /\ due'[r].todo = due[r].todo \ {due[r].job}
           /\ due'[r].stale = due[r].stale /\ due'[r].shared = due[r].shared
           /\ \A q \in Runners \ {r} : due'[q] = due[q]
<1> DEFINE c == [due[r].copy EXCEPT ![due[r].job] = Rescheduled(@)]
           t == due[r].todo \ {due[r].job}
<1>0. due \in [Runners -> Runs] /\ due[r] \in Runs
  BY DEF ScheduleTypes
<1>1. due[r].job \in Jobs /\ due[r].copy \in Files /\ due[r].copy[due[r].job] \in Entries
  BY <1>0 DEF ChildEnds, Runs, Files
<1>2. Every \in 0..Every
  BY ScheduleAssumption
<1>3. c \in Files
  BY <1>1, <1>2, EntryFacts DEF Files, Rescheduled
<1>4. t \in SUBSET Jobs
  BY <1>0 DEF Runs
<1>5. /\ due'[r] = [due[r] EXCEPT !.copy = c, !.todo = t, !.job = "none"]
      /\ \A q \in Runners \ {r} : due'[q] = due[q]
      /\ \E x : due' = [due EXCEPT ![r] = x]
  BY <1>0 DEF ChildEnds, Runs
<1> HIDE DEF c, t
<1>6. /\ due'[r] \in Runs /\ due'[r].pc = due[r].pc /\ due'[r].copy = c /\ due'[r].todo = t
      /\ due'[r].took = due[r].took /\ due'[r].job = "none"
      /\ due'[r].stale = due[r].stale /\ due'[r].shared = due[r].shared
  BY <1>0, <1>3, <1>4, <1>5 DEF Runs
<1>7. due' \in [Runners -> Runs]
  BY <1>0, <1>5, <1>6
<1> QED
  BY <1>1, <1>5, <1>6, <1>7 DEF c, t

\* A run that ends, and the other one, which may learn that it is out of date.
LEMMA EndFacts ==
    ASSUME ScheduleTypes, NEW r \in Runners, SaveStore(r) \/ KillRun(r)
    PROVE  /\ due' \in [Runners -> Runs] /\ due'[r] = NotRunning
           /\ KillRun(r) => \A q \in Runners \ {r} : due'[q] = due[q]
           /\ SaveStore(r) => \A q \in Runners \ {r} :
                /\ SameRun(due[q], due'[q]) /\ due'[q].shared = due[q].shared
                /\ due[q].pc = "running" => due'[q].stale = due[q].stale \cup due[r].took
                /\ due[q].pc = "idle" => due'[q] = due[q]
<1>0. /\ due \in [Runners -> Runs] /\ due[r].took \in SUBSET Jobs
  BY DEF ScheduleTypes, Runs
<1>1. CASE KillRun(r) /\ ~SaveStore(r)
  BY <1>0, <1>1, IdleFacts DEF KillRun
<1>2. CASE SaveStore(r)
  <2>1. due' = [q \in Runners |-> IF q = r THEN NotRunning ELSE Outdated(due[q], due[r].took)]
    BY <1>2 DEF SaveStore
  <2>2. ASSUME NEW q \in Runners
        PROVE  /\ Outdated(due[q], due[r].took) \in Runs
               /\ SameRun(due[q], Outdated(due[q], due[r].took))
               /\ Outdated(due[q], due[r].took).shared = due[q].shared
               /\ due[q].pc = "running" =>
                    Outdated(due[q], due[r].took).stale = due[q].stale \cup due[r].took
               /\ due[q].pc = "idle" => Outdated(due[q], due[r].took) = due[q]
    BY <1>0, OutdatedFacts
  <2>3. KillRun(r) => \A q \in Runners \ {r} : due'[q] = due[q]
    BY <1>0 DEF KillRun
  <2> QED
    BY <1>2, <2>1, <2>2, <2>3, IdleFacts
<1> QED
  BY <1>1, <1>2

\* What a command writes and whom it makes out of date.
LEMMA CommandFacts ==
    ASSUME ScheduleTypes, CommandSaves
    PROVE  \E changed \in SUBSET Jobs :
             /\ due' \in [Runners -> Runs] /\ file' \in Files
             /\ cmd.copy \in Files /\ cmd.job \in Jobs /\ cmd.op \in CommandOps
             /\ cmd.stale \in SUBSET Jobs
             /\ file' = [cmd.copy EXCEPT ![cmd.job] = Edited(@, cmd.op)]
             /\ meant' = [meant EXCEPT ![cmd.job] = StateOf(file'[cmd.job])]
             /\ \A j \in Jobs \ changed : file'[j] = cmd.copy[j]
             /\ \A q \in Runners :
                  /\ SameRun(due[q], due'[q]) /\ due'[q].shared = due[q].shared
                  /\ due[q].pc = "running" => due'[q].stale = due[q].stale \cup changed
                  /\ due[q].pc = "idle" => due'[q] = due[q]
<1> DEFINE new == [cmd.copy EXCEPT ![cmd.job] = Edited(@, cmd.op)]
           changed == IF new[cmd.job] = cmd.copy[cmd.job] THEN {} ELSE {cmd.job}
<1>1. cmd \in Commands /\ due \in [Runners -> Runs]
  BY DEF CommandSaves, NoCommand, ScheduleTypes
<1>2. cmd.copy \in Files /\ cmd.job \in Jobs /\ cmd.op \in CommandOps /\ cmd.stale \in SUBSET Jobs
  BY <1>1 DEF Commands
<1>3. new \in Files
  BY <1>2, EditedFacts DEF Files
<1>4. \A j \in Jobs \ changed : new[j] = cmd.copy[j]
  BY <1>2 DEF Files
<1>5. /\ file' = new /\ due' = [r \in Runners |-> Outdated(due[r], changed)]
      /\ meant' = [meant EXCEPT ![cmd.job] = StateOf(new[cmd.job])]
  BY DEF CommandSaves
<1>6. changed \in SUBSET Jobs
  BY <1>2
<1> HIDE DEF changed
<1>7. ASSUME NEW q \in Runners
      PROVE  /\ Outdated(due[q], changed) \in Runs /\ SameRun(due[q], Outdated(due[q], changed))
             /\ Outdated(due[q], changed).shared = due[q].shared
             /\ due[q].pc = "running" => Outdated(due[q], changed).stale = due[q].stale \cup changed
             /\ due[q].pc = "idle" => Outdated(due[q], changed) = due[q]
  BY <1>1, <1>6, OutdatedFacts
<1>8. due' \in [Runners -> Runs]
  BY <1>5, <1>7
<1>9. \A q \in Runners :
        /\ SameRun(due[q], due'[q]) /\ due'[q].shared = due[q].shared
        /\ due[q].pc = "running" => due'[q].stale = due[q].stale \cup changed
        /\ due[q].pc = "idle" => due'[q] = due[q]
  BY <1>5, <1>7
<1>10. file' = [cmd.copy EXCEPT ![cmd.job] = Edited(@, cmd.op)] /\ file' \in Files
       /\ meant' = [meant EXCEPT ![cmd.job] = StateOf(file'[cmd.job])]
       /\ \A j \in Jobs \ changed : file'[j] = cmd.copy[j]
  BY <1>3, <1>4, <1>5
<1> HIDE DEF new
<1> QED
  BY <1>2, <1>6, <1>8, <1>9, <1>10

\* A second keeps the record of a run, but for the dates in its copy.
LEMMA SecondFacts ==
    ASSUME ScheduleTypes, SecondPasses, NEW r \in Runners
    PROVE  /\ due'[r].pc = due[r].pc /\ due'[r].job = due[r].job
           /\ due'[r].todo = due[r].todo /\ due'[r].took = due[r].took
           /\ due'[r].stale = due[r].stale /\ due'[r].shared = due[r].shared
           /\ due'[r].copy = Sooner(due[r].copy) /\ due'[r] \in Runs
           /\ due[r] = NotRunning => due'[r] = NotRunning
<1>1. due[r] \in Runs /\ due'[r] = [due[r] EXCEPT !.copy = Sooner(due[r].copy)]
  BY DEF ScheduleTypes, SecondPasses
<1>2. Sooner(due[r].copy) \in Files
  BY <1>1, SoonerFacts DEF Runs
<1>3. ASSUME due[r] = NotRunning PROVE due'[r] = NotRunning
  <2>1. due'[r] = [NotRunning EXCEPT !.copy = NotRunning.copy]
    BY <1>1, <1>3, IdleFacts
  <2>2. \A x \in Runs : [x EXCEPT !.copy = x.copy] = x
    BY DEF Runs
  <2> QED
    BY <2>1, <2>2, IdleFacts
<1> QED
  BY <1>1, <1>2, <1>3 DEF Runs

\* Every move of the store keeps its types.
LEMMA ScheduleTypesStep ==
    ASSUME ScheduleTypes, ScheduleMove PROVE ScheduleTypes'
<1>0. Every \in Nat /\ 0 \in 0..Every /\ Every \in 0..Every
  BY ScheduleAssumption
<1>1. CASE UNCHANGED scheduleVars
  BY <1>1 DEF scheduleVars, ScheduleTypes
<1>2. ASSUME NEW r \in Runners, RunDue(r), commands' \in {commands, commands + 1}
      PROVE  ScheduleTypes'
  <2>1. due' \in [Runners -> Runs]
    BY <1>2, RunDueFacts
  <2>2. UNCHANGED <<file, cmd, idle, meant, torn, lost>>
    BY <1>2 DEF RunDue
  <2> QED
    BY <1>2, <2>1, <2>2 DEF ScheduleTypes
<1>3. ASSUME NEW r \in Runners, Spawn(r) PROVE ScheduleTypes'
  BY <1>3, SpawnFacts DEF Spawn, ScheduleTypes
<1>4. ASSUME NEW r \in Runners, ChildEnds(r) PROVE ScheduleTypes'
  BY <1>0, <1>4, ChildFacts DEF ChildEnds, ScheduleTypes
<1>5. ASSUME NEW r \in Runners, SaveStore(r) PROVE ScheduleTypes'
  <2>1. due' \in [Runners -> Runs] /\ due[r] \in Runs
    BY <1>5, EndFacts DEF ScheduleTypes
  <2>2. due[r].copy \in Files /\ due[r].stale \subseteq Jobs /\ due[r].took \subseteq Jobs
    BY <2>1 DEF Runs
  <2>3. cmd' \in Commands \cup {NoCommand}
    <3>1. CASE cmd.pc = "loaded"
      <4>1. cmd \in Commands
        BY <3>1 DEF ScheduleTypes, NoCommand
      <4>2. cmd.stale \cup due[r].took \in SUBSET Jobs
        BY <2>2, <4>1 DEF Commands
      <4>3. cmd' = [cmd EXCEPT !.stale = cmd.stale \cup due[r].took]
        BY <1>5, <3>1 DEF SaveStore
      <4> QED
        BY <4>1, <4>2, <4>3 DEF Commands
    <3>2. CASE cmd.pc # "loaded"
      BY <1>5, <3>2 DEF SaveStore, ScheduleTypes
    <3> QED
      BY <3>1, <3>2
  <2> QED
    BY <1>5, <2>1, <2>2, <2>3 DEF SaveStore, ScheduleTypes
<1>6. ASSUME NEW r \in Runners, KillRun(r), UNCHANGED <<file, cmd, commands, idle, meant, torn>>
      PROVE  ScheduleTypes'
  <2>1. due' \in [Runners -> Runs] /\ due[r].took \subseteq Jobs
    BY <1>6, EndFacts DEF ScheduleTypes, Runs
  <2> QED
    BY <1>6, <2>1 DEF KillRun, ScheduleTypes
<1>7. ASSUME NEW op \in CommandOps, NEW j \in Jobs, CommandLoads(op, j) PROVE ScheduleTypes'
  BY <1>7 DEF CommandLoads, Commands, ScheduleTypes
<1>8. CASE CommandSaves
  <2>1. /\ due' \in [Runners -> Runs] /\ file' \in Files /\ cmd.job \in Jobs
        /\ cmd.stale \in SUBSET Jobs
        /\ meant' = [meant EXCEPT ![cmd.job] = StateOf(file'[cmd.job])]
    BY <1>8, CommandFacts
  <2>2. StateOf(file'[cmd.job]) \in {"on", "off", "gone"}
    BY DEF StateOf
  <2> QED
    BY <1>8, <2>1, <2>2 DEF CommandSaves, ScheduleTypes
<1>9. CASE SecondPasses
  <2>1. file' \in Files
    BY <1>9, SoonerFacts DEF SecondPasses, ScheduleTypes
  <2>2. due' \in [Runners -> Runs]
    <3>1. \A r \in Runners : due'[r] \in Runs
      BY <1>9, SecondFacts
    <3> QED
      BY <1>9, <3>1 DEF SecondPasses
  <2>3. cmd' \in Commands \cup {NoCommand}
    <3>1. CASE cmd = NoCommand
      BY <1>9, <3>1, IdleFacts DEF SecondPasses, NoCommand
    <3>2. CASE cmd \in Commands
      <4>1. Sooner(cmd.copy) \in Files
        BY <3>2, SoonerFacts DEF Commands
      <4> QED
        BY <1>9, <3>2, <4>1 DEF SecondPasses, Commands
    <3> QED
      BY <3>1, <3>2 DEF ScheduleTypes
  <2>4. idle' \in [Jobs -> 0..Every]
    <3>1. \A x \in 0..Every : (IF x < Every THEN x + 1 ELSE x) \in 0..Every
      BY <1>0
    <3> QED
      BY <1>9, <3>1 DEF SecondPasses, ScheduleTypes
  <2> QED
    BY <1>9, <2>1, <2>2, <2>3, <2>4 DEF SecondPasses, ScheduleTypes
<1> QED
  BY <1>1, <1>2, <1>3, <1>4, <1>5, <1>6, <1>7, <1>8, <1>9 DEF ScheduleMove, RunStep

\* Nothing is due and nobody runs before the first command.
LEMMA ScheduleInvInit == ScheduleInit => ScheduleInv /\ CommandsHold
<1> SUFFICES ASSUME ScheduleInit PROVE ScheduleInv /\ CommandsHold
  OBVIOUS
<1>1. /\ \A r \in Runners : due[r] = NotRunning
      /\ \A j \in Jobs : file[j] = NoEntry /\ meant[j] = "gone"
      /\ cmd.pc = "idle"
  BY IdleFacts DEF ScheduleInit, NoCommand
<1>2. \A r \in Runners : RunInv(r)
  BY <1>1, IdleFacts DEF RunInv
<1>3. PaceInv
  BY <1>1, IdleFacts DEF PaceInv, TwoKnow, DueAlone, CopyPaced, FilePaced, Paced, Unsaved
<1> QED
  BY <1>1, <1>2, <1>3 DEF ScheduleInv, CommandInv, CommandsHold, StateOf

\* A saved copy says of a job what the file says, but for its date; of a job the
\* run did not run it says the same.
LEMMA SavedFacts ==
    ASSUME ScheduleTypes, NEW r \in Runners, RunInv(r), SaveStore(r),
           NEW j \in Jobs, j \notin torn, j \notin due[r].stale
    PROVE  /\ file' = due[r].copy /\ StateOf(file'[j]) = StateOf(file[j])
           /\ file'[j].on = file[j].on
           /\ j \notin due[r].took => file'[j] = file[j]
<1>1. /\ due[r].pc = "running" /\ file' = due[r].copy /\ due[r].todo = {}
      /\ due[r].copy \in Files /\ file \in Files
  BY DEF SaveStore, ScheduleTypes, Runs
<1>2. CASE j \in due[r].took
  <2>1. file[j].on /\ file'[j].on /\ file[j] \in Entries /\ file'[j] \in Entries
    BY <1>1, <1>2 DEF RunInv, Files
  <2>2. file[j] # NoEntry /\ file'[j] # NoEntry /\ file[j].on = TRUE /\ file'[j].on = TRUE
    BY <2>1, EntryFacts
  <2> QED
    BY <1>1, <1>2, <2>2 DEF StateOf
<1>3. CASE j \notin due[r].took
  BY <1>1, <1>3 DEF RunInv, Unsaved
<1> QED
  BY <1>1, <1>2, <1>3

\* A copy nobody has saved over stays what the file says, but for what ran.
LEMMA RunInvStep ==
    ASSUME ScheduleTypes, ScheduleTypes', ScheduleMove, CommandInv,
           \A r \in Runners : RunInv(r), NEW q \in Runners
    PROVE  RunInv(q)'
<1>0. /\ due[q] \in Runs /\ due[q].copy \in Files /\ file \in Files
      /\ due[q].pc \in {"idle", "running"} /\ RunInv(q)
  BY DEF ScheduleTypes, Runs
<1>a. ASSUME due'[q] = due[q], file' = file, torn' = torn PROVE RunInv(q)'
  BY <1>0, <1>a DEF RunInv, Unsaved
<1>b. ASSUME due'[q] = NotRunning PROVE RunInv(q)'
  BY <1>b, IdleFacts DEF RunInv
<1>1. CASE UNCHANGED <<due, file, torn>>
  BY <1>1, <1>a
<1>2. ASSUME NEW r \in Runners, RunDue(r) PROVE RunInv(q)'
  <2>1. CASE q = r
    <3>1. /\ due'[q] = [pc |-> "running", copy |-> file, took |-> Ready(file),
                        todo |-> Ready(file), job |-> "none", stale |-> {}, shared |-> Contended]
          /\ file' = file
      BY <1>2, <2>1, RunDueFacts DEF RunDue
    <3>2. /\ due'[q].pc = "running" /\ due'[q].copy = file /\ due'[q].took = Ready(file)
          /\ due'[q].todo = Ready(file) /\ due'[q].job = "none"
      BY <3>1
    <3> QED
      BY <3>1, <3>2 DEF RunInv, Ready
  <2>2. CASE q # r
    <3>1. /\ SameRun(due[q], due'[q]) /\ due'[q].stale = due[q].stale
          /\ due'[q].shared = due[q].shared \cup (Ready(file) \cap due[q].took)
          /\ file' = file /\ torn' = torn /\ due'[q] \in Runs
      BY <1>2, <2>2, RunDueFacts DEF RunDue
    <3>2. CASE due[q].pc = "idle"
      <4>1. due[q] = NotRunning
        BY <1>0, <3>2 DEF RunInv
      <4>2. due'[q].shared = {} /\ due'[q].stale = {} /\ SameRun(NotRunning, due'[q])
        BY <3>1, <4>1, IdleFacts
      <4>3. \A x \in Runs : x.shared = {} /\ x.stale = {} /\ SameRun(NotRunning, x) => x = NotRunning
        BY DEF SameRun, Runs, NotRunning
      <4> QED
        BY <1>b, <3>1, <4>2, <4>3
    <3>3. CASE due[q].pc = "running"
      BY <1>0, <3>1, <3>3 DEF RunInv, SameRun, Unsaved
    <3> QED
      BY <1>0, <3>2, <3>3
  <2> QED
    BY <2>1, <2>2
<1>3. ASSUME NEW r \in Runners, Spawn(r) PROVE RunInv(q)'
  <2>1. CASE q = r
    BY <1>0, <1>3, <2>1, SpawnFacts DEF RunInv, Spawn, Unsaved
  <2>2. CASE q # r
    BY <1>3, <1>a, <2>2, SpawnFacts DEF Spawn
  <2> QED
    BY <2>1, <2>2
<1>4. ASSUME NEW r \in Runners, ChildEnds(r) PROVE RunInv(q)'
  <2>1. CASE q = r
    <3> DEFINE k == due[q].job
    <3>1. /\ due'[q].pc = "running" /\ due[q].pc = "running" /\ due'[q].job = "none"
          /\ due'[q].copy = [due[q].copy EXCEPT ![k] = Rescheduled(@)]
          /\ due'[q].todo = due[q].todo \ {k} /\ due'[q].took = due[q].took
          /\ due'[q].stale = due[q].stale /\ file' = file /\ torn' = torn
      BY <1>4, <2>1, ChildFacts DEF ChildEnds
    <3>2. k \in due[q].todo /\ k \in Jobs /\ k \in due[q].took /\ due[q].copy[k] \in Entries
      BY <1>0, <1>4, <2>1 DEF ChildEnds, RunInv, Runs, Files
    <3>3. due[q].copy[k].on => Rescheduled(due[q].copy[k]).on
      <4>1. Every \in 0..Every
        BY ScheduleAssumption
      <4> QED
        BY <3>2, <4>1, EntryFacts DEF Rescheduled
    <3>4. \A j \in Jobs : due'[q].copy[j] = IF j = k THEN Rescheduled(due[q].copy[k])
                                            ELSE due[q].copy[j]
      BY <1>0, <3>1 DEF Files
    <3> HIDE DEF k
    <3>5. due'[q].todo \subseteq due'[q].took /\ due'[q].job \in due'[q].todo \cup {"none"}
      BY <1>0, <3>1 DEF RunInv
    <3>6. ASSUME NEW j \in Jobs \ (torn \cup due[q].stale)
          PROVE  /\ j \in due[q].took => file[j].on /\ due'[q].copy[j].on
                 /\ j \notin due'[q].took \ due'[q].todo => due'[q].copy[j] = file[j]
      <4>1. /\ j \in due[q].took => file[j].on /\ due[q].copy[j].on
            /\ j \notin due[q].took \ due[q].todo => due[q].copy[j] = file[j]
        BY <1>0, <3>1 DEF RunInv, Unsaved
      <4> QED
        BY <3>1, <3>2, <3>3, <3>4, <4>1
    <3> QED
      BY <3>1, <3>5, <3>6 DEF RunInv, Unsaved
  <2>2. CASE q # r
    BY <1>4, <1>a, <2>2, ChildFacts DEF ChildEnds
  <2> QED
    BY <2>1, <2>2
<1>c. ASSUME SameRun(due[q], due'[q]), due[q].pc = "running", due[q].stale \subseteq due'[q].stale,
             torn \subseteq torn',
             \A j \in Jobs \ (torn' \cup due'[q].stale) : file'[j] = file[j]
      PROVE  RunInv(q)'
  <2>1. /\ due'[q].todo \subseteq due'[q].took /\ due'[q].job \in due'[q].todo \cup {"none"}
        /\ due'[q].pc = "running"
    BY <1>0, <1>c DEF RunInv, SameRun
  <2>2. ASSUME NEW j \in Jobs \ (torn' \cup due'[q].stale)
        PROVE  /\ j \in due'[q].took => file'[j].on /\ due'[q].copy[j].on
               /\ j \notin due'[q].took \ due'[q].todo => due'[q].copy[j] = file'[j]
    BY <1>0, <1>c DEF RunInv, SameRun, Unsaved
  <2> QED
    BY <2>1, <2>2 DEF RunInv, Unsaved
<1>5. ASSUME NEW r \in Runners, SaveStore(r) PROVE RunInv(q)'
  <2>1. CASE q = r
    BY <1>5, <1>b, <2>1, EndFacts
  <2>2. CASE q # r /\ due[q].pc = "idle"
    BY <1>0, <1>5, <1>b, <2>2, EndFacts DEF RunInv
  <2>3. CASE q # r /\ due[q].pc = "running"
    <3>1. SameRun(due[q], due'[q]) /\ due'[q].stale = due[q].stale \cup due[r].took
      BY <1>5, <2>3, EndFacts
    <3>2. torn' = torn \cup due[r].stale
      BY <1>5 DEF SaveStore
    <3>3. \A j \in Jobs \ (torn' \cup due'[q].stale) : file'[j] = file[j]
      BY <1>5, <3>1, <3>2, SavedFacts
    <3> QED
      BY <1>c, <2>3, <3>1, <3>2, <3>3
  <2> QED
    BY <1>0, <2>1, <2>2, <2>3
<1>6. ASSUME NEW r \in Runners, KillRun(r), file' = file, torn' = torn PROVE RunInv(q)'
  BY <1>6, <1>a, <1>b, EndFacts
<1>7. CASE CommandSaves
  <2>1. PICK changed \in SUBSET Jobs :
          /\ \A j \in Jobs \ changed : file'[j] = cmd.copy[j]
          /\ SameRun(due[q], due'[q])
          /\ due[q].pc = "running" => due'[q].stale = due[q].stale \cup changed
          /\ due[q].pc = "idle" => due'[q] = due[q]
    BY <1>7, CommandFacts
  <2>2. CASE due[q].pc = "idle"
    BY <1>0, <1>b, <2>1, <2>2 DEF RunInv
  <2>3. CASE due[q].pc = "running"
    <3>1. torn' = torn \cup cmd.stale /\ cmd.pc = "loaded"
      BY <1>7 DEF CommandSaves
    <3>2. \A j \in Jobs \ (torn' \cup due'[q].stale) : file'[j] = file[j]
      BY <2>1, <2>3, <3>1 DEF CommandInv
    <3> QED
      BY <1>c, <2>1, <2>3, <3>1, <3>2
  <2> QED
    BY <1>0, <2>2, <2>3
<1>8. CASE SecondPasses
  <2>1. /\ due'[q].pc = due[q].pc /\ due'[q].job = due[q].job /\ due'[q].todo = due[q].todo
        /\ due'[q].took = due[q].took /\ due'[q].stale = due[q].stale
        /\ due'[q].copy = Sooner(due[q].copy) /\ torn' = torn /\ file' = Sooner(file)
        /\ due[q] = NotRunning => due'[q] = NotRunning
    BY <1>8, SecondFacts DEF SecondPasses
  <2>2. CASE due[q].pc = "idle"
    BY <1>0, <1>b, <2>1, <2>2 DEF RunInv
  <2>3. CASE due[q].pc = "running"
    <3>1. \A j \in Jobs : due[q].copy[j] = file[j] => due'[q].copy[j] = file'[j]
      BY <1>0, <2>1 DEF Sooner
    <3>2. \A j \in Jobs : due'[q].copy[j].on = due[q].copy[j].on /\ file'[j].on = file[j].on
      BY <1>0, <2>1, SoonerFacts
    <3> QED
      BY <1>0, <2>1, <2>3, <3>1, <3>2 DEF RunInv, Unsaved
  <2> QED
    BY <1>0, <2>2, <2>3
<1> QED
  BY <1>1, <1>2, <1>3, <1>4, <1>5, <1>6, <1>7, <1>8
  DEF ScheduleMove, RunStep, scheduleVars, CommandLoads

\* A command's copy nobody has saved over stays what the file says.
LEMMA CommandInvStep ==
    ASSUME ScheduleTypes, ScheduleMove, ScheduleInv PROVE CommandInv'
<1>1. CASE UNCHANGED <<cmd, file, torn>>
  BY <1>1 DEF ScheduleInv, CommandInv
<1>2. ASSUME NEW r \in Runners, SaveStore(r) PROVE CommandInv'
  <2>1. CASE cmd.pc = "loaded"
    <3>1. cmd \in Commands
      BY <2>1 DEF ScheduleTypes, NoCommand
    <3>2. cmd' = [cmd EXCEPT !.stale = cmd.stale \cup due[r].took] /\ torn' = torn \cup due[r].stale
      BY <1>2, <2>1 DEF SaveStore
    <3>3. cmd'.copy = cmd.copy /\ cmd'.stale = cmd.stale \cup due[r].took
      BY <3>1, <3>2 DEF Commands
    <3>4. ASSUME NEW j \in Jobs \ (torn' \cup cmd'.stale) PROVE cmd'.copy[j] = file'[j]
      <4>1. RunInv(r) /\ j \notin torn /\ j \notin due[r].stale /\ j \notin due[r].took
            /\ j \notin cmd.stale
        BY <3>2, <3>3 DEF ScheduleInv
      <4>2. file'[j] = file[j]
        BY <1>2, <4>1, SavedFacts
      <4> QED
        BY <2>1, <3>3, <4>1, <4>2 DEF ScheduleInv, CommandInv
    <3> QED
      BY <3>4 DEF CommandInv
  <2>2. CASE cmd.pc # "loaded"
    BY <1>2, <2>2 DEF SaveStore, CommandInv
  <2> QED
    BY <2>1, <2>2
<1>3. ASSUME NEW op \in CommandOps, NEW j \in Jobs, CommandLoads(op, j) PROVE CommandInv'
  BY <1>3 DEF CommandLoads, CommandInv
<1>4. CASE CommandSaves
  BY <1>4 DEF CommandSaves, CommandInv, NoCommand
<1>5. CASE SecondPasses
  <2>1. CASE cmd.pc = "loaded"
    <3>1. cmd \in Commands
      BY <2>1 DEF ScheduleTypes, NoCommand
    <3>2. cmd' = [cmd EXCEPT !.copy = Sooner(cmd.copy)] /\ torn' = torn /\ file' = Sooner(file)
      BY <1>5 DEF SecondPasses
    <3>3. cmd'.copy = Sooner(cmd.copy) /\ cmd'.stale = cmd.stale
      BY <3>1, <3>2 DEF Commands
    <3>4. \A j \in Jobs : cmd.copy[j] = file[j] => cmd'.copy[j] = file'[j]
      BY <3>2, <3>3 DEF Sooner
    <3> QED
      BY <2>1, <3>2, <3>3, <3>4 DEF ScheduleInv, CommandInv
  <2>2. CASE cmd.pc # "loaded"
    <3>1. cmd'.pc = cmd.pc
      BY <1>5, <2>2 DEF SecondPasses, ScheduleTypes, NoCommand, Commands
    <3> QED
      BY <2>2, <3>1 DEF CommandInv
  <2> QED
    BY <2>1, <2>2
<1> QED
  BY <1>1, <1>2, <1>3, <1>4, <1>5
  DEF ScheduleMove, RunStep, scheduleVars, RunDue, Spawn, ChildEnds

\* A date that is an interval away stays so when a second passes.
LEMMA SecondPaced ==
    ASSUME ScheduleTypes, SecondPasses, NEW f \in Files, NEW j \in Jobs,
           f[j] # NoEntry => idle[j] + f[j].due >= Every
    PROVE  Sooner(f)[j] # NoEntry => idle'[j] + Sooner(f)[j].due >= Every
<1>1. SUFFICES ASSUME Sooner(f)[j] # NoEntry PROVE idle'[j] + Sooner(f)[j].due >= Every
  OBVIOUS
<1>2. /\ f[j] # NoEntry /\ f[j].due \in 0..Every
      /\ f[j].due > 0 => Sooner(f)[j].due = f[j].due - 1
      /\ f[j].due = 0 => Sooner(f)[j].due = 0
  BY <1>1, SoonerFacts
<1>3. /\ Every \in Nat /\ idle[j] \in 0..Every
      /\ idle'[j] = IF idle[j] < Every THEN idle[j] + 1 ELSE idle[j]
  BY ScheduleAssumption DEF SecondPasses, ScheduleTypes
<1> QED
  BY <1>2, <1>3

\* Where a job stands, kept by every move, for the jobs whose saves were neither
\* overwritten nor missed.
LEMMA PaceStep ==
    ASSUME ScheduleTypes, ScheduleTypes', ScheduleInv, ScheduleMove PROVE PaceInv'
<1> SUFFICES ASSUME NEW j \in Jobs, j \notin torn', j \notin lost'
             PROVE  TwoKnow(j)' /\ DueAlone(j)' /\ CopyPaced(j)' /\ FilePaced(j)'
  BY DEF PaceInv
<1>a. ASSUME j \notin torn, j \notin lost
      PROVE  TwoKnow(j) /\ DueAlone(j) /\ CopyPaced(j) /\ FilePaced(j)
  BY <1>a DEF ScheduleInv, PaceInv
<1>b. \A r \in Runners : RunInv(r) /\ due[r] \in Runs /\ due[r].pc \in {"idle", "running"}
                         /\ due[r].copy \in Files
  BY DEF ScheduleInv, ScheduleTypes, Runs
<1>c. /\ Every \in Nat /\ Every > 0 /\ Every \in 0..Every
      /\ idle[j] \in 0..Every /\ file[j] \in Entries /\ file \in Files
  BY ScheduleAssumption DEF ScheduleTypes, Files
<1>1. CASE UNCHANGED <<file, due, idle, torn, lost>>
  BY <1>1, <1>a DEF TwoKnow, DueAlone, CopyPaced, FilePaced, Unsaved, Paced
<1>2. ASSUME NEW r \in Runners, RunDue(r)
      PROVE  TwoKnow(j)' /\ DueAlone(j)' /\ CopyPaced(j)' /\ FilePaced(j)'
  <2>1. /\ due[r] = NotRunning /\ file' = file /\ idle' = idle /\ j \notin torn /\ j \notin lost
    BY <1>2, <1>b DEF RunDue, RunInv
  <2>2. /\ due'[r] = [pc |-> "running", copy |-> file, took |-> Ready(file),
                      todo |-> Ready(file), job |-> "none", stale |-> {}, shared |-> Contended]
        /\ \A q \in Runners \ {r} :
             /\ SameRun(due[q], due'[q]) /\ due'[q].stale = due[q].stale
             /\ due'[q].shared = due[q].shared \cup (Ready(file) \cap due[q].took)
    BY <1>2, RunDueFacts
  <2>3. /\ due'[r].took = Ready(file) /\ due'[r].todo = Ready(file) /\ due'[r].shared = Contended
        /\ due'[r].took \ due'[r].todo = {} /\ due[r].took = {} /\ due[r].todo = {}
    BY <2>1, <2>2, IdleFacts
  <2>4. \A q \in Runners \ {r} : /\ due'[q].took = due[q].took /\ due'[q].todo = due[q].todo
                                 /\ due'[q].copy = due[q].copy
    BY <2>2 DEF SameRun
  <2>5. \A q \in Runners : due'[q].took \ due'[q].todo = due[q].took \ due[q].todo
    BY <2>3, <2>4
  <2>6. TwoKnow(j)'
    <3> SUFFICES ASSUME NEW p \in Runners, NEW q \in Runners, p # q,
                        j \in due'[p].took, j \in due'[q].took
                 PROVE  j \in due'[p].shared
      BY DEF TwoKnow
    <3>1. CASE p = r
      BY <2>3, <2>4, <3>1 DEF Contended
    <3>2. CASE q = r
      BY <2>2, <2>3, <2>4, <3>2
    <3>3. CASE p # r /\ q # r
      BY <1>a, <2>1, <2>2, <2>4, <3>3 DEF TwoKnow
    <3> QED
      BY <3>1, <3>2, <3>3
  <2>7. DueAlone(j)'
    <3> SUFFICES ASSUME NEW q \in Runners, j \in due'[q].todo, j \notin due'[q].shared
                 PROVE  idle[j] >= Every
      BY <2>1 DEF DueAlone
    <3>1. CASE q # r
      BY <1>a, <2>1, <2>2, <2>4, <3>1 DEF DueAlone
    <3>2. CASE q = r
      <4>1. j \in Ready(file) /\ \A p \in Runners : j \notin due[p].took
        BY <2>3, <3>2 DEF Contended
      <4>2. Paced(file, j)
        BY <1>a, <2>1, <4>1 DEF FilePaced, Unsaved
      <4> QED
        BY <1>c, <4>1, <4>2, EntryFacts DEF Ready, Paced
    <3> QED
      BY <3>1, <3>2
  <2>8. CopyPaced(j)'
    <3> SUFFICES ASSUME NEW q \in Runners, j \in due'[q].took \ due'[q].todo,
                        j \notin due'[q].stale
                 PROVE  \/ due'[q].copy[j] # NoEntry => idle[j] + due'[q].copy[j].due >= Every
                        \/ \E p \in Runners \ {q} : j \in due'[p].took \ due'[p].todo
      BY <2>1 DEF CopyPaced, Unsaved, Paced
    <3>1. q # r
      BY <2>3
    <3>2. \/ due[q].copy[j] # NoEntry => idle[j] + due[q].copy[j].due >= Every
          \/ \E p \in Runners \ {q} : j \in due[p].took \ due[p].todo
      BY <1>a, <2>1, <2>2, <2>5, <3>1 DEF CopyPaced, Unsaved, Paced
    <3> QED
      BY <2>4, <2>5, <3>1, <3>2
  <2>9. FilePaced(j)'
    BY <1>a, <2>1, <2>5 DEF FilePaced, Unsaved, Paced
  <2> QED
    BY <2>6, <2>7, <2>8, <2>9
<1>3. ASSUME NEW r \in Runners, Spawn(r)
      PROVE  TwoKnow(j)' /\ DueAlone(j)' /\ CopyPaced(j)' /\ FilePaced(j)'
  <2>1. \A q \in Runners : /\ due'[q].took = due[q].took /\ due'[q].todo = due[q].todo
                           /\ due'[q].copy = due[q].copy /\ due'[q].stale = due[q].stale
                           /\ due'[q].shared = due[q].shared
    BY <1>3, SpawnFacts
  <2>2. UNCHANGED <<file, idle, torn, lost>>
    BY <1>3 DEF Spawn
  <2> QED
    BY <1>a, <2>1, <2>2 DEF TwoKnow, DueAlone, CopyPaced, FilePaced, Unsaved, Paced
<1>4. ASSUME NEW r \in Runners, ChildEnds(r)
      PROVE  TwoKnow(j)' /\ DueAlone(j)' /\ CopyPaced(j)' /\ FilePaced(j)'
  <2> DEFINE k == due[r].job
  <2>1. /\ k \in Jobs /\ due'[r].copy = [due[r].copy EXCEPT ![k] = Rescheduled(@)]
        /\ due'[r].took = due[r].took /\ due'[r].todo = due[r].todo \ {k}
        /\ due'[r].stale = due[r].stale /\ due'[r].shared = due[r].shared
        /\ \A q \in Runners \ {r} : due'[q] = due[q]
    BY <1>4, ChildFacts
  <2>2. /\ j \notin torn /\ j \notin lost /\ file' = file /\ idle' = [idle EXCEPT ![k] = 0]
    BY <1>4 DEF ChildEnds
  <2>3. k \in due[r].todo /\ k \in due[r].took
    BY <1>4, <1>b DEF ChildEnds, RunInv
  <2>4. j # k => due'[r].copy[j] = due[r].copy[j] /\ idle'[j] = idle[j]
    BY <1>b, <2>1, <2>2 DEF ScheduleTypes, Files
  <2>5. j = k => due'[r].copy[j].due = Every /\ idle'[j] = 0
    BY <1>b, <1>c, <2>1, <2>2, EntryFacts DEF ScheduleTypes, Files, Rescheduled
  <2> HIDE DEF k
  <2>6. \A q \in Runners : due'[q].took = due[q].took /\ due'[q].shared = due[q].shared
                           /\ due'[q].stale = due[q].stale
    BY <2>1
  <2>7. TwoKnow(j)'
    BY <1>a, <2>2, <2>6 DEF TwoKnow
  <2>8. CASE j # k
    <3>1. \A q \in Runners : /\ j \in due'[q].todo <=> j \in due[q].todo
                             /\ due'[q].copy[j] = due[q].copy[j]
      BY <2>1, <2>4, <2>8
    <3>2. DueAlone(j)'
      BY <1>a, <2>2, <2>4, <2>6, <2>8, <3>1 DEF DueAlone
    <3>3. CopyPaced(j)'
      BY <1>a, <2>2, <2>4, <2>6, <2>8, <3>1 DEF CopyPaced, Unsaved, Paced
    <3>4. FilePaced(j)'
      BY <1>a, <2>2, <2>4, <2>6, <2>8, <3>1 DEF FilePaced, Unsaved, Paced
    <3> QED
      BY <2>7, <3>2, <3>3, <3>4
  <2>9. CASE j = k
    <3>1. j \in due'[r].took \ due'[r].todo
      BY <2>1, <2>3, <2>9
    <3>2. DueAlone(j)'
      <4> SUFFICES ASSUME NEW q \in Runners, j \in due'[q].todo, j \notin due'[q].shared
                   PROVE  FALSE
        BY DEF DueAlone
      <4>1. q # r /\ j \in due[q].todo /\ j \in due[q].took
        BY <1>b, <2>1, <3>1 DEF RunInv
      <4> QED
        BY <1>a, <2>2, <2>3, <2>6, <2>9, <4>1 DEF TwoKnow
    <3>3. CopyPaced(j)'
      <4> SUFFICES ASSUME NEW q \in Runners, j \in due'[q].took \ due'[q].todo
                   PROVE  \/ due'[q].copy[j] # NoEntry => idle'[j] + due'[q].copy[j].due >= Every
                          \/ \E p \in Runners \ {q} : j \in due'[p].took \ due'[p].todo
        BY DEF CopyPaced, Unsaved, Paced
      <4>1. CASE q = r
        BY <1>c, <2>5, <2>9, <4>1
      <4>2. CASE q # r
        BY <3>1, <4>2
      <4> QED
        BY <4>1, <4>2
    <3>4. FilePaced(j)'
      BY <3>1 DEF FilePaced, Unsaved
    <3> QED
      BY <2>7, <3>2, <3>3, <3>4
  <2> QED
    BY <2>8, <2>9
<1>5. ASSUME NEW r \in Runners, SaveStore(r)
      PROVE  TwoKnow(j)' /\ DueAlone(j)' /\ CopyPaced(j)' /\ FilePaced(j)'
  <2>1. /\ due'[r] = NotRunning /\ due[r].todo = {} /\ due[r].pc = "running"
        /\ file' = due[r].copy /\ idle' = idle
        /\ j \notin torn /\ j \notin lost /\ j \notin due[r].stale
    BY <1>5, EndFacts DEF SaveStore
  <2>2. \A q \in Runners \ {r} :
          /\ due'[q].took = due[q].took /\ due'[q].todo = due[q].todo
          /\ due'[q].copy = due[q].copy /\ due'[q].shared = due[q].shared
          /\ due[q].pc = "running" => due'[q].stale = due[q].stale \cup due[r].took
          /\ due[q].pc = "idle" => due'[q] = due[q] /\ due[q].took = {}
    BY <1>5, <1>b, EndFacts, IdleFacts DEF SameRun, RunInv
  <2>3. due'[r].took = {} /\ due'[r].todo = {}
    BY <2>1, IdleFacts
  <2>4. TwoKnow(j)' /\ DueAlone(j)'
    BY <1>a, <2>1, <2>2, <2>3 DEF TwoKnow, DueAlone
  <2>5. CopyPaced(j)'
    <3> SUFFICES ASSUME NEW q \in Runners, j \in due'[q].took \ due'[q].todo,
                        j \notin due'[q].stale
                 PROVE  \/ due'[q].copy[j] # NoEntry => idle[j] + due'[q].copy[j].due >= Every
                        \/ \E p \in Runners \ {q} : j \in due'[p].took \ due'[p].todo
      BY <2>1 DEF CopyPaced, Unsaved, Paced
    <3>1. q # r
      BY <2>3
    <3>2. j \in due[q].took \ due[q].todo /\ due[q].pc = "running"
      BY <1>b, <2>2, <3>1
    <3>3. j \notin due[q].stale /\ j \notin due[r].took
      BY <2>2, <3>1, <3>2
    <3>4. \/ due[q].copy[j] # NoEntry => idle[j] + due[q].copy[j].due >= Every
          \/ \E p \in Runners \ {q} : j \in due[p].took \ due[p].todo
      BY <1>a, <2>1, <3>2, <3>3 DEF CopyPaced, Unsaved, Paced
    <3>5. ASSUME NEW p \in Runners \ {q}, j \in due[p].took \ due[p].todo
          PROVE  j \in due'[p].took \ due'[p].todo
      BY <2>2, <3>3, <3>5
    <3> QED
      BY <2>2, <3>1, <3>4, <3>5
  <2>6. FilePaced(j)'
    <3>1. CASE j \in due[r].took
      <4>1. \/ due[r].copy[j] # NoEntry => idle[j] + due[r].copy[j].due >= Every
            \/ \E p \in Runners \ {r} : j \in due[p].took \ due[p].todo
        BY <1>a, <2>1, <3>1 DEF CopyPaced, Unsaved, Paced
      <4>2. \A p \in Runners \ {r} : due'[p].took \ due'[p].todo = due[p].took \ due[p].todo
        BY <2>2
      <4> QED
        BY <2>1, <4>1, <4>2 DEF FilePaced, Unsaved, Paced
    <3>2. CASE j \notin due[r].took
      <4>1. file'[j] = file[j]
        BY <1>5, <1>b, <2>1, <3>2, SavedFacts
      <4>2. \/ file[j] # NoEntry => idle[j] + file[j].due >= Every
            \/ \E p \in Runners : j \in due[p].took \ due[p].todo
        BY <1>a, <2>1 DEF FilePaced, Unsaved, Paced
      <4>3. ASSUME NEW p \in Runners, j \in due[p].took \ due[p].todo
            PROVE  j \in due'[p].took \ due'[p].todo
        BY <2>2, <3>2, <4>3
      <4> QED
        BY <2>1, <4>1, <4>2, <4>3 DEF FilePaced, Unsaved, Paced
    <3> QED
      BY <3>1, <3>2
  <2> QED
    BY <2>4, <2>5, <2>6
<1>6. ASSUME NEW r \in Runners, KillRun(r), UNCHANGED <<file, cmd, commands, idle, meant, torn>>
      PROVE  TwoKnow(j)' /\ DueAlone(j)' /\ CopyPaced(j)' /\ FilePaced(j)'
  <2>1. /\ due'[r] = NotRunning /\ \A q \in Runners \ {r} : due'[q] = due[q]
        /\ due'[r].took = {} /\ due'[r].todo = {}
    BY <1>6, EndFacts, IdleFacts
  <2>2. j \notin torn /\ j \notin lost /\ j \notin due[r].took \ due[r].todo
    BY <1>6 DEF KillRun
  <2>3. \A p \in Runners : j \in due[p].took \ due[p].todo => j \in due'[p].took \ due'[p].todo
    BY <2>1, <2>2
  <2>4. TwoKnow(j)' /\ DueAlone(j)'
    BY <1>6, <1>a, <2>1, <2>2 DEF TwoKnow, DueAlone
  <2>5. CopyPaced(j)'
    <3> SUFFICES ASSUME NEW q \in Runners, j \in due'[q].took \ due'[q].todo,
                        j \notin due'[q].stale
                 PROVE  \/ due'[q].copy[j] # NoEntry => idle[j] + due'[q].copy[j].due >= Every
                        \/ \E p \in Runners \ {q} : j \in due'[p].took \ due'[p].todo
      BY <1>6 DEF CopyPaced, Unsaved, Paced
    <3>1. q # r /\ due'[q] = due[q]
      BY <2>1
    <3>2. \/ due[q].copy[j] # NoEntry => idle[j] + due[q].copy[j].due >= Every
          \/ \E p \in Runners \ {q} : j \in due[p].took \ due[p].todo
      BY <1>a, <2>2, <3>1 DEF CopyPaced, Unsaved, Paced
    <3> QED
      BY <2>3, <3>1, <3>2
  <2>6. FilePaced(j)'
    BY <1>6, <1>a, <2>2, <2>3 DEF FilePaced, Unsaved, Paced
  <2> QED
    BY <2>4, <2>5, <2>6
<1>7. ASSUME NEW op \in CommandOps, NEW i \in Jobs, CommandLoads(op, i)
      PROVE  TwoKnow(j)' /\ DueAlone(j)' /\ CopyPaced(j)' /\ FilePaced(j)'
  BY <1>1, <1>7 DEF CommandLoads
<1>8. CASE CommandSaves
  <2>1. /\ cmd.copy \in Files /\ cmd.job \in Jobs /\ cmd.op \in CommandOps
        /\ file' = [cmd.copy EXCEPT ![cmd.job] = Edited(@, cmd.op)]
        /\ \A q \in Runners :
             /\ SameRun(due[q], due'[q]) /\ due'[q].shared = due[q].shared
             /\ due[q].stale \subseteq due'[q].stale
    <3>1. PICK changed \in SUBSET Jobs :
            /\ cmd.copy \in Files /\ cmd.job \in Jobs /\ cmd.op \in CommandOps
            /\ file' = [cmd.copy EXCEPT ![cmd.job] = Edited(@, cmd.op)]
            /\ \A q \in Runners :
                 /\ SameRun(due[q], due'[q]) /\ due'[q].shared = due[q].shared
                 /\ due[q].pc = "running" => due'[q].stale = due[q].stale \cup changed
                 /\ due[q].pc = "idle" => due'[q] = due[q]
      BY <1>8, CommandFacts
    <3>2. \A q \in Runners : due[q].stale \subseteq due'[q].stale
      BY <1>b, <3>1
    <3> QED
      BY <3>1, <3>2
  <2>2. /\ j \notin torn /\ j \notin lost /\ idle' = idle /\ cmd.copy[j] = file[j]
    BY <1>8 DEF CommandSaves, ScheduleInv, CommandInv
  <2>3. file'[j] # NoEntry =>
          file'[j].due = Every \/ (file[j] # NoEntry /\ file'[j].due = file[j].due)
    BY <2>1, <2>2, <1>c, EditedFacts DEF Files
  <2>4. \A q \in Runners : /\ due'[q].took = due[q].took /\ due'[q].todo = due[q].todo
                           /\ due'[q].copy = due[q].copy /\ due'[q].shared = due[q].shared
                           /\ due[q].stale \subseteq due'[q].stale
    BY <2>1 DEF SameRun
  <2>5. TwoKnow(j)' /\ DueAlone(j)' /\ CopyPaced(j)'
    BY <1>a, <2>2, <2>4 DEF TwoKnow, DueAlone, CopyPaced, Unsaved, Paced
  <2>6. FilePaced(j)'
    <3>1. FilePaced(j)
      BY <1>a, <2>2
    <3>2. (file[j] # NoEntry => idle[j] + file[j].due >= Every)
            => (file'[j] # NoEntry => idle[j] + file'[j].due >= Every)
      BY <1>c, <2>3
    <3> QED
      BY <2>2, <2>4, <3>1, <3>2 DEF FilePaced, Unsaved, Paced
  <2> QED
    BY <2>5, <2>6
<1>9. CASE SecondPasses
  <2>1. \A q \in Runners :
          /\ due'[q].took = due[q].took /\ due'[q].todo = due[q].todo
          /\ due'[q].stale = due[q].stale /\ due'[q].shared = due[q].shared
          /\ due'[q].copy = Sooner(due[q].copy)
    BY <1>9, SecondFacts
  <2>2. /\ j \notin torn /\ j \notin lost /\ file' = Sooner(file)
        /\ idle'[j] = IF idle[j] < Every THEN idle[j] + 1 ELSE idle[j]
    BY <1>9 DEF SecondPasses
  <2>3. idle[j] >= Every => idle'[j] >= Every
    BY <1>c, <2>2
  <2>4. TwoKnow(j)' /\ DueAlone(j)'
    BY <1>a, <2>1, <2>2, <2>3 DEF TwoKnow, DueAlone
  <2>5. \A q \in Runners : Paced(due[q].copy, j) =>
          (due'[q].copy[j] # NoEntry => idle'[j] + due'[q].copy[j].due >= Every)
    BY <1>9, <1>b, <2>1, SecondPaced DEF Paced
  <2>6. Paced(file, j) => (file'[j] # NoEntry => idle'[j] + file'[j].due >= Every)
    BY <1>9, <1>c, <2>2, SecondPaced DEF Paced
  <2>7. CopyPaced(j)'
    <3>1. CopyPaced(j)
      BY <1>a, <2>2
    <3> QED
      BY <2>1, <2>5, <3>1 DEF CopyPaced, Unsaved, Paced
  <2>8. FilePaced(j)'
    <3>1. FilePaced(j)
      BY <1>a, <2>2
    <3> QED
      BY <2>1, <2>6, <3>1 DEF FilePaced, Unsaved, Paced
  <2> QED
    BY <2>4, <2>7, <2>8
<1> QED
  BY <1>1, <1>2, <1>3, <1>4, <1>5, <1>6, <1>7, <1>8, <1>9 DEF ScheduleMove, RunStep, scheduleVars

\* The file says what the operator was told of every job no save was lost of.
LEMMA CommandsStep ==
    ASSUME ScheduleTypes, ScheduleInv, CommandsHold, ScheduleMove PROVE CommandsHold'
<1> SUFFICES ASSUME NEW j \in Jobs, j \notin torn' PROVE StateOf(file'[j]) = meant'[j]
  BY DEF CommandsHold, StateOf
<1>1. CASE UNCHANGED <<file, meant, torn>>
  BY <1>1 DEF CommandsHold
<1>2. ASSUME NEW r \in Runners, SaveStore(r) PROVE StateOf(file'[j]) = meant'[j]
  <2>1. j \notin torn /\ j \notin due[r].stale /\ RunInv(r) /\ meant' = meant
    BY <1>2 DEF SaveStore, ScheduleInv
  <2>2. StateOf(file'[j]) = StateOf(file[j])
    BY <1>2, <2>1, SavedFacts
  <2> QED
    BY <2>1, <2>2 DEF CommandsHold
<1>3. CASE CommandSaves
  <2>1. /\ cmd.copy \in Files /\ cmd.job \in Jobs
        /\ file' = [cmd.copy EXCEPT ![cmd.job] = Edited(@, cmd.op)]
        /\ meant' = [meant EXCEPT ![cmd.job] = StateOf(file'[cmd.job])]
    BY <1>3, CommandFacts
  <2>2. j \notin torn /\ cmd.copy[j] = file[j]
    BY <1>3 DEF CommandSaves, ScheduleInv, CommandInv
  <2>3. CASE j = cmd.job
    BY <2>1, <2>3 DEF ScheduleTypes
  <2>4. CASE j # cmd.job
    <3>1. file'[j] = file[j] /\ meant'[j] = meant[j]
      BY <2>1, <2>2, <2>4 DEF ScheduleTypes, Files
    <3> QED
      BY <2>2, <3>1 DEF CommandsHold
  <2> QED
    BY <2>3, <2>4
<1>4. CASE SecondPasses
  <2>1. torn' = torn /\ file' = Sooner(file) /\ meant' = meant /\ file \in Files
    BY <1>4 DEF SecondPasses, ScheduleTypes
  <2>2. StateOf(Sooner(file)[j]) = StateOf(file[j])
    BY <2>1, SoonerFacts DEF StateOf
  <2> QED
    BY <2>1, <2>2 DEF CommandsHold
<1>5. ASSUME NEW r \in Runners,
             RunDue(r) \/ Spawn(r) \/ ChildEnds(r) \/ (KillRun(r) /\ UNCHANGED <<file, meant, torn>>)
      PROVE  StateOf(file'[j]) = meant'[j]
  BY <1>1, <1>5 DEF RunDue, Spawn, ChildEnds
<1>6. ASSUME NEW op \in CommandOps, NEW i \in Jobs, CommandLoads(op, i)
      PROVE  StateOf(file'[j]) = meant'[j]
  BY <1>1, <1>6 DEF CommandLoads
<1> QED
  BY <1>1, <1>2, <1>3, <1>4, <1>5, <1>6 DEF ScheduleMove, RunStep, scheduleVars

----------------------------------------------------------------------------
(* The supervisor                                                          *)

\* When a component is over.
LEMMA OverFacts ==
    /\ Over("alerts") <=> watch.pc = "ended"
    /\ Over("schedule") <=> ticker = "ended"
    /\ Over("hitl") <=> hitl = "ended"
    /\ Over("alerts")' <=> watch'.pc = "ended"
    /\ Over("schedule")' <=> ticker' = "ended"
    /\ Over("hitl")' <=> hitl' = "ended"
  BY DEF Over

\* The daemon is well typed when it starts.
LEMMA TypeInit == Init => TypeOK
<1> SUFFICES ASSUME Init PROVE TypeOK
  OBVIOUS
<1>1. AlertTypes /\ ScheduleTypes
  BY AlertTypesInit, ScheduleTypesInit DEF Init
<1>2. PICK cs \in SUBSET Components : SupInit(cs)
  <2>1. PICK f \in Flavours : SupInit(IF rules = {} THEN f \ {"alerts"} ELSE f)
    BY DEF Init
  <2>2. (IF rules = {} THEN f \ {"alerts"} ELSE f) \in SUBSET Components
    BY FlavourAssumption
  <2> QED
    BY <2>1, <2>2
<1>3. SupTypes /\ ticker = "wait"
  <2>1. /\ sup \in {"select", "exited"} /\ code \in 0..1
        /\ comps = cs /\ watched = cs /\ up = cs /\ told = {} /\ own = {}
        /\ hitl = "run" /\ ticker = "wait"
    BY <1>2 DEF SupInit
  <2>2. flag \in BOOLEAN /\ grace \in BOOLEAN /\ faults \in Nat
    BY <1>2 DEF SupInit, Init
  <2> QED
    BY <2>1, <2>2 DEF SupTypes
<1> QED
  BY <1>1, <1>3 DEF TypeOK

\* A run that is not there has ended; one under way is the scheduler's.
LEMMA LoopRuns == "loop" \in Runners
  BY DEF Runners

\* Every step of the daemon keeps the types of the supervisor.
LEMMA SupTypesStep ==
    ASSUME TypeOK, SupInv, [Next]_vars
    PROVE  SupTypes' /\ (ticker' = "busy" => due'["loop"].pc = "running")
<1> USE DEF alertVars, scheduleVars, supVars, vars, SupTypes
<1>a. /\ SupTypes /\ ScheduleTypes /\ (ticker = "busy" => due["loop"].pc = "running")
      /\ due \in [Runners -> Runs]
  BY DEF TypeOK, ScheduleTypes
<1>b. faults \in Nat /\ (Fault => faults' \in Nat) /\ (NoFault => faults' \in Nat)
  BY <1>a DEF Fault, NoFault
<1>1. CASE Watching
  <2>1. faults' \in Nat /\ flag' = flag
    BY <1>1, <1>b DEF Watching, WatchStep, LoadWindow, NothingToWatch, Snapshot, Evaluate, Send,
                      Persist, Wake, Flush
  <2>2. own' \in {own, own \cup {"alerts"}} /\ "alerts" \in comps
    BY <1>1 DEF Watching, Owns
  <2> QED
    BY <1>1, <1>a, <2>1, <2>2 DEF Watching
<1>2. CASE TickerFires
  <2>1. due'["loop"].pc = "running"
    <3>1. due'["loop"] = [pc |-> "running", copy |-> file, took |-> Ready(file),
                          todo |-> Ready(file), job |-> "none", stale |-> {}, shared |-> Contended]
      BY <1>2, <1>a, LoopRuns, RunDueFacts DEF TickerFires
    <3> QED
      BY <3>1
  <2> QED
    BY <1>2, <1>a, <2>1 DEF TickerFires
<1>3. CASE Running
  <2>1. faults' \in Nat
    BY <1>3, <1>b DEF Running
  <2>2. PICK r \in Runners : RunStep(r) \/ SaveFails(r)
    BY <1>3 DEF Running
  <2>4. due'["loop"].pc \in {"idle", "running"}
    <3>1. \E q \in Runners : \/ RunStep(q)
                             \/ KillRun(q) /\ UNCHANGED <<file, cmd, commands, idle, meant, torn>>
      BY <2>2 DEF SaveFails
    <3>2. ScheduleMove
      BY <3>1 DEF ScheduleMove
    <3>3. ScheduleTypes'
      BY <1>a, <3>2, ScheduleTypesStep
    <3> QED
      BY <3>3, LoopRuns DEF ScheduleTypes, Runs
  <2> QED
    BY <1>3, <1>a, <2>1, <2>4 DEF Running
<1>c. CASE ChildReturns
  <2>1. PICK r \in Runners : ChildEnds(r)
    BY <1>c DEF ChildReturns
  <2>2. due'["loop"].pc = due["loop"].pc
    BY <1>a, <2>1, LoopRuns, ChildFacts
  <2> QED
    BY <1>c, <1>a, <2>2 DEF ChildReturns
<1>4. CASE TickerEnds \/ Signal
  BY <1>4, <1>a DEF TickerEnds, Signal
<1>5. CASE HitlEnds
  BY <1>5, <1>a, <1>b DEF HitlEnds, Owns
<1>6. CASE Kill
  BY <1>6, <1>a, <1>b DEF Kill
<1>7. CASE Restart
  <2>1. PICK cs \in SUBSET comps : comps' = cs /\ watched' = cs /\ up' = cs
    BY <1>7 DEF Restart
  <2>2. flag' \in BOOLEAN /\ grace' \in BOOLEAN /\ faults' \in Nat
    BY <1>7, <1>b DEF Restart
  <2>3. /\ sup' = "select" /\ code' = 0 /\ hitl' = "run" /\ ticker' = "wait"
        /\ told' = {} /\ own' = {}
    BY <1>7 DEF Restart
  <2>4. comps' \in SUBSET Components
    BY <1>a, <2>1
  <2> QED
    BY <2>1, <2>2, <2>3, <2>4
<1>8. CASE PollSignal \/ PollExits \/ Woken \/ Judge \/ Grace
  <2>1. CASE PollSignal \/ Woken
    BY <2>1, <1>a DEF PollSignal, Woken
  <2>2. CASE PollExits
    BY <2>2, <1>a DEF PollExits
  <2>3. CASE Judge
    BY <2>3, <1>a DEF Judge
  <2>4. CASE Grace
    <3>1. grace' \in BOOLEAN
      BY <2>4, <1>a DEF Grace
    <3> QED
      BY <2>4, <1>a, <3>1 DEF Grace
  <2> QED
    BY <1>8, <2>1, <2>2, <2>3, <2>4
<1>9. CASE Abort
  BY <1>9, <1>a DEF Abort
<1>10. CASE Exit
  BY <1>10, <1>a DEF Exit, SupInv
<1>11. CASE \E c \in Components : WatcherReports(c)
  BY <1>11, <1>a DEF WatcherReports
<1>12. CASE "alerts" \in comps /\ Elsewhere
  BY <1>12, <1>a, <1>b DEF Elsewhere, Trouble, ReloadRules
<1>13. CASE "schedule" \in comps /\ Ordered
  <2>1. CASE CronCalls
    <3>1. "cron" \in Runners /\ RunDue("cron") /\ "cron" # "loop"
      BY <2>1 DEF CronCalls, Runners
    <3>2. due'["loop"].pc = due["loop"].pc
      BY <1>a, <3>1, LoopRuns, RunDueFacts DEF SameRun
    <3> QED
      BY <1>13, <1>a, <3>2 DEF Ordered
  <2>2. CASE \E op \in {"add", "remove", "pause", "resume"}, j \in Jobs : CommandLoads(op, j)
    BY <1>13, <1>a, <2>2 DEF Ordered, CommandLoads
  <2>3. CASE CommandSaves
    <3>1. due'["loop"].pc = due["loop"].pc
      BY <1>a, <2>3, LoopRuns, CommandFacts DEF SameRun
    <3> QED
      BY <1>13, <1>a, <3>1 DEF Ordered
  <2> QED
    BY <1>13, <2>1, <2>2, <2>3 DEF Ordered
<1>14. CASE Passing
  <2>1. due'["loop"].pc = due["loop"].pc
    BY <1>14, <1>a, LoopRuns, SecondFacts DEF Passing
  <2>2. UNCHANGED <<flag, faults>>
    BY <1>14 DEF Passing, Elapse
  <2> QED
    BY <1>14, <1>a, <2>1, <2>2 DEF Passing
<1>15. CASE UNCHANGED vars
  BY <1>15, <1>a
<1> QED
  BY <1>1, <1>2, <1>3, <1>4, <1>5, <1>6, <1>7, <1>8, <1>9, <1>10, <1>11, <1>12, <1>13,
     <1>14, <1>15, <1>c DEF Next, Supervise

\* Every step of the daemon keeps the types.
LEMMA TypeStep == TypeOK /\ SupInv /\ [Next]_vars => TypeOK'
<1> SUFFICES ASSUME TypeOK, SupInv, [Next]_vars PROVE TypeOK'
  OBVIOUS
<1>1. ScheduleTypes'
  BY Moves, ScheduleTypesStep DEF TypeOK
<1>2. AlertTypes'
  <2>1. CASE AlertMove
    BY <2>1, AlertTypesStep DEF TypeOK
  <2>2. CASE Restart
    <3>1. Started \in Watches
      BY Ages DEF Started, Watches
    <3> QED
      BY <2>2, <3>1 DEF Restart, TypeOK, AlertTypes
  <2> QED
    BY <2>1, <2>2, Moves
<1> QED
  BY <1>1, <1>2, SupTypesStep DEF TypeOK

\* What the supervisor relies on.
SupAll == SupInv /\ ExitCodeIsTrue /\ GaugeIsTrue

\* A loop that has ended stays so until it is started again.
LEMMA EndsStay ==
    ASSUME AlertTypes, AlertMove, watch.pc = "ended" PROVE watch'.pc = "ended"
<1>1. watch \in Watches
  BY DEF AlertTypes
<1>2. ~WatchStep
  BY DEF WatchStep, LoadWindow, NothingToWatch, Snapshot, Evaluate, Send, Persist, Wake, Flush
<1>3. CASE Elapse
  BY <1>1, <1>3 DEF Elapse, Watches
<1>4. CASE DropWatch
  BY <1>1, <1>4 DEF DropWatch, Watches
<1> QED
  BY <1>2, <1>3, <1>4 DEF AlertMove, alertVars, Trouble, ReloadRules

\* A step that ends no component and decides nothing.
LEMMA QuietSup ==
    ASSUME TypeOK, SupAll, UNCHANGED <<comps, told, watched, up, sup, code, own, flag>>,
           hitl' = hitl, ticker' = "ended" <=> ticker = "ended",
           watch'.pc = "ended" <=> watch.pc = "ended"
    PROVE  SupAll'
<1>1. \A c \in Components : Over(c)' <=> Over(c)
  BY OverFacts DEF Components
<1>2. comps \subseteq Components /\ told \subseteq comps
  BY DEF TypeOK, SupTypes
<1> QED
  BY <1>1, <1>2 DEF SupAll, SupInv, ExitCodeIsTrue, GaugeIsTrue, Alive

\* A component ends while the daemon is alive and not yet aborting.
LEMMA EndingSup ==
    ASSUME TypeOK, SupAll, UNCHANGED <<comps, told, watched, up, sup, code, flag>>,
           NEW e \in Components, Over(e)', Owns(e) \/ (flag /\ UNCHANGED own),
           Alive, "alerts" \in comps /\ sup = "returned" => watch'.pc = "ended",
           ticker = "ended" => ticker' = "ended",
           \A c \in Components \ {e} : Over(c)' <=> Over(c)
    PROVE  SupAll'
<1>1. comps \subseteq Components /\ told \subseteq comps /\ watched \subseteq comps
  BY DEF TypeOK, SupTypes
<1>2. own \subseteq own' /\ (~flag => e \in own')
  BY DEF Owns
<1>3. \A c \in Components : Over(c) => Over(c)'
  OBVIOUS
<1>4. SupInv'
  BY <1>1, <1>2, <1>3 DEF SupAll, SupInv, Alive
<1>5. ExitCodeIsTrue'
  BY <1>2 DEF SupAll, ExitCodeIsTrue
<1>6. GaugeIsTrue'
  BY <1>1, <1>3 DEF SupAll, GaugeIsTrue, Alive
<1> QED
  BY <1>4, <1>5, <1>6 DEF SupAll

\* Every step keeps the gauges, the exit code and what they are decided on.
LEMMA SupStep == TypeOK /\ TypeOK' /\ SupAll /\ [Next]_vars => SupAll'
<1> SUFFICES ASSUME TypeOK, TypeOK', SupAll, [Next]_vars PROVE SupAll'
  OBVIOUS
<1> USE DEF alertVars, scheduleVars, supVars, vars
<1>a. /\ comps \subseteq Components /\ told \subseteq comps /\ own \subseteq comps
      /\ watch \in Watches /\ AlertTypes
  BY DEF TypeOK, SupTypes, AlertTypes
<1>1. CASE Watching
  <2>1. watch.pc # "ended"
    BY <1>1 DEF Watching, WatchStep, LoadWindow, NothingToWatch, Snapshot, Evaluate, Send,
                Persist, Wake, Flush
  <2>2. /\ UNCHANGED <<comps, told, watched, up, sup, code, hitl, ticker>> /\ flag' = flag
        /\ Alive /\ "alerts" \in comps
    BY <1>1 DEF Watching, WatchStep, LoadWindow, NothingToWatch, Snapshot, Evaluate, Send,
                Persist, Wake, Flush
  <2>3. CASE watch'.pc = "ended"
    <3>1. Owns("alerts") /\ Over("alerts")'
      BY <1>1, <2>3, OverFacts DEF Watching
    <3>2. \A c \in Components \ {"alerts"} : Over(c)' <=> Over(c)
      BY <2>2, OverFacts DEF Components
    <3> QED
      BY <2>2, <2>3, <3>1, <3>2, EndingSup DEF Components
  <2>4. CASE watch'.pc # "ended"
    BY <1>1, <2>1, <2>2, <2>4, QuietSup DEF Watching
  <2> QED
    BY <2>3, <2>4
<1>2. CASE TickerFires \/ Running \/ ChildReturns
  <2>1. ticker' = "ended" <=> ticker = "ended"
    BY <1>2 DEF TickerFires, Running, ChildReturns
  <2> QED
    BY <1>2, <2>1, QuietSup DEF TickerFires, Running, ChildReturns
<1>3. CASE TickerEnds
  <2>1. \A c \in Components \ {"schedule"} : Over(c)' <=> Over(c)
    BY <1>3, OverFacts DEF TickerEnds, Components
  <2>2. /\ UNCHANGED <<comps, told, watched, up, sup, code, flag, own, watch>> /\ flag /\ Alive
        /\ ticker' = "ended" /\ Over("schedule")'
    BY <1>3, OverFacts DEF TickerEnds
  <2>3. "alerts" \in comps /\ sup = "returned" => watch'.pc = "ended"
    BY <2>2 DEF SupAll, SupInv
  <2> QED
    BY <2>1, <2>2, <2>3, EndingSup DEF Components
<1>4. CASE HitlEnds
  <2>1. \A c \in Components \ {"hitl"} : Over(c)' <=> Over(c)
    BY <1>4, OverFacts DEF HitlEnds, Components
  <2>2. /\ UNCHANGED <<comps, told, watched, up, sup, code, flag, watch, ticker>> /\ Alive
        /\ Owns("hitl") /\ Over("hitl")'
    BY <1>4, OverFacts DEF HitlEnds
  <2>3. "alerts" \in comps /\ sup = "returned" => watch'.pc = "ended"
    BY <2>2 DEF SupAll, SupInv
  <2> QED
    BY <2>1, <2>2, <2>3, EndingSup DEF Components
<1>5. CASE Signal
  <2>1. \A c \in Components : Over(c)' <=> Over(c)
    BY <1>5, OverFacts DEF Signal, Components
  <2> QED
    BY <1>5, <1>a, <2>1 DEF Signal, SupAll, SupInv, ExitCodeIsTrue, GaugeIsTrue, Alive
<1>6. CASE Kill
  <2>1. \A c \in comps : Over(c)'
    <3>1. "alerts" \in comps => watch'.pc = "ended"
      BY <1>6, <1>a DEF Kill, DropWatch, Watches
    <3>2. ticker' = "ended" /\ hitl' = "ended"
      BY <1>6 DEF Kill
    <3> QED
      BY <1>a, <3>1, <3>2, OverFacts DEF Components
  <2>2. /\ sup' = "exited" /\ code' = 1 /\ own' = comps
        /\ UNCHANGED <<comps, told, watched, up>>
    BY <1>6 DEF Kill
  <2>3. "alerts" \in comps => watch'.pc = "ended"
    BY <1>6, <1>a DEF Kill, DropWatch, Watches
  <2>4. SupInv'
    BY <1>a, <2>1, <2>2, <2>3 DEF SupInv
  <2> QED
    BY <2>2, <2>4 DEF SupAll, ExitCodeIsTrue, GaugeIsTrue, Alive
<1>7. CASE Restart
  <2>1. /\ watch'.pc = "start" /\ ticker' = "wait" /\ hitl' = "run" /\ sup' = "select"
        /\ code' = 0 /\ told' = {} /\ up' = comps' /\ watched' = comps'
    BY <1>7 DEF Restart, Started
  <2>2. \A c \in Components : ~Over(c)'
    BY <2>1, OverFacts DEF Components
  <2>3. comps' \subseteq Components
    BY DEF TypeOK, SupTypes
  <2> QED
    BY <2>1, <2>2, <2>3 DEF SupAll, SupInv, ExitCodeIsTrue, GaugeIsTrue
<1>8. CASE PollSignal \/ Woken \/ Judge \/ Grace
  <2>1. \A c \in Components : Over(c)' <=> Over(c)
    BY <1>8, OverFacts DEF PollSignal, Woken, Judge, Grace, Components
  <2>2. /\ UNCHANGED <<comps, watched, up, own, flag, watch, ticker>> /\ told' \subseteq told
        /\ sup' \notin {"returned", "exited"} /\ sup \notin {"returned", "exited"}
    BY <1>8 DEF PollSignal, Woken, Judge, Grace
  <2>3. SupInv'
    BY <1>8, <1>a, <2>1, <2>2 DEF PollSignal, Woken, Judge, Grace, SupAll, SupInv
  <2>4. ExitCodeIsTrue'
    BY <1>8, <2>2 DEF PollSignal, Woken, Judge, Grace, SupAll, SupInv, ExitCodeIsTrue
  <2>5. GaugeIsTrue'
    BY <1>a, <2>1, <2>2 DEF SupAll, GaugeIsTrue, Alive
  <2> QED
    BY <2>3, <2>4, <2>5 DEF SupAll
<1>9. CASE PollExits
  <2>1. \A c \in Components : Over(c)' <=> Over(c)
    BY <1>9, OverFacts DEF PollExits, Components
  <2>2. /\ UNCHANGED <<comps, watched, up, own, flag, watch, ticker, code>> /\ told' \subseteq told
        /\ sup' \in {"judge", "pending"} /\ sup = "polled"
    BY <1>9 DEF PollExits
  <2>3. sup' = "judge" => flag \/ own # {}
    <3>1. sup' = "judge" => told # {}
      BY <1>9 DEF PollExits
    <3>2. \A c \in told : flag \/ c \in own
      BY <1>a, <2>2 DEF SupAll, SupInv
    <3> QED
      BY <3>1, <3>2
  <2>4. SupInv'
    BY <1>a, <2>1, <2>2, <2>3 DEF SupAll, SupInv
  <2>5. ExitCodeIsTrue' /\ GaugeIsTrue'
    BY <1>a, <2>1, <2>2 DEF SupAll, ExitCodeIsTrue, GaugeIsTrue, Alive
  <2> QED
    BY <2>4, <2>5 DEF SupAll
<1>10. CASE Abort
  <2>1. "alerts" \in comps => watch'.pc = "ended"
    BY <1>10, <1>a, OverFacts DEF Abort, DropWatch, Watches
  <2>2. /\ UNCHANGED <<comps, watched, up, own, flag, code>> /\ told' = {}
        /\ sup' = "returned" /\ sup = "abort" /\ ticker' = "ended" /\ hitl' = "ended"
    BY <1>10 DEF Abort
  <2>3. \A c \in comps : Over(c)'
    BY <1>a, <2>1, <2>2, OverFacts DEF Components
  <2> QED
    BY <2>1, <2>2, <2>3 DEF SupAll, SupInv, ExitCodeIsTrue, GaugeIsTrue
<1>11. CASE Exit
  <2>1. \A c \in Components : Over(c)' <=> Over(c)
    BY <1>11, OverFacts DEF Exit, Components
  <2>2. /\ UNCHANGED <<comps, watched, up, own, flag, code, told, watch>>
        /\ sup' = "exited" /\ sup = "returned"
    BY <1>11 DEF Exit
  <2> QED
    BY <1>a, <2>1, <2>2 DEF SupAll, SupInv, ExitCodeIsTrue, GaugeIsTrue, Alive
<1>12. ASSUME NEW e \in Components, WatcherReports(e) PROVE SupAll'
  <2>1. \A c \in Components : Over(c)' <=> Over(c)
    BY <1>12, OverFacts DEF WatcherReports, Components
  <2>2. /\ UNCHANGED <<comps, own, flag, code, sup, watch, ticker>> /\ told' \subseteq told \cup {e}
        /\ up' = up \ {e} /\ watched' = watched \ {e} /\ Over(e)
    BY <1>12 DEF WatcherReports
  <2>3. SupInv'
    BY <1>a, <2>1, <2>2 DEF SupAll, SupInv
  <2>4. ExitCodeIsTrue' /\ GaugeIsTrue'
    BY <1>a, <2>1, <2>2 DEF SupAll, ExitCodeIsTrue, GaugeIsTrue, Alive
  <2> QED
    BY <2>3, <2>4 DEF SupAll
<1>13. CASE "alerts" \in comps /\ Elsewhere
  BY <1>13, QuietSup DEF Elsewhere, Trouble, ReloadRules
<1>14. CASE "schedule" \in comps /\ Ordered
  BY <1>14, QuietSup DEF Ordered
<1>15. CASE Passing
  <2>1. watch'.pc = watch.pc /\ flag' = flag
    BY <1>15, <1>a DEF Passing, Elapse, Watches
  <2> QED
    BY <1>15, <2>1, QuietSup DEF Passing
<1>16. CASE UNCHANGED vars
  BY <1>16, QuietSup
<1> QED
  BY <1>1, <1>2, <1>3, <1>4, <1>5, <1>6, <1>7, <1>8, <1>9, <1>10, <1>11, <1>12, <1>13,
     <1>14, <1>15, <1>16 DEF Next, Supervise

----------------------------------------------------------------------------
(* The theorems                                                            *)

\* The invariant holds when the daemon starts.
LEMMA DaemonInit == Init => DaemonInv
<1> SUFFICES ASSUME Init PROVE DaemonInv
  OBVIOUS
<1>1. ScheduleInv /\ CommandsHold
  BY ScheduleInvInit DEF Init
<1>2. WindowInv
  BY DEF Init, AlertInit, WindowInv
<1>3. PICK cs : SupInit(cs)
  BY DEF Init
<1>4. watch.pc = "start"
  BY DEF Init, AlertInit, Started
<1>5. Over("alerts") = FALSE /\ Over("schedule") = FALSE /\ Over("hitl") = FALSE
  BY <1>3, <1>4, OverFacts DEF SupInit
<1>6. comps \subseteq Components
  BY TypeInit DEF TypeOK, SupTypes
<1>7. SupInv
  BY <1>3, <1>5, <1>6 DEF SupInit, SupInv, Components, Init
<1>8. ExitCodeIsTrue /\ GaugeIsTrue
  BY <1>3 DEF SupInit, ExitCodeIsTrue, GaugeIsTrue
<1> QED
  BY <1>1, <1>2, <1>7, <1>8 DEF DaemonInv

\* Every step keeps the invariant.
LEMMA DaemonStep == TypeOK /\ DaemonInv /\ [Next]_vars => TypeOK' /\ DaemonInv'
<1> SUFFICES ASSUME TypeOK, DaemonInv, [Next]_vars PROVE TypeOK' /\ DaemonInv'
  OBVIOUS
<1>1. TypeOK'
  BY TypeStep DEF DaemonInv
<1>2. SupAll'
  BY <1>1, SupStep DEF DaemonInv, SupAll
<1>3. ScheduleInv' /\ CommandsHold'
  <2>1. /\ ScheduleTypes /\ ScheduleTypes' /\ ScheduleMove /\ ScheduleInv /\ CommandsHold
    BY <1>1, Moves DEF TypeOK, DaemonInv
  <2>2. PaceInv' /\ CommandsHold'
    BY <2>1, PaceStep, CommandsStep
  <2>3. CommandInv' /\ \A r \in Runners : RunInv(r)'
    BY <2>1, RunInvStep, CommandInvStep DEF ScheduleInv
  <2> QED
    BY <2>2, <2>3 DEF ScheduleInv
<1>4. "alerts" \in comps' => WindowInv'
  <2> SUFFICES ASSUME "alerts" \in comps' PROVE WindowInv'
    OBVIOUS
  <2>1. CASE Restart
    <3>1. "alerts" \in comps /\ watch.pc = "ended"
      BY <2>1 DEF Restart, DaemonInv, SupInv
    <3>2. /\ watch'.pc = "start" /\ watch'.at = 0
          /\ UNCHANGED <<dedup, disk, fired, forgot>>
      BY <2>1 DEF Restart, Started
    <3>3. /\ watch.at \in Nat /\ EvictSecs \in Nat
          /\ \A k \in Keys : fired[k] \in Nat
      BY Ages DEF TypeOK, AlertTypes, Watches
    <3> QED
      BY <3>1, <3>2, <3>3 DEF DaemonInv, WindowInv
  <2>2. CASE ~Restart
    <3>1. AlertMove
      BY <2>2, Moves
    <3>2. comps' = comps
      BY <2>2 DEF Next, vars, supVars, Supervise, Watching, TickerFires, Running, ChildReturns, TickerEnds,
                  HitlEnds, Signal, Kill, PollSignal, PollExits, Woken, Judge, Abort, Exit,
                  Grace, WatcherReports, Elsewhere, Ordered, Passing
    <3> QED
      BY <1>1, <3>1, <3>2, WindowStep DEF TypeOK, DaemonInv
  <2> QED
    BY <2>1, <2>2
<1> QED
  BY <1>1, <1>2, <1>3, <1>4 DEF DaemonInv, SupAll

\* The invariant of the daemon, whatever components are enabled, however many
\* rules, nodes and jobs there are, and however often it is stopped, killed and
\* started again.
THEOREM DaemonInvariance == Spec => [](TypeOK /\ DaemonInv)
  BY TypeInit, DaemonInit, DaemonStep, PTL DEF Spec

\* Exit code, gauges, suppression window and schedule file tell the truth.
THEOREM DaemonTruth == Spec => []DaemonTellsTruth
<1>1. TypeOK /\ DaemonInv => DaemonTellsTruth
  <2> SUFFICES ASSUME TypeOK, DaemonInv PROVE StopKeepsWindow
    BY DEF DaemonInv, DaemonTellsTruth
  <2> QED
    BY DEF StopKeepsWindow, DaemonInv, SupInv, WindowInv
<1> QED
  BY <1>1, DaemonInvariance, PTL

\* A rule fires for a target again only when its window is over, across stops and
\* restarts, as long as the window was not lost.
THEOREM DaemonAlertsSpaced == Spec => AlertsAreSpaced
<1>1. TypeOK /\ DaemonInv /\ [Next]_vars
        => [\A k \in Keys : fired'[k] < fired[k] => forgot \/ fired[k] >= fired'[k] + Window]_vars
  <2> SUFFICES ASSUME TypeOK, DaemonInv, [Next]_vars, NEW k \in Keys, fired'[k] < fired[k], ~forgot
               PROVE  fired[k] >= fired'[k] + Window
    OBVIOUS
  <2>1. /\ fired \in [Keys -> 0..Cap] /\ dedup \in [Keys -> 0..Cap] /\ watch.at \in 0..MaxTick
    BY DEF TypeOK, AlertTypes, Watches
  <2>2. fired' # fired
    BY <2>1, Ages
  <2>3. ~Elapse
    <3>1. Elapse => fired'[k] >= fired[k]
      BY <2>1, OlderFacts DEF Elapse
    <3>2. fired[k] \in Nat /\ (Elapse => fired'[k] \in Nat)
      BY <2>1, OlderFacts, Ages DEF Elapse
    <3> QED
      BY <3>1, <3>2
  <2>4. Watching /\ Send
    BY <2>2, <2>3 DEF Next, vars, alertVars, supVars, Supervise, Watching, TickerFires, Running,
                      ChildReturns, TickerEnds, HitlEnds, Signal, Kill, Restart, PollSignal, PollExits, Woken,
                      Judge, Abort, Exit, Grace, WatcherReports, Elsewhere, Ordered, Passing,
                      Trouble, ReloadRules, WatchStep, LoadWindow, NothingToWatch, Snapshot,
                      Evaluate, Persist, Wake, Flush
  <2>5. PICK e \in watch.todo : Allow(e, watch.at) /\ fired' = [fired EXCEPT ![e] = watch.at]
    BY <2>2, <2>4 DEF Send
  <2>6. e = k /\ fired'[k] = watch.at
    BY <2>1, <2>5, Ages
  <2>7. dedup[k] = fired[k] \/ (dedup[k] = Cap /\ fired[k] >= watch.at + EvictSecs)
    BY <2>4 DEF Watching, DaemonInv, WindowInv
  <2>8. dedup[k] = Cap \/ dedup[k] >= watch.at + DedupSecs
    BY <2>5, <2>6 DEF Allow
  <2> QED
    BY <2>1, <2>6, <2>7, <2>8, Ages DEF Window
<1> QED
  BY <1>1, DaemonInvariance, PTL DEF Spec, AlertsAreSpaced

\* Runs of one job are an interval apart, whoever starts them, but for a job that
\* two overlapping run_due both read as due, one whose saved date was overwritten
\* and one that ran in a run_due which did not save.
THEOREM DaemonRunsSpaced == Spec => RunsAreSpaced
<1>1. TypeOK /\ DaemonInv /\ [Next]_vars
        => [\A r \in Runners : due[r].job = "none" /\ due'[r].job # "none" =>
              \/ idle[due'[r].job] >= Every
              \/ due'[r].job \in due[r].shared \cup torn \cup lost]_vars
  <2> SUFFICES ASSUME TypeOK, DaemonInv, [Next]_vars, NEW r \in Runners,
                      due[r].job = "none", due'[r].job # "none",
                      due'[r].job \notin due[r].shared \cup torn \cup lost
               PROVE  idle[due'[r].job] >= Every
    OBVIOUS
  <2>1. ScheduleTypes /\ ScheduleMove /\ ScheduleInv
    BY Moves DEF TypeOK, DaemonInv
  <2>2. due'[r].job # due[r].job
    OBVIOUS
  <2>3. ~SecondPasses /\ ~CommandSaves
    BY <2>1, <2>2, SecondFacts, CommandFacts DEF SameRun
  <2>4. ASSUME NEW q \in Runners, RunDue(q) PROVE FALSE
    <3>1. CASE q = r
      BY <2>1, <2>2, <2>4, <3>1, RunDueFacts
    <3>2. CASE q # r
      BY <2>1, <2>2, <2>4, <3>2, RunDueFacts DEF SameRun
    <3> QED
      BY <3>1, <3>2
  <2>5. ASSUME NEW q \in Runners, ChildEnds(q) PROVE FALSE
    BY <2>1, <2>2, <2>5, ChildFacts
  <2>6. ASSUME NEW q \in Runners, SaveStore(q) \/ KillRun(q) PROVE FALSE
    <3>1. CASE q = r
      BY <2>1, <2>2, <2>6, <3>1, EndFacts, IdleFacts
    <3>2. CASE q # r
      BY <2>1, <2>2, <2>6, <3>2, EndFacts DEF SameRun
    <3> QED
      BY <3>1, <3>2
  <2>7. PICK q \in Runners : Spawn(q)
    BY <2>1, <2>2, <2>3, <2>4, <2>5, <2>6 DEF ScheduleMove, RunStep, scheduleVars, CommandLoads
  <2>8. due'[r].job \in due[r].todo /\ due[r].todo \subseteq Jobs
    <3>1. q = r
      BY <2>1, <2>2, <2>7, SpawnFacts
    <3> QED
      BY <2>1, <2>7, <3>1, SpawnFacts DEF ScheduleTypes, Runs
  <2> QED
    BY <2>1, <2>8 DEF ScheduleInv, PaceInv, DueAlone
<1> QED
  BY <1>1, DaemonInvariance, PTL DEF Spec, RunsAreSpaced

\* No alert and no job comes before its time, with the exceptions that
\* AlertsAreSpaced and RunsAreSpaced name.
THEOREM DaemonPaced == Spec => NothingTooEarly
  BY DaemonAlertsSpaced, DaemonRunsSpaced, PTL DEF NothingTooEarly
============================================================================
