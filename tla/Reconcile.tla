----------------------------- MODULE Reconcile -----------------------------
(***************************************************************************)
(* Continuous reconciliation: the daemon's reconcile loop with its         *)
(* unmanned converge (cli/daemon.rs), the operator's `state apply' and     *)
(* `reconcile converge' (cli/state.rs, cli/reconcile.rs) and the core they *)
(* share (state/converge.rs, state/apply.rs), against a cluster that other *)
(* people edit while they run.                                             *)
(***************************************************************************)
EXTENDS StateApply

CONSTANTS
    Worlds,     \* initial [decl, managed, live], over the identities in play
    Documents,  \* what may be pushed to the source: a set of [decl, managed]
    Edits,      \* [Obj -> SUBSET Values]: what somebody else may make of an object
    Configs,    \* the [reconcile] sections the daemon may be given
    Options,    \* the options of the operator's command
    Bulk,       \* changes in one batch that count as a Severe risk (50 in the code)
    MaxEvents   \* bound on edits, pushes, locks, reloads, faults and stops

VARIABLES
    doc,        \* the desired state in the source: [decl, managed]
    live,       \* the cluster
    cfg,        \* the [reconcile] section as loaded
    locked,     \* read_only or an incident lockdown
    status,     \* the persisted drift state: "none", "sync" or "drift"
    run,        \* [Actors -> the run in progress]
    events      \* events so far

vars == <<doc, live, cfg, locked, status, run, events>>

Actors == {"daemon", "operator"}
NoCap == -1
Cfgs == [on : BOOLEAN, prune : BOOLEAN, cap : Nat \cup {NoCap}, allowed : SUBSET Families]
NoCfg == [on |-> FALSE, prune |-> FALSE, cap |-> NoCap, allowed |-> {"removed"}]
Opts == [dry : BOOLEAN, prune : BOOLEAN, cont : BOOLEAN, force : BOOLEAN, asks : BOOLEAN]

ASSUME ReconcileAssumption ==
    /\ Bulk \in Nat /\ MaxEvents \in Nat
    /\ Configs \subseteq Cfgs \cup {NoCfg}
    /\ Options \subseteq Opts
    /\ \A w \in Worlds : /\ ClusterState(w.decl) /\ ClusterState(w.live)
                        /\ DOMAIN w.decl = DOMAIN w.live /\ w.managed \subseteq Families
    /\ \A d \in Documents : ClusterState(d.decl) /\ d.managed \subseteq Families
    /\ \A o \in Obj : Edits[o] \subseteq Decl(o) \cup {Absent}

Points == {"idle", "check", "read", "apply", "recheck", "over", "stopped"}
Results == {"applied", "failed", "held", "dry", "aborted"}
Entries == {"none", "done", "lost", "interrupted", "unrecorded"}

\* Mutant: converge_prune alone is enough.
UnmannedUncapped(rec) ==
    [dry |-> FALSE, prune |-> rec.prune, cont |-> FALSE, force |-> FALSE, asks |-> FALSE]

\* ApplyOptions of the unmanned run: deletes only under a change cap.
Unmanned(rec) ==
    [dry |-> FALSE, prune |-> rec.prune /\ rec.cap # NoCap, cont |-> FALSE, force |-> FALSE, asks |-> FALSE]

Nothing == [o \in {} |-> Absent]
Extended(f, x, v) == [y \in DOMAIN f \cup {x} |-> IF y = x THEN v ELSE f[y]]

\* A run: the section and the options it goes by, the document and the part of the
\* cluster it has read, its changes, the calls left of the one it is at, the
\* outcomes, the changes for which a call left, its audit entry, whether it had the
\* cluster to itself, whether a fault hit it and whether its last drift state was
\* saved.
Idle == [pc |-> "idle", rec |-> NoCfg, opts |-> Unmanned(NoCfg),
         doc |-> [decl |-> Nothing, managed |-> {}], snap |-> Nothing, changes |-> {},
         calls |-> <<>>, outs |-> Nothing, sent |-> {}, entry |-> "none", alone |-> TRUE,
         hurt |-> FALSE, saved |-> TRUE]

\* Between ticks only the history of the last run is kept.
Ended(r) == [Idle EXCEPT !.alone = r.alone, !.hurt = r.hurt, !.saved = r.saved]

Init ==
    /\ \E w \in Worlds : doc = [decl |-> w.decl, managed |-> w.managed] /\ live = w.live
    /\ cfg \in Configs
    /\ locked = FALSE
    /\ status = "none"
    /\ run = [a \in Actors |-> Idle]
    /\ events = 0

\* Somebody else's change: no run has the cluster to itself any more.
Disturbed == [a \in Actors |-> [run[a] EXCEPT !.alone = FALSE]]
Event == events < MaxEvents /\ events' = events + 1
FaultUnless(ok) == IF ok THEN UNCHANGED events ELSE Event

---------------------------------------------------------------------------
(* The environment                                                         *)

Edit(o, v) ==
    /\ Event
    /\ v # live[o]
    /\ live' = IF v = Absent THEN Purged(o, live) ELSE [live EXCEPT ![o] = v]
    /\ run' = Disturbed
    /\ UNCHANGED <<doc, cfg, locked, status>>

Push(d) ==
    /\ Event
    /\ d # doc /\ DOMAIN d.decl = DOMAIN live
    /\ doc' = d
    /\ run' = Disturbed
    /\ UNCHANGED <<live, cfg, locked, status>>

Lock ==
    /\ Event
    /\ locked' = ~locked
    /\ run' = Disturbed
    /\ UNCHANGED <<doc, live, cfg, status>>

Reload(c) ==
    /\ Event
    /\ c # cfg
    /\ cfg' = c
    /\ UNCHANGED <<doc, live, locked, status, run>>

---------------------------------------------------------------------------
(* Computing the drift: the source, then the families one after another    *)

\* compute_drift: the document is loaded, then the cluster is exported.
StartRead(r, pc) == [r EXCEPT !.pc = pc, !.doc = doc, !.snap = Nothing]

Unread(r) == DOMAIN live \ DOMAIN r.snap

Export(a) ==
    /\ run[a].pc \in {"check", "read", "recheck"}
    /\ Unread(run[a]) # {}
    /\ LET o == CHOOSE p \in Unread(run[a]) : \A q \in Unread(run[a]) : FamilyRank[p] <= FamilyRank[q]
       IN  run' = [run EXCEPT ![a].snap = Extended(@, o, Exported(o, live[o]))]
    /\ UNCHANGED <<doc, live, cfg, locked, status, events>>

\* Mutant: the error of a check ends the loop.
ExportFailsEnds(a) ==
    /\ run[a].pc \in {"check", "read", "recheck"}
    /\ Event
    /\ run' = [run EXCEPT ![a] = [Idle EXCEPT !.pc = "over", !.entry = run[a].entry, !.hurt = TRUE]]
    /\ UNCHANGED <<doc, live, cfg, locked, status>>

\* The source or the cluster cannot be read: the tick, or the command, ends.
ExportFails(a) ==
    /\ run[a].pc \in {"check", "read", "recheck"}
    /\ Event
    /\ run' = [run EXCEPT ![a] = [Idle EXCEPT !.pc = IF a = "daemon" THEN "idle" ELSE "over",
                                              !.entry = run[a].entry, !.hurt = TRUE]]
    /\ UNCHANGED <<doc, live, cfg, locked, status>>

DriftOf(r) == Diff(r.doc.decl, r.doc.managed, r.snap)

---------------------------------------------------------------------------
(* The daemon's loop                                                       *)

\* A tick reads the section of the configuration as it is now.
Tick ==
    /\ run["daemon"].pc = "idle"
    /\ cfg # NoCfg
    /\ run' = [run EXCEPT !["daemon"] = StartRead([Idle EXCEPT !.rec = cfg], "check")]
    /\ UNCHANGED <<doc, live, cfg, locked, status, events>>

\* save_reconcile_status: a save that fails is logged and leaves the last state.
SaveStatus(drift, saved) ==
    status' = IF ~saved THEN status ELSE IF drift = {} THEN "sync" ELSE "drift"

\* The drift is persisted; converge_decision tells whether to act on it.
Checked ==
    \E saved \in BOOLEAN :
        LET r == run["daemon"]
            drift == DriftOf(r)
            s == [r EXCEPT !.saved = saved]
        IN  /\ r.pc = "check" /\ Unread(r) = {}
            /\ SaveStatus(drift, saved) /\ FaultUnless(saved)
            /\ run' = [run EXCEPT !["daemon"] =
                          IF drift # {} /\ r.rec.on /\ ~locked
                          THEN StartRead([s EXCEPT !.opts = Unmanned(r.rec)], "read")
                          ELSE Ended(s)]
            /\ UNCHANGED <<doc, live, cfg, locked>>

\* retain_allowed_families; an empty list allows every family.
Allowed(rec, changes) ==
    {c \in changes : rec.allowed = {} \/ FamilyOf[c.obj] \in rec.allowed}

\* exceeds_unmanned_cap, over the changes that would be sent.
OverCap(rec, changes, prune) ==
    rec.cap # NoCap /\ Cardinality({c \in changes : Dispatched(c, prune)}) > rec.cap

Begin(r, changes) == [r EXCEPT !.pc = "apply", !.changes = changes]

\* run_auto_converge: whitelist, cap, pre-flight; a refused batch is left to
\* a human.
UnmannedGate ==
    LET r == run["daemon"]
        mine == Allowed(r.rec, DriftOf(r))
        refused == OverCap(r.rec, mine, r.opts.prune) \/ Refused(mine, FALSE, r.opts.prune, Bulk)
    IN  /\ r.pc = "read" /\ Unread(r) = {}
        /\ run' = [run EXCEPT !["daemon"] =
                      IF refused THEN Ended(r) ELSE Begin(r, mine)]
        /\ UNCHANGED <<doc, live, cfg, locked, status, events>>

\* repersist_drift.
Rechecked ==
    \E saved \in BOOLEAN :
        LET r == run["daemon"]
        IN  /\ r.pc = "recheck" /\ Unread(r) = {}
            /\ SaveStatus(DriftOf(r), saved) /\ FaultUnless(saved)
            /\ run' = [run EXCEPT !["daemon"] = Ended([r EXCEPT !.saved = saved])]
            /\ UNCHANGED <<doc, live, cfg, locked>>

\* Mutant: the guard is disarmed before the calls.
ArmedNever(r) == FALSE

\* The supervisor drops the loop: between ticks, or wherever it waits.  A run
\* that was applying leaves its record (InterruptedRunGuard), unless the audit
\* log cannot be written.
Armed(r) == r.pc = "apply" /\ ~r.opts.dry /\ r.changes # {}

Dropped(r) == IF Armed(r) THEN {"interrupted", "unrecorded"} ELSE {r.entry}

Stop ==
    /\ run["daemon"].pc # "stopped"
    /\ Event
    /\ \E e \in Dropped(run["daemon"]) :
          run' = [run EXCEPT !["daemon"].pc = "stopped", !["daemon"].entry = e]
    /\ UNCHANGED <<doc, live, cfg, locked, status>>

Restart ==
    /\ run["daemon"].pc = "stopped"
    /\ run' = [run EXCEPT !["daemon"] = [Idle EXCEPT !.alone = FALSE]]
    /\ UNCHANGED <<doc, live, cfg, locked, status, events>>

---------------------------------------------------------------------------
(* The operator's command                                                  *)

Command(opts) ==
    /\ run["operator"].pc = "idle"
    /\ run' = [run EXCEPT !["operator"] = StartRead([Idle EXCEPT !.opts = opts], "read")]
    /\ UNCHANGED <<doc, live, cfg, locked, status, events>>

\* The gate covers the whole set; with --interactive every Severe change
\* that would be sent is then confirmed or dropped.
Confirmable(c, opts) == Dispatched(c, opts.prune) /\ Severe(c)

OperatorGate ==
    LET r == run["operator"]
        drift == DriftOf(r)
    IN  /\ r.pc = "read" /\ Unread(r) = {}
        /\ \/ /\ Refused(drift, r.opts.force, r.opts.prune, Bulk)
              /\ run' = [run EXCEPT !["operator"].pc = "over"]
           \/ /\ ~Refused(drift, r.opts.force, r.opts.prune, Bulk)
              /\ \E no \in SUBSET {o \in DOMAIN live : r.opts.asks /\ ~r.opts.dry} :
                    run' = [run EXCEPT !["operator"] =
                              Begin(r, {c \in drift : ~(c.obj \in no /\ Confirmable(c, r.opts))})]
        /\ UNCHANGED <<doc, live, cfg, locked, status, events>>

---------------------------------------------------------------------------
(* apply                                                                   *)

Pending(r) == r.changes \ DOMAIN r.outs
Current(r) == First(Pending(r))

Outcome(r, out) == [r EXCEPT !.outs = Extended(@, Current(r), out), !.calls = <<>>]

Aborted(r) == ~r.opts.cont /\ \E c \in DOMAIN r.outs : r.outs[c] = "failed"

\* The head of the loop: skip the change, refuse it or take up its calls.
TakeUp(r) ==
    LET c == Current(r)
    IN  CASE Aborted(r) -> Outcome(r, "aborted")
          [] ~Aborted(r) /\ r.opts.dry -> Outcome(r, "dry")
          [] ~Aborted(r) /\ ~r.opts.dry /\ ~Dispatched(c, r.opts.prune) -> Outcome(r, "held")
          [] OTHER -> IF Immutable(c) THEN Outcome(r, "failed")
                      ELSE IF CallsOf(c) = <<>> THEN Outcome(r, "applied")
                      ELSE [r EXCEPT !.calls = CallsOf(c)]

NextChange(a) ==
    /\ run[a].pc = "apply" /\ run[a].calls = <<>>
    /\ Pending(run[a]) # {}
    /\ run' = [run EXCEPT ![a] = TakeUp(run[a])]
    /\ UNCHANGED <<doc, live, cfg, locked, status, events>>

\* Mutant: the last call's error is swallowed.
AfterCallLenient(r, answer) ==
    LET s == [r EXCEPT !.sent = @ \cup {Current(r)}]
    IN  IF Len(r.calls) > 1 THEN [s EXCEPT !.calls = Tail(@)] ELSE Outcome(s, "applied")

\* One call after another; the first that fails fails the change.
AfterCall(r, answer) ==
    LET c == Current(r)
        s == [r EXCEPT !.sent = @ \cup {c}]
    IN  CASE answer = "ok" /\ Len(r.calls) > 1 -> [s EXCEPT !.calls = Tail(@)]
          [] (answer = "ok" /\ Len(r.calls) = 1) \/ Tolerated(c, answer) -> Outcome(s, "applied")
          [] OTHER -> Outcome(s, "failed")

Reached(a, new) ==
    [b \in Actors |-> IF b = a \/ new = live THEN run[b] ELSE [run[b] EXCEPT !.alone = FALSE]]

SendCall(a) ==
    LET r == run[a]
        c == Current(r)
        answer == Answer(c.obj, Head(r.calls), live)
    IN  /\ r.pc = "apply" /\ r.calls # <<>> /\ ~locked
        /\ live' = IF answer = "ok" THEN Effect(c.obj, Head(r.calls), live) ELSE live
        /\ run' = [Reached(a, live') EXCEPT ![a] = AfterCall(r, answer)]
        /\ UNCHANGED <<doc, cfg, locked, status, events>>

\* The write gate of the client refuses under a lock, before the request.
CallLocked(a) ==
    /\ run[a].pc = "apply" /\ run[a].calls # <<>> /\ locked
    /\ run' = [run EXCEPT ![a] = [Outcome(run[a], "failed") EXCEPT !.hurt = TRUE]]
    /\ UNCHANGED <<doc, live, cfg, locked, status, events>>

\* The request does not arrive, or its answer is lost after it was executed.
CallFails(a) ==
    LET r == run[a]
        c == Current(r)
    IN  /\ r.pc = "apply" /\ r.calls # <<>> /\ ~locked
        /\ Event
        /\ live' \in {live} \cup (IF Answer(c.obj, Head(r.calls), live) = "ok"
                                 THEN {Effect(c.obj, Head(r.calls), live)} ELSE {})
        /\ run' = [Reached(a, live') EXCEPT ![a] = [AfterCall(r, "error") EXCEPT !.hurt = TRUE]]
        /\ UNCHANGED <<doc, cfg, locked, status>>

\* apply_and_audit: one entry for a run that dispatched something.  One that
\* cannot be written is logged and lost (write_apply_audit).
DispatchedAny(r) == \E c \in DOMAIN r.outs : r.outs[c] \in {"applied", "failed"}
Written(r) == IF ~r.opts.dry /\ DispatchedAny(r) THEN {"done", "lost"} ELSE {r.entry}

\* Mutant: the drift is not persisted again.
ReportedOnce(a, r) == IF a = "daemon" THEN Ended(r) ELSE [r EXCEPT !.pc = "over"]

Reported(a, r) ==
    IF a = "daemon" THEN StartRead(r, "recheck") ELSE [r EXCEPT !.pc = "over"]

Report(a) ==
    LET r == run[a]
    IN  /\ r.pc = "apply" /\ Pending(r) = {}
        /\ \E e \in Written(r) :
              /\ run' = [run EXCEPT ![a] = Reported(a, [r EXCEPT !.entry = e])]
              /\ FaultUnless(e # "lost")
        /\ UNCHANGED <<doc, live, cfg, locked, status>>

---------------------------------------------------------------------------

DaemonStep ==
    \/ Tick \/ Checked \/ UnmannedGate \/ Rechecked
    \/ Export("daemon") \/ NextChange("daemon") \/ SendCall("daemon") \/ CallLocked("daemon") \/ Report("daemon")

OperatorStep ==
    \/ OperatorGate
    \/ Export("operator") \/ NextChange("operator") \/ SendCall("operator") \/ CallLocked("operator") \/ Report("operator")

Next ==
    \/ DaemonStep \/ Restart
    \/ OperatorStep \/ \E opts \in Options : Command(opts)
    \/ \E a \in Actors : ExportFails(a) \/ CallFails(a)
    \/ Stop
    \/ \E o \in DOMAIN live : \E v \in Edits[o] : Edit(o, v)
    \/ \E d \in Documents : Push(d)
    \/ Lock
    \/ \E c \in Configs : Reload(c)

Spec == Init /\ [][Next]_vars

Fairness == WF_vars(DaemonStep) /\ WF_vars(OperatorStep) /\ WF_vars(Restart)

FairSpec == Spec /\ Fairness

---------------------------------------------------------------------------
(* Properties                                                              *)

Changes == [kind : {"create", "update", "delete"}, obj : Obj,
            before : Values \cup {Absent}, after : Values \cup {Absent}]

\* Type correctness of the cluster, the document, the persisted status and the
\* runs: a run has outcomes only for its changes, and calls only while one of
\* them has none.
TypeOK ==
    /\ ClusterState(live) /\ ClusterState(doc.decl) /\ DOMAIN doc.decl = DOMAIN live
    /\ cfg \in Configs /\ locked \in BOOLEAN /\ events \in 0..MaxEvents
    /\ status \in {"none", "sync", "drift"}
    /\ \A a \in Actors :
          LET r == run[a]
          IN  /\ r.pc \in Points /\ r.opts \in Opts /\ r.rec \in Cfgs \cup {NoCfg}
              /\ ClusterState(r.snap) /\ DOMAIN r.snap \subseteq DOMAIN live
              /\ r.changes \subseteq Changes /\ DOMAIN r.outs \subseteq r.changes
              /\ \A c \in DOMAIN r.outs : r.outs[c] \in Results
              /\ r.calls # <<>> => r.pc \in {"apply", "stopped"} /\ Pending(r) # {}
              /\ r.entry \in Entries /\ r.saved \in BOOLEAN

\* Whatever is pushed, reloaded or edited while it runs, the unmanned
\* converge calls Proxmox only for changes its own tick allowed: managed and
\* whitelisted families, no more of them than the cap, deletes only with
\* converge_prune under a cap, and nothing Severe.
UnmannedStaysInside ==
    LET r == run["daemon"]
    IN  /\ r.rec.cap # NoCap => Cardinality(r.sent) <= r.rec.cap
        /\ \A c \in r.sent :
              /\ r.rec.on
              /\ r.pc = "apply" => FamilyOf[c.obj] \in r.doc.managed
              /\ r.rec.allowed = {} \/ FamilyOf[c.obj] \in r.rec.allowed
              /\ c.kind = "delete" => r.rec.prune /\ r.rec.cap # NoCap
              /\ ~Severe(c)

\* A run that reached Proxmox leaves an audit entry or, when the audit log cannot
\* be written, the error that says so; also when it is dropped between two calls.
\* A rehearsal leaves none.
RunsLeaveTrace ==
    \A a \in Actors : run[a].pc \in {"recheck", "over", "stopped"} =>
        /\ run[a].sent # {} => run[a].entry # "none"
        /\ run[a].opts.dry => run[a].sent = {} /\ run[a].entry = "none"

\* What an apply cannot bring about: a declaration that an export never gives back
\* as it is written, and what the calls of an update do not carry (an emptied text
\* of a backup job or an alias, an emptied map, `strict' of a rule that is not a node
\* affinity).
Unheard(c) ==
    \/ Differs(c.obj, c.after, Exported(c.obj, c.after))
    \/ /\ c.kind = "update"
       /\ \/ In(c.obj, {"backup_job", "firewall_alias"}) /\ c.after.note = 0 /\ c.before.note # 0
          \/ In(c.obj, {"mapping_pci", "mapping_usb"}) /\ PartsOf(c.after) = {} /\ PartsOf(c.before) # {}
          \/ In(c.obj, {"ha_rule"}) /\ c.after.fixed = 0 /\ c.before.flag # c.after.flag

Delivered(c, v) ==
    IF c.kind = "delete" THEN v = Absent
    ELSE v # Absent /\ (Unheard(c) \/ ~Differs(c.obj, c.after, Exported(c.obj, v)))

\* A change reported as applied is what the cluster holds, however many
\* calls it took, unless somebody else changed the cluster meanwhile: the
\* next diff finds nothing left of it.
AppliedMeansMatch ==
    \A a \in Actors : run[a].pc \in {"recheck", "over"} /\ run[a].alone =>
        \A c \in DOMAIN run[a].outs : run[a].outs[c] = "applied" => Delivered(c, live[c.obj])

\* The resources a run has deleted, and a rule that went with the last of its
\* resources before its own update was up.
Gone(r) ==
    {Sid[d.obj] : d \in {e \in DOMAIN r.outs : e.kind = "delete" /\ In(e.obj, {"ha_resource"})
                                               /\ r.outs[e] = "applied"}}
Orphaned(r, c) ==
    /\ c.kind = "update" /\ In(c.obj, {"ha_rule"})
    /\ PartsOf(c.before) # {} /\ PartsOf(c.before) \subseteq Gone(r)

\* Without a fault and alone on the cluster, the order of the changes and of
\* the calls of a change never makes Proxmox refuse one.  What fails is a
\* fixed field, a rule whose resources the run was not to create, or a rule
\* that the run took away itself with all the resources it had.
QuietRunsSucceed ==
    \A a \in Actors : run[a].alone /\ ~run[a].hurt =>
        \A c \in DOMAIN run[a].outs : run[a].outs[c] = "failed" =>
            Immutable(c) \/ ~Refers(c.obj, c.after, live) \/ Orphaned(run[a], c)

\* An object that a change was only to update and that is gone when the run
\* ends was reported as failed, or as skipped after a failure, or the run was
\* interrupted and left the entry, or the error, that says so.
NoSilentLoss ==
    \A a \in Actors : run[a].pc \in {"recheck", "over", "stopped"} /\ run[a].alone =>
        \A c \in run[a].changes : c.kind = "update" /\ live[c.obj] = Absent =>
            \/ c \in DOMAIN run[a].outs /\ run[a].outs[c] \in {"failed", "aborted"}
            \/ run[a].entry \in {"interrupted", "unrecorded"}

\* What a check without interruption would find.
Drift == Diff(doc.decl, doc.managed, [o \in DOMAIN live |-> Exported(o, live[o])])

\* Between two ticks the persisted drift state is what a check would find, unless
\* something happened since the tick began or its last state could not be saved.
StatusIsTrue ==
    LET r == run["daemon"]
    IN  r.pc = "idle" /\ r.alone /\ ~r.hurt /\ r.saved /\ status # "none" =>
            (status = "sync" <=> Drift = {})

\* What the daemon would send for the present drift.
Open == {c \in Allowed(cfg, Drift) : Dispatched(c, Unmanned(cfg).prune)}
\* The daemon is off, locked out, must leave the drift to a human or cannot end it.
HandsOff ==
    \/ cfg = NoCfg \/ ~cfg.on \/ locked
    \/ OverCap(cfg, Open, TRUE) \/ Refused(Open, FALSE, TRUE, Bulk)
    \/ \E c \in Open : Immutable(c) \/ Unheard(c) \/ ~Refers(c.obj, c.after, live)

\* Interrupted, partly failed and repeated runs included, an unmanned daemon
\* that may act on the drift gets rid of it.
DriftIsRemoved == []<>(HandsOff \/ Open = {})

\* An apply delivers: what it reports as applied is live, and what it could
\* apply it does not fail.
ApplyDelivers == AppliedMeansMatch /\ QuietRunsSucceed

\* Whatever is cut off, raced or refused, a run can be accounted for: by its
\* audit entry or the error about it, by its report and by the status the daemon
\* keeps.
RunsAreAccounted == TypeOK /\ RunsLeaveTrace /\ NoSilentLoss /\ StatusIsTrue

---------------------------------------------------------------------------
(* What the runs keep to (the parts of the inductive invariant)            *)

Reads == {"check", "read", "recheck"}

\* What a run has read is what there is, as long as nobody disturbed it.
SeenInv(r, source, cluster) ==
    r.pc \in Reads =>
        /\ ClusterState(r.doc.decl) /\ DOMAIN r.doc.decl = DOMAIN cluster
        /\ r.alone => /\ r.doc = source
                      /\ \A o \in DOMAIN r.snap : r.snap[o] = Exported(o, cluster[o])

\* A plan has one change for an object, that fits it, and is gone through in order.
PlanInv(r, cluster) ==
    /\ IsFiniteSet(r.changes)
    /\ \A c, d \in r.changes : c.obj = d.obj => c = d
    /\ \A c \in r.changes : /\ c.obj \in DOMAIN cluster /\ c.kind \in Kinds(c.obj)
                            /\ c.kind # "delete" => c.after \in Decl(c.obj)
    /\ \A c \in DOMAIN r.outs, d \in Pending(r) : ~InOrder(d, c)
    /\ r.pc \in {"idle", "check", "read"} => r.changes = {} /\ r.sent = {}

\* The calls left of a change fit its object, and an update that takes the object
\* away brings it back.
Fits(c, call) ==
    /\ call.op \in {"create", "set", "put"} => call.val \in Decl(c.obj)
    /\ call.op \in {"add", "remove"} => In(c.obj, {"pool", "firewall_ipset"})
    /\ call.op = "add" => call.val \in Decl(c.obj)
    /\ c.kind = "update" /\ In(c.obj, {"ha_rule"}) => call.op = "put"

Takes(call) == call.op \in {"clear", "delete"}
Gives(call) == call.op \in {"create", "set"}

CallInv(r) ==
    r.calls # <<>> =>
        /\ Dispatched(Current(r), r.opts.prune) /\ ~r.opts.dry
        /\ \A i \in DOMAIN r.calls : Fits(Current(r), r.calls[i])
        /\ Current(r).kind = "update" =>
              \A i \in DOMAIN r.calls : Takes(r.calls[i]) =>
                  \E j \in DOMAIN r.calls : j > i /\ Gives(r.calls[j])

\* A run that sent something has an outcome for it or is at it, and its entry is
\* written at the end.
TraceInv(r) ==
    /\ r.sent \subseteq r.changes
    /\ r.pc = "apply" /\ r.sent # {} => r.calls # <<>> \/ DispatchedAny(r)
    /\ r.opts.dry => r.sent = {} /\ r.entry = "none"
    /\ r.pc \in {"check", "read", "apply"} => r.entry = "none"
    /\ r.pc \in {"recheck", "over", "stopped"} /\ r.sent # {} => r.entry # "none"

\* What an undisturbed run was only to update and is gone: it failed, it is to be
\* brought back, or its resource went before it and it will fail.
Doomed(r, c) == c \in Pending(r) /\ In(c.obj, {"ha_rule"}) /\ ~r.opts.dry

LossInv(r, cluster) ==
    r.alone /\ r.pc \in {"apply", "recheck", "over", "stopped"}
        /\ r.entry \notin {"interrupted", "unrecorded"} =>
        \A c \in r.changes : c.kind = "update" /\ cluster[c.obj] = Absent =>
            \/ c \in DOMAIN r.outs /\ r.outs[c] \in {"failed", "aborted"}
            \/ /\ r.pc = "apply"
               /\ \/ c = Current(r) /\ \E j \in DOMAIN r.calls : Gives(r.calls[j])
                  \/ Doomed(r, c)

\* What the diff makes of an object.
Formed(c) ==
    /\ c.kind = "create" <=> c.before = Absent
    /\ c.kind = "delete" <=> c.after = Absent
    /\ c.before = Absent \/ c.before \in Decl(c.obj)

\* What a change that is still to come finds: what the run has read, or a rule that
\* lost the resources the run has deleted.
Found(r, c, v) ==
    IF In(c.obj, {"ha_rule"}) /\ c.kind # "create"
    THEN /\ v # Absent => v.fixed = c.before.fixed /\ v.flag = c.before.flag
         /\ PartsOf(v) \subseteq PartsOf(c.before)
         /\ v = Absent => PartsOf(c.before) # {}
         /\ ~r.hurt => PartsOf(c.before) \subseteq PartsOf(v) \cup Gone(r)
    ELSE Exported(c.obj, v) = c.before

\* Of the calls left: whether there is one of this kind, and the names they are for.
Has(s, op) == \E i \in DOMAIN s : s[i].op = op
For(s, op) == {n \in Names : \E i \in DOMAIN s : s[i].op = op /\ n \in s[i].set}

\* The comment, the removals, the delete, the create and the additions come in this
\* order, and no name twice.
Stage(op) ==
    CASE op = "put" -> 1 [] op = "remove" -> 2 [] op = "delete" -> 3 [] op = "create" -> 4 [] op = "add" -> 5
Before(x, y) ==
    \/ Stage(x.op) < Stage(y.op)
    \/ x.op = y.op /\ x.op \in {"remove", "add"} /\ x.set \cap y.set = {}
Staged(s) == \A i, j \in DOMAIN s : i < j => Before(s[i], s[j])

\* A call of a pool or an IP set: only the create is without the members.
Member(c, call) ==
    /\ call.op \in {"put", "remove", "delete", "create", "add"}
    /\ call.op = "put" => call.set = {"note"} /\ call.val = c.after
    /\ call.op = "create" => call.val = [c.after EXCEPT !.parts = NoParts]
    /\ call.op = "add" => call.val = c.after
    /\ call.op \in {"remove", "add"} => call.set \subseteq Names

\* The members there are when the calls come to the additions.
Base(s, v, n) == IF Has(s, "create") \/ n \in For(s, "remove") THEN 0 ELSE v.parts[n]

\* The calls left lead from this value of a pool or an IP set to the declared one.
Filling(c, s, v) ==
    /\ Staged(s) /\ \A i \in DOMAIN s : Member(c, s[i])
    /\ Has(s, "put") \/ Has(s, "remove") => v # Absent
    /\ For(s, "remove") \subseteq PartsOf(v)
    /\ Has(s, "delete") => PartsOf(v) \subseteq For(s, "remove")
    /\ IF c.kind = "delete"
       THEN ~Has(s, "create") /\ ~Has(s, "add") /\ (Has(s, "delete") <=> v # Absent)
       ELSE /\ Has(s, "delete") => Has(s, "create")
            /\ v = Absent <=> Has(s, "create") /\ ~Has(s, "delete")
            /\ Has(s, "create") \/ Has(s, "put") \/ v.note = c.after.note
            /\ \A n \in Names : IF n \in For(s, "add") THEN In(c.obj, {"pool"}) \/ Base(s, v, n) = 0
                                ELSE c.after.parts[n] = Base(s, v, n)

\* The calls left lead from this value of a grant to the declared one.
Granting(c, s, v) ==
    IF c.kind = "delete" THEN s = <<Call("clear", {}, Absent)>> \/ (s = <<>> /\ v = Absent)
    ELSE \/ s = <<Call("clear", {}, Absent), Call("set", {}, c.after)>>
         \/ s = <<Call("set", {}, c.after)>>
         \/ s = <<>> /\ v = c.after

\* The change that is up: its calls lead to what is declared.
Heading(r, c, v) ==
    CASE In(c.obj, {"pool", "firewall_ipset"}) -> Filling(c, r.calls, v)
      [] In(c.obj, {"acl"}) -> Granting(c, r.calls, v)
      [] OTHER -> r.calls = CallsOf(c) /\ Found(r, c, v)

\* What an undisturbed run has applied is there, what it has not come to is as it
\* was read, and what failed had to.
DeliverInv(r, cluster) ==
    r.alone /\ r.pc \in {"apply", "recheck", "over", "stopped"} =>
        /\ \A c \in r.changes : Formed(c)
        /\ r.pc = "apply" =>
              \A c \in Pending(r) :
                  IF c = Current(r) /\ r.calls # <<>>
                  THEN ~Immutable(c) /\ Heading(r, c, cluster[c.obj])
                  ELSE Found(r, c, cluster[c.obj])
        /\ \A c \in DOMAIN r.outs :
              /\ r.outs[c] = "applied" => Delivered(c, cluster[c.obj])
              /\ r.outs[c] = "failed" /\ ~r.hurt =>
                    Immutable(c) \/ ~Refers(c.obj, c.after, cluster) \/ Orphaned(r, c)

\* The unmanned run goes by the section its tick read, and sends what the gate saw.
GateInv(r) ==
    /\ r.pc = "read" \/ r.changes # {} => r.rec.on /\ r.opts = Unmanned(r.rec)
    /\ ~OverCap(r.rec, r.changes, r.opts.prune)
    /\ \A c \in r.changes :
          /\ r.rec.allowed = {} \/ FamilyOf[c.obj] \in r.rec.allowed
          /\ r.pc = "apply" => FamilyOf[c.obj] \in r.doc.managed
          /\ Dispatched(c, r.opts.prune) => ~Severe(c)
    /\ \A c \in r.sent : Dispatched(c, r.opts.prune)

\* The drift the daemon acts on is the one it recorded.
StatusInv ==
    /\ StatusIsTrue
    /\ run["daemon"].pc = "read" /\ run["daemon"].alone =>
         Drift # {} /\ (run["daemon"].saved => status = "drift")

\* The inductive invariant of the reconciliation.
ReconcileInv ==
    /\ \A a \in Actors : /\ SeenInv(run[a], doc, live) /\ PlanInv(run[a], live)
                         /\ CallInv(run[a]) /\ TraceInv(run[a]) /\ LossInv(run[a], live)
    /\ GateInv(run["daemon"]) /\ StatusInv
===========================================================================
