------------------------------ MODULE OpQueue ------------------------------
(***************************************************************************)
(* The operation queue of the TUI: the reducer that keeps it (app.rs), its *)
(* snapshots on disk (app/cache.rs), the tasks that ask for approval and   *)
(* call Proxmox (tui/mod.rs) and the sessions that crash, quit and come    *)
(* back (app/queue.rs).                                                    *)
(*                                                                         *)
(* An operation is a number: ids grow with the time of the enqueue, the    *)
(* queue is kept and restored in id order, so "oldest" is "smallest".  The *)
(* text of an Error is abstracted to what it tells: Refused (nothing was   *)
(* sent), Failed (the call returned an error) or Interrupted (unknown).    *)
(***************************************************************************)
EXTENDS Integers, FiniteSets

CONSTANTS
    Ops,            \* operations the user may ever enqueue
    Persistable,    \* those PersistedOp can express
    Severe,         \* those whose guest carries a Severe preflight risk
    Require,        \* [Ops -> Nat]: approvals a policy asks for, 0: no gate
    Approvers,      \* people verify_callback lets through
    HitlTTL,        \* DEFAULT_HITL_TTL_SECS, in clock ticks
    WaitTTL,        \* the two minutes the waiting task allows
    SuccessTTL,     \* SUCCESS_TTL_SECS, in clock ticks
    ErrorKeep, HardCap,
    MaxSessions,    \* bound: how often the TUI is started
    MaxPresses,     \* bound: how often C is pressed
    MaxFaults       \* bound: SQLite errors

ASSUME OpsAssumption == Ops \subseteq Nat /\ IsFiniteSet(Ops)
ASSUME KindsAssumption ==
    Persistable \subseteq Ops /\ Severe \subseteq Ops /\ Require \in [Ops -> Nat]
ASSUME BoundsAssumption ==
    /\ {HitlTTL, WaitTTL, SuccessTTL, ErrorKeep, HardCap} \subseteq Nat
    /\ {MaxSessions, MaxPresses, MaxFaults} \subseteq Nat
(* Both are two minutes: DEFAULT_HITL_TTL_SECS and the timeout of the task. *)
ASSUME WaitAssumption == HitlTTL <= WaitTTL

VARIABLES
    op_queue,       \* [Ops -> Statuses]: AppState.op_queue
    queue_dirty,    \* AppState.queue_dirty
    forced,         \* ops whose clone carries bypass_preflight
    age,            \* [Ops -> 0..SuccessTTL]: ticks since created_at_secs
    fresh,          \* ops not enqueued yet
    phase,          \* where the event loop is
    seq, written,   \* QUEUE_SEQ, QUEUE_WRITTEN
    watch,          \* the snapshot in the watch channel not seen yet
    writing,        \* the snapshot queue_writer is saving
    saving,         \* the write-ahead ExecuteQueue is waiting for
    disk,           \* the op_queue table
    stage,          \* [Ops -> Stages]: the task that has the op
    batch,          \* [Ops -> Nat]: the dispatch whose task runs the op
    orphans,        \* ops of tasks whose session is over
    msg,            \* [Ops -> Messages]: DataMsg on its way to the loop
    registered,     \* ops with an entry in HitlCoordinator.pending
    approvers,      \* [Ops -> SUBSET Approvers]: PendingTuiEntry.approvers
    ttl, timer,     \* ticks left of expires_at and of the task's timeout
    verdict,        \* [Ops -> Verdicts]: what the oneshot carries
    sent, outcome,  \* what Proxmox saw and answered
    pressed,        \* history: approvers who pressed Approve this session
    told,           \* history: ops Telegram was told are approved, in their time
    glass,          \* history: ops forced by the user of this session
    refused,        \* history: ops whose write-ahead failed
    sessions, presses, faults

loopVars == <<op_queue, queue_dirty, forced, age, fresh, phase>>
storeVars == <<seq, written, watch, writing, saving, disk>>
taskVars == <<stage, batch, orphans, msg>>
hitlVars == <<registered, approvers, ttl, timer, verdict>>
pveVars == <<sent, outcome>>
ghostVars == <<pressed, told, glass, refused>>
budgets == <<sessions, presses, faults>>
vars == <<loopVars, storeVars, taskVars, hitlVars, pveVars, ghostVars, budgets>>

----------------------------------------------------------------------------
Errors == {"Refused", "Failed", "Interrupted"}
Statuses == {"absent", "Pending", "Running", "Success"} \cup Errors
Phases == {"down", "run", "saving", "closing"}
Stages == {"idle", "ask", "sending", "waiting", "timedout", "ready", "called"}
Messages == {"none", "approved", "Success", "Failed", "Refused"}
Verdicts == {"none", "yes", "no"}
Snapshots == [seq : Nat, rows : [Ops -> Statuses]]
WriteAheads == [seq : Nat, rows : [Ops -> Statuses], ops : SUBSET Ops, skip_hitl : BOOLEAN]

Nothing == [o \in Ops |-> "absent"]
NoSnapshot == [seq |-> 0, rows |-> Nothing]
NoWriteAhead == [seq |-> 0, rows |-> Nothing, ops |-> {}, skip_hitl |-> FALSE]

Present(q) == {o \in Ops : q[o] # "absent"}
With(q, S, s) == [o \in Ops |-> IF o \in S THEN s ELSE q[o]]

(* to_persisted: what a snapshot keeps of the queue. *)
Persisted(q) == [o \in Ops |-> IF o \in Persistable THEN q[o] ELSE "absent"]
RestoredAsPending(rows) ==
    [o \in Ops |-> IF rows[o] = "Running" THEN "Pending" ELSE rows[o]]
(* from_persisted: an op that was Running has an unknown outcome. *)
Restored(rows) == [o \in Ops |-> IF rows[o] = "Running" THEN "Interrupted" ELSE rows[o]]

Executable == {o \in Ops : op_queue[o] = "Pending"}

----------------------------------------------------------------------------
Newest(S, n) == {o \in S : Cardinality({p \in S : p >= o}) <= n}
(* The first n of a set of ops in queue order. *)
Oldest(S, n) == {o \in S : Cardinality({p \in S : p <= o}) <= n}

DropStaleSuccess(q) ==
    With(q, {o \in Ops : q[o] = "Success" /\ age[o] >= SuccessTTL}, "absent")
CapErrors(q) ==
    LET errors == {o \in Ops : q[o] \in Errors}
    IN  With(q, Oldest(errors, Cardinality(errors) - ErrorKeep), "absent")
CapRest(q) ==
    LET done == {o \in Present(q) : q[o] # "Pending"}
    IN  With(q, Oldest(done, Cardinality(Present(q)) - HardCap), "absent")

CapAll(q) == With(q, Oldest(Present(q), Cardinality(Present(q)) - HardCap), "absent")
garbage_collect(q) == CapAll(CapRest(CapErrors(DropStaleSuccess(q))))

----------------------------------------------------------------------------
Init ==
    /\ op_queue = Nothing /\ queue_dirty = FALSE /\ forced = {}
    /\ age = [o \in Ops |-> 0] /\ fresh = Ops /\ phase = "down"
    /\ seq = 0 /\ written = 0 /\ disk = Nothing
    /\ watch = NoSnapshot /\ writing = NoSnapshot /\ saving = NoWriteAhead
    /\ stage = [o \in Ops |-> "idle"] /\ batch = [o \in Ops |-> 0]
    /\ orphans = {} /\ msg = [o \in Ops |-> "none"]
    /\ registered = {} /\ approvers = [o \in Ops |-> {}]
    /\ ttl = [o \in Ops |-> 0] /\ timer = [o \in Ops |-> 0]
    /\ verdict = [o \in Ops |-> "none"]
    /\ sent = [o \in Ops |-> 0] /\ outcome = [o \in Ops |-> "none"]
    /\ pressed = [o \in Ops |-> {}] /\ told = {} /\ glass = {} /\ refused = {}
    /\ sessions = 0 /\ presses = 0 /\ faults = 0

----------------------------------------------------------------------------
(* Sessions.                                                               *)

(* Ops a task that outlives its session still has to run. *)
Surviving == {o \in Ops : stage[o] \in {"ready", "called"}}

(* What is left of bypass_preflight: a running task keeps its clone. *)
KeepsForce == forced
ForceLeft == forced \cap Surviving

(* run(): restore the queue; a database that cannot be read leaves it
   empty.  bypass_preflight is not persisted. *)
OpenQueue ==
    /\ sessions < MaxSessions
    /\ sessions' = sessions + 1
    /\ \/ op_queue' = Restored(disk) /\ UNCHANGED faults
       \/ faults < MaxFaults /\ faults' = faults + 1 /\ op_queue' = Nothing
    /\ phase' = "run" /\ queue_dirty' = FALSE
    /\ pressed' = [o \in Ops |-> IF o \in Surviving THEN pressed[o] ELSE {}]
    /\ told' = told \cap Surviving /\ refused' = {}
    /\ UNCHANGED <<age, fresh, disk, pveVars, presses>>

Start ==
    /\ phase = "down"
    /\ OpenQueue
    /\ forced' = {} /\ glass' = {}
    /\ UNCHANGED <<storeVars, taskVars, hitlVars>>

(* What a process takes with it when it ends, however it ends. *)
ProcessGone ==
    /\ phase' = "down" /\ op_queue' = Nothing /\ queue_dirty' = FALSE /\ forced' = {}
    /\ seq' = 0 /\ written' = 0
    /\ watch' = NoSnapshot /\ writing' = NoSnapshot /\ saving' = NoWriteAhead
    /\ stage' = [o \in Ops |-> "idle"] /\ batch' = [o \in Ops |-> 0]
    /\ orphans' = {} /\ msg' = [o \in Ops |-> "none"]
    /\ registered' = {} /\ approvers' = [o \in Ops |-> {}]
    /\ ttl' = [o \in Ops |-> 0] /\ timer' = [o \in Ops |-> 0]
    /\ verdict' = [o \in Ops |-> "none"]
    /\ UNCHANGED <<age, fresh, disk, pveVars, ghostVars, budgets>>

Crash == phase # "down" /\ ProcessGone

(* q, SIGTERM or a profile switch breaks the loop: the HITL poller is
   aborted and the watch channel closed.  The loop has flushed the queue at
   the top of the iteration. *)
Quit ==
    /\ phase = "run" /\ ~queue_dirty
    /\ phase' = "closing"
    /\ UNCHANGED <<op_queue, queue_dirty, forced, age, fresh>>
    /\ UNCHANGED <<storeVars, taskVars, hitlVars, pveVars, ghostVars, budgets>>

WriterIdle == writing = NoSnapshot
WriterDone == watch = NoSnapshot /\ writing = NoSnapshot

Exit == phase = "closing" /\ WriterDone /\ ProcessGone

(* main re-enters run() for another profile and later for this one again:
   the same process, so the statics and the running tasks stay, with nobody
   behind their channels. *)
Return ==
    /\ phase = "closing" /\ WriterDone
    /\ OpenQueue
    /\ forced' = ForceLeft /\ glass' = glass \cap Surviving
    /\ stage' = [o \in Ops |-> IF o \in Surviving THEN stage[o] ELSE "idle"]
    /\ orphans' = Surviving
    /\ msg' = [o \in Ops |-> "none"]
    /\ registered' = {} /\ approvers' = [o \in Ops |-> {}]
    /\ ttl' = [o \in Ops |-> 0] /\ timer' = [o \in Ops |-> 0]
    /\ verdict' = [o \in Ops |-> "none"]
    /\ UNCHANGED <<seq, written, watch, writing, saving, batch>>

----------------------------------------------------------------------------
(* The event loop.  It flushes a dirty queue before it looks at the next   *)
(* event, and it waits for a write-ahead.                                  *)

Idle == phase = "run" /\ ~queue_dirty

Flush ==
    /\ phase = "run" /\ queue_dirty
    /\ seq' = seq + 1
    /\ watch' = [seq |-> seq + 1, rows |-> Persisted(op_queue)]
    /\ queue_dirty' = FALSE
    /\ UNCHANGED <<op_queue, forced, age, fresh, phase, written, writing, saving, disk>>
    /\ UNCHANGED <<taskVars, hitlVars, pveVars, ghostVars, budgets>>

(* QueuedOp::new and new_force: a new op is Pending; only its description and
   its diff depend on the action. *)
NewOps(q, S) == With(q, S, "Pending")

(* EnqueueOperation, EnqueueBatchOperation, MoveDisk, EvacuateNode...: new
   ops in id order, with force under ConfirmForce. *)
Enqueue(S, force) ==
    /\ Idle /\ S # {} /\ S \subseteq fresh
    /\ \A o \in S, p \in fresh \ S : o < p
    /\ op_queue' = NewOps(op_queue, S)
    /\ forced' = IF force THEN forced \cup S ELSE forced
    /\ glass' = IF force THEN glass \cup S ELSE glass
    /\ fresh' = fresh \ S /\ queue_dirty' = TRUE
    /\ UNCHANGED <<age, phase, pressed, told, refused>>
    /\ UNCHANGED <<storeVars, taskVars, hitlVars, pveVars, budgets>>

(* DequeueOperation: whatever the status of the entry. *)
Dequeue(o) ==
    /\ Idle /\ op_queue[o] # "absent"
    /\ op_queue' = [op_queue EXCEPT ![o] = "absent"] /\ queue_dirty' = TRUE
    /\ UNCHANGED <<forced, age, fresh, phase>>
    /\ UNCHANGED <<storeVars, taskVars, hitlVars, pveVars, ghostVars, budgets>>

(* The sweep of Action::Tick. *)
GarbageCollect ==
    /\ Idle /\ garbage_collect(op_queue) # op_queue
    /\ op_queue' = garbage_collect(op_queue) /\ queue_dirty' = TRUE
    /\ UNCHANGED <<forced, age, fresh, phase>>
    /\ UNCHANGED <<storeVars, taskVars, hitlVars, pveVars, ghostVars, budgets>>

(* dispatch_side_effect(ExecuteQueue): snapshot the queue as it is now and
   wait for the save. *)
BeginWriteAhead(q, ops, skip) ==
    /\ phase' = "saving" /\ seq' = seq + 1
    /\ saving' = [seq |-> seq + 1, rows |-> Persisted(q), ops |-> ops, skip_hitl |-> skip]

ExecuteQueue ==
    /\ Idle /\ presses < MaxPresses /\ presses' = presses + 1
    /\ op_queue' = With(op_queue, Executable, "Running") /\ queue_dirty' = TRUE
    /\ BeginWriteAhead(op_queue', Executable, FALSE)
    /\ UNCHANGED <<forced, age, fresh, written, watch, writing, disk, sessions, faults>>
    /\ UNCHANGED <<taskVars, hitlVars, pveVars, ghostVars>>

(* HitlApproved(true): the effect is dispatched again, past the gate,
   whether or not the op is still in the queue. *)
ApprovalReceived(o) ==
    /\ Idle /\ msg[o] = "approved"
    /\ msg' = [msg EXCEPT ![o] = "none"]
    /\ BeginWriteAhead(op_queue, {o}, TRUE)
    /\ UNCHANGED <<op_queue, queue_dirty, forced, age, fresh, written, watch, writing, disk>>
    /\ UNCHANGED <<stage, batch, orphans, hitlVars, pveVars, ghostVars, budgets>>

QueueOpStatusChanged(o) ==
    /\ Idle /\ msg[o] \notin {"none", "approved"}
    /\ msg' = [msg EXCEPT ![o] = "none"]
    /\ \/ /\ op_queue[o] # "absent"
          /\ op_queue' = [op_queue EXCEPT ![o] = msg[o]] /\ queue_dirty' = TRUE
       \/ op_queue[o] = "absent" /\ UNCHANGED <<op_queue, queue_dirty>>
    /\ UNCHANGED <<forced, age, fresh, phase, stage, batch, orphans>>
    /\ UNCHANGED <<storeVars, hitlVars, pveVars, ghostVars, budgets>>

----------------------------------------------------------------------------
(* Persistence.                                                            *)

(* save_queue_snapshot: a full overwrite under the QUEUE_WRITTEN mutex, and
   nothing when a newer snapshot is on disk. *)
SaveAnyOrder(snap) == disk' = snap.rows /\ written' = snap.seq

Save(snap) ==
    IF snap.seq <= written
    THEN UNCHANGED <<disk, written>>
    ELSE disk' = snap.rows /\ written' = snap.seq

SaveFails == faults < MaxFaults /\ faults' = faults + 1

WriterTakes ==
    /\ watch # NoSnapshot /\ writing = NoSnapshot
    /\ writing' = watch /\ watch' = NoSnapshot
    /\ UNCHANGED <<seq, written, saving, disk>>
    /\ UNCHANGED <<loopVars, taskVars, hitlVars, pveVars, ghostVars, budgets>>

WriterSaves ==
    /\ writing # NoSnapshot /\ writing' = NoSnapshot
    /\ \/ Save(writing) /\ UNCHANGED faults
       \/ SaveFails /\ UNCHANGED <<disk, written>>
    /\ UNCHANGED <<seq, watch, saving, sessions, presses>>
    /\ UNCHANGED <<loopVars, taskVars, hitlVars, pveVars, ghostVars>>

(* The write-ahead is on disk: gated ops go to a task of their own, the rest
   to one task that runs them in order. *)
Gated(o) == ~saving.skip_hitl /\ Require[o] > 0

WriteAheadSaved ==
    /\ phase = "saving" /\ phase' = "run"
    /\ Save(saving)
    /\ stage' = [o \in Ops |-> IF o \notin saving.ops THEN stage[o]
                               ELSE IF Gated(o) THEN "ask" ELSE "ready"]
    /\ batch' = [o \in Ops |-> IF o \in saving.ops THEN saving.seq ELSE batch[o]]
    /\ saving' = NoWriteAhead
    /\ UNCHANGED <<op_queue, queue_dirty, forced, age, fresh, seq, watch, writing>>
    /\ UNCHANGED <<orphans, msg, hitlVars, pveVars, ghostVars, budgets>>

(* Fail closed: nothing is dispatched, the ops stay Running in memory. *)
WriteAheadFails ==
    /\ phase = "saving" /\ phase' = "run"
    /\ SaveFails
    /\ refused' = refused \cup saving.ops
    /\ saving' = NoWriteAhead
    /\ UNCHANGED <<op_queue, queue_dirty, forced, age, fresh, seq, written, watch, writing, disk>>
    /\ UNCHANGED <<taskVars, hitlVars, pveVars, pressed, told, glass, sessions, presses>>

----------------------------------------------------------------------------
(* The approval task of check_hitl and the coordinator.                    *)

(* A task's last message; nobody receives an orphan's. *)
Finish(o, m) ==
    /\ stage' = [stage EXCEPT ![o] = "idle"]
    /\ msg' = IF o \in orphans THEN msg ELSE [msg EXCEPT ![o] = m]
    /\ orphans' = orphans \ {o}
    /\ batch' = [batch EXCEPT ![o] = 0]

(* HitlCoordinator.pending.remove: the entry goes with its fields. *)
Remove(o) ==
    /\ registered' = registered \ {o}
    /\ approvers' = [approvers EXCEPT ![o] = {}]
    /\ ttl' = [ttl EXCEPT ![o] = 0]

Register(o) ==
    /\ stage[o] = "ask"
    /\ stage' = [stage EXCEPT ![o] = "sending"]
    /\ registered' = registered \cup {o}
    /\ approvers' = [approvers EXCEPT ![o] = {}]
    /\ ttl' = [ttl EXCEPT ![o] = HitlTTL]
    /\ UNCHANGED <<batch, orphans, msg, timer, verdict>>
    /\ UNCHANGED <<loopVars, storeVars, pveVars, ghostVars, budgets>>

(* No Telegram configured, or request_approval returned an error. *)
RequestFails(o) ==
    /\ stage[o] \in {"ask", "sending"}
    /\ Finish(o, "Refused") /\ Remove(o)
    /\ verdict' = [verdict EXCEPT ![o] = "none"]
    /\ UNCHANGED <<timer, loopVars, storeVars, pveVars, ghostVars, budgets>>

RequestSentLate(o) ==
    /\ stage[o] = "sending"
    /\ stage' = [stage EXCEPT ![o] = "waiting"]
    /\ timer' = [timer EXCEPT ![o] = WaitTTL - 1]
    /\ UNCHANGED <<batch, orphans, msg, registered, approvers, ttl, verdict>>
    /\ UNCHANGED <<loopVars, storeVars, pveVars, ghostVars, budgets>>

RequestSent(o) ==
    /\ stage[o] = "sending"
    /\ stage' = [stage EXCEPT ![o] = "waiting"]
    /\ timer' = [timer EXCEPT ![o] = WaitTTL]
    /\ UNCHANGED <<batch, orphans, msg, registered, approvers, ttl, verdict>>
    /\ UNCHANGED <<loopVars, storeVars, pveVars, ghostVars, budgets>>

(* The oneshot: a verdict nobody waits for any more is dropped. *)
Send(o, v) == verdict' = IF stage[o] \in {"sending", "waiting"}
                         THEN [verdict EXCEPT ![o] = v] ELSE verdict

Expired(o) == ttl[o] = 0
AnyVote(o, S) == S # {}
QuorumMet(o, S) == Cardinality(S) >= IF Require[o] > 1 THEN Require[o] ELSE 1

(* apply_callback, for a press the poller received and verified.  It reads the
   time before it waits for the lock: an entry that expired meanwhile is taken
   for expired or, by a time read before, for live. *)
ApplyApprove(o, a) ==
    LET votes == approvers[o] \cup {a}
    IN  \/ Expired(o) /\ Remove(o) /\ UNCHANGED <<verdict, told>>
        \/ /\ ~QuorumMet(o, votes)
           /\ approvers' = [approvers EXCEPT ![o] = votes]
           /\ UNCHANGED <<registered, ttl, verdict, told>>
        \/ /\ QuorumMet(o, votes)
           /\ Remove(o) /\ Send(o, "yes")
           /\ told' = IF Expired(o) THEN told ELSE told \cup {o}

ApplyDeny(o) ==
    /\ Remove(o)
    /\ (Expired(o) /\ UNCHANGED verdict) \/ Send(o, "no")
    /\ UNCHANGED told

Callback(o, a, approve) ==
    /\ phase \in {"run", "saving"} /\ o \in registered
    /\ IF approve THEN ApplyApprove(o, a) ELSE ApplyDeny(o)
    /\ pressed' = IF approve THEN [pressed EXCEPT ![o] = @ \cup {a}] ELSE pressed
    /\ UNCHANGED <<timer, glass, refused>>
    /\ UNCHANGED <<loopVars, storeVars, taskVars, pveVars, budgets>>

VerdictReceived(o) ==
    /\ stage[o] = "waiting" /\ verdict[o] # "none"
    /\ Finish(o, IF verdict[o] = "yes" THEN "approved" ELSE "Refused")
    /\ verdict' = [verdict EXCEPT ![o] = "none"]
    /\ timer' = [timer EXCEPT ![o] = 0]
    /\ UNCHANGED <<registered, approvers, ttl>>
    /\ UNCHANGED <<loopVars, storeVars, pveVars, ghostVars, budgets>>

(* The timeout, or the sender dropped with its expired entry. *)
WaitOver(o) == timer[o] = 0 \/ o \notin registered

TimesOut(o) ==
    /\ stage[o] = "waiting" /\ verdict[o] = "none" /\ WaitOver(o)
    /\ stage' = [stage EXCEPT ![o] = "timedout"]
    /\ UNCHANGED <<batch, orphans, msg, hitlVars>>
    /\ UNCHANGED <<loopVars, storeVars, pveVars, ghostVars, budgets>>

Unregister(o) ==
    /\ stage[o] = "timedout"
    /\ Finish(o, "Refused") /\ Remove(o)
    /\ timer' = [timer EXCEPT ![o] = 0]
    /\ UNCHANGED <<verdict, loopVars, storeVars, pveVars, ghostVars, budgets>>

----------------------------------------------------------------------------
(* The execute_queue task: its ops one after the other.                    *)

MyTurn(o) ==
    /\ stage[o] = "ready"
    /\ \A p \in Ops : p < o /\ batch[p] = batch[o] => stage[p] \notin {"ready", "called"}

RefuseEndsTask(o) ==
    /\ MyTurn(o)
    /\ stage' = [p \in Ops |-> IF batch[p] = batch[o] /\ stage[p] = "ready" THEN "idle" ELSE stage[p]]
    /\ msg' = [msg EXCEPT ![o] = "Refused"]
    /\ UNCHANGED <<batch, orphans>>
    /\ UNCHANGED <<loopVars, storeVars, hitlVars, pveVars, ghostVars, budgets>>

(* A failed guest lookup, a Severe risk, or an action the queue cannot run. *)
RefuseOp(o) ==
    /\ MyTurn(o)
    /\ Finish(o, "Refused")
    /\ UNCHANGED <<loopVars, storeVars, hitlVars, pveVars, ghostVars, budgets>>

PreflightAllows(o) == o \in forced \/ o \notin Severe

CallProxmox(o) ==
    /\ MyTurn(o) /\ PreflightAllows(o)
    /\ stage' = [stage EXCEPT ![o] = "called"]
    /\ sent' = [sent EXCEPT ![o] = @ + 1]
    /\ UNCHANGED <<batch, orphans, msg, outcome>>
    /\ UNCHANGED <<loopVars, storeVars, hitlVars, ghostVars, budgets>>

CallReturns(o, ok) ==
    /\ stage[o] = "called"
    /\ outcome' = [outcome EXCEPT ![o] = IF ok THEN "ok" ELSE "err"]
    /\ Finish(o, IF ok THEN "Success" ELSE "Failed")
    /\ UNCHANGED <<loopVars, storeVars, hitlVars, sent, ghostVars, budgets>>

----------------------------------------------------------------------------
Down(n) == IF n = 0 THEN 0 ELSE n - 1

Tick ==
    /\ age' = [o \in Ops |-> IF o \in fresh \/ age[o] = SuccessTTL THEN age[o] ELSE age[o] + 1]
    /\ ttl' = [o \in Ops |-> Down(ttl[o])]
    /\ timer' = [o \in Ops |-> Down(timer[o])]
    /\ UNCHANGED <<op_queue, queue_dirty, forced, fresh, phase>>
    /\ UNCHANGED <<storeVars, taskVars, registered, approvers, verdict>>
    /\ UNCHANGED <<pveVars, ghostVars, budgets>>

TaskStep(o) ==
    \/ Register(o) \/ RequestFails(o) \/ RequestSent(o)
    \/ VerdictReceived(o) \/ TimesOut(o) \/ Unregister(o)
    \/ RefuseOp(o) \/ CallProxmox(o)
    \/ \E ok \in BOOLEAN : CallReturns(o, ok)

Next ==
    \/ Start \/ Crash \/ Quit \/ Exit \/ Return
    \/ Flush \/ GarbageCollect \/ ExecuteQueue
    \/ \E S \in SUBSET Ops, force \in BOOLEAN : Enqueue(S, force)
    \/ \E o \in Ops : Dequeue(o) \/ ApprovalReceived(o) \/ QueueOpStatusChanged(o)
    \/ WriterTakes \/ WriterSaves \/ WriteAheadSaved \/ WriteAheadFails
    \/ \E o \in Ops : TaskStep(o)
    \/ \E o \in Ops, a \in Approvers, approve \in BOOLEAN : Callback(o, a, approve)
    \/ Tick

Spec == Init /\ [][Next]_vars

(* The runtime keeps polling its tasks and the loop, writes end, answers and
   time come.  Nobody has to press a key or to answer in Telegram. *)
Fairness ==
    /\ WF_vars(Flush) /\ WF_vars(WriterTakes) /\ WF_vars(WriterSaves)
    /\ WF_vars(WriteAheadSaved \/ WriteAheadFails)
    /\ WF_vars(Exit \/ Return) /\ WF_vars(Tick)
    /\ \A o \in Ops :
         /\ WF_vars(TaskStep(o))
         /\ WF_vars(ApprovalReceived(o) \/ QueueOpStatusChanged(o))

FairSpec == Spec /\ Fairness

----------------------------------------------------------------------------
(* Properties.                                                             *)

LoopTypes ==
    /\ op_queue \in [Ops -> Statuses] /\ queue_dirty \in BOOLEAN /\ phase \in Phases
    /\ forced \subseteq Ops /\ fresh \subseteq Ops /\ age \in [Ops -> Nat]
StoreTypes ==
    /\ disk \in [Ops -> Statuses] /\ seq \in Nat /\ written \in Nat
    /\ watch \in Snapshots /\ writing \in Snapshots /\ saving \in WriteAheads
TaskTypes ==
    /\ stage \in [Ops -> Stages] /\ batch \in [Ops -> Nat] /\ msg \in [Ops -> Messages]
    /\ orphans \subseteq Ops
HitlTypes ==
    /\ registered \subseteq Ops /\ approvers \in [Ops -> SUBSET Approvers]
    /\ ttl \in [Ops -> Nat] /\ timer \in [Ops -> Nat] /\ verdict \in [Ops -> Verdicts]
WorldTypes ==
    /\ sent \in [Ops -> Nat] /\ outcome \in [Ops -> {"none", "ok", "err"}]
    /\ pressed \in [Ops -> SUBSET Approvers]
    /\ told \subseteq Ops /\ glass \subseteq Ops /\ refused \subseteq Ops
    /\ sessions \in Nat /\ presses \in Nat /\ faults \in Nat

(* Types of the queue, its snapshots, its tasks and the coordinator. *)
TypeOK == LoopTypes /\ StoreTypes /\ TaskTypes /\ HitlTypes /\ WorldTypes

(* No task has the op, no message is about it, and Proxmox has not seen it. *)
Untouched(o) == sent[o] = 0 /\ stage[o] = "idle" /\ msg[o] = "none"

(* Snapshots are numbered in the order they are taken, and the write-ahead
   the loop waits for is the newest. *)
SeqInv ==
    /\ written <= seq /\ watch.seq <= seq /\ writing.seq <= seq
    /\ phase = "saving" =>
         saving.seq = seq /\ written < seq /\ watch.seq < seq /\ writing.seq < seq
    /\ phase # "saving" => saving = NoWriteAhead
    /\ phase = "down" => watch = NoSnapshot /\ writing = NoSnapshot

(* An op is in one place at a time: with a task, in a message, or waiting for
   a write-ahead. *)
InOnePlace(o) ==
    /\ sent[o] <= 1
    /\ stage[o] # "idle" => msg[o] = "none"
    /\ stage[o] = "called" => sent[o] = 1 /\ outcome[o] = "none"
    /\ stage[o] \notin {"idle", "called"} => sent[o] = 0
    /\ msg[o] \in {"approved", "Refused"} => sent[o] = 0
    /\ msg[o] = "Success" => outcome[o] = "ok"
    /\ msg[o] = "Failed" => outcome[o] = "err"
    /\ outcome[o] # "none" => sent[o] = 1
    /\ o \in saving.ops => Untouched(o)

TaskInv == \A o \in Ops : InOnePlace(o)

(* Whatever could make an op executable again finds it untouched: a snapshot
   that says Pending is either superseded or about such an op. *)
SafelyPending(o) ==
    /\ op_queue[o] = "Pending" =>
         /\ Untouched(o) /\ o \notin saving.ops
         /\ "Refused" \notin {disk[o], watch.rows[o], writing.rows[o], saving.rows[o]}
    /\ disk[o] = "Pending" => Untouched(o)
    /\ watch.rows[o] = "Pending" /\ watch.seq > written => Untouched(o)
    /\ writing.rows[o] = "Pending" /\ writing.seq > written => Untouched(o)
    /\ saving.rows[o] = "Pending" => Untouched(o) /\ o \notin saving.ops

PendingInv == \A o \in Ops : SafelyPending(o)

Tells(rows, o) ==
    /\ rows[o] = "Refused" => Untouched(o) /\ o \notin saving.ops
    /\ rows[o] = "Success" => outcome[o] = "ok"
    /\ rows[o] = "Failed" => outcome[o] = "err"

(* Every copy of the queue, also one that is still to be written, is true. *)
TruthInv ==
    \A o \in Ops :
        /\ Tells(op_queue, o) /\ Tells(disk, o)
        /\ Tells(watch.rows, o) /\ Tells(writing.rows, o) /\ Tells(saving.rows, o)

FreshInv ==
    \A o \in fresh :
        /\ Untouched(o) /\ o \notin saving.ops
        /\ op_queue[o] = "absent" /\ disk[o] = "absent"
        /\ watch.rows[o] = "absent" /\ writing.rows[o] = "absent"
        /\ saving.rows[o] = "absent"

Approved(o) == Cardinality(pressed[o]) >= Require[o]

(* Wherever an op is past the gate, its approvers pressed in this process. *)
PastGate(o) ==
    \/ verdict[o] = "yes" \/ msg[o] = "approved" \/ stage[o] \in {"ready", "called"}
    \/ o \in saving.ops /\ saving.skip_hitl

GateInv ==
    \A o \in Ops :
        /\ IsFiniteSet(pressed[o]) /\ approvers[o] \subseteq pressed[o]
        /\ PastGate(o) => Approved(o)
        /\ phase = "down" => approvers[o] = {} /\ ~PastGate(o)

(* An entry of the coordinator expires before the task that waits for it gives
   up; an op whose approvers were told so is past asking. *)
Asked(o) ==
    /\ o \in registered =>
         \/ stage[o] = "sending" /\ ttl[o] <= HitlTTL
         \/ stage[o] = "waiting" /\ ttl[o] <= timer[o]
         \/ stage[o] = "timedout" /\ ttl[o] = 0
    /\ verdict[o] # "none" => stage[o] \in {"sending", "waiting"} /\ o \notin registered
    /\ o \in told =>
         /\ stage[o] \in {"idle", "ready", "called"} \/ verdict[o] = "yes"
         /\ stage[o] \notin {"ask", "timedout"}
         /\ op_queue[o] # "Pending" /\ o \notin fresh /\ o \notin registered
         /\ o \in saving.ops => saving.skip_hitl

AskInv == \A o \in Ops : Asked(o)

(* What a restart would show of an entry. *)
AfterRestart(s) == IF s = "Running" THEN "Interrupted" ELSE s
Kept(rows) == \A o \in Ops \ Persistable : rows[o] = "absent"

(* The newest snapshot that is or will be on disk. *)
Latest == IF watch.seq > written THEN watch.rows
          ELSE IF writing.seq > written THEN writing.rows ELSE disk

(* While no write failed, a queue that is not dirty is in its newest snapshot,
   and the writer never overtakes it. *)
SaveInv ==
    /\ Kept(disk) /\ Kept(watch.rows) /\ Kept(writing.rows) /\ Kept(saving.rows)
    /\ watch # NoSnapshot => watch.seq > writing.seq
    /\ phase = "closing" => ~queue_dirty
    /\ phase = "saving" => saving.rows = Persisted(op_queue)
    /\ faults = 0 /\ phase \in {"run", "closing"} /\ ~queue_dirty =>
         \A o \in Ops : AfterRestart(Latest[o]) = AfterRestart(Persisted(op_queue)[o])

(* The inductive invariant of the queue: the order of its snapshots, the
   single place of an op, what every copy of it may say, and what let it pass
   the gates. *)
QueueInv ==
    SeqInv /\ TaskInv /\ PendingInv /\ TruthInv /\ FreshInv /\ GateInv /\ forced \subseteq glass

(* A queued operation reaches Proxmox at most once: not again after a crash,
   a clean exit, a profile switch, a second press of C or an approval
   (queue_failsafe_test.rs: "a crash cannot turn into a double-execute"). *)
SentAtMostOnce == \A o \in Ops : sent[o] <= 1

(* What the status says, on screen and on disk, is what Proxmox saw: Pending
   and Refused mean nothing was sent, Success that Proxmox accepted it, Failed
   that the call was made and returned an error. *)
QueueTellsTruth ==
    \A q \in {op_queue, disk}, o \in Ops :
        /\ q[o] \in {"Pending", "Refused"} => sent[o] = 0
        /\ q[o] = "Success" => outcome[o] = "ok"
        /\ q[o] = "Failed" => outcome[o] = "err"

(* An op is called only after as many different people as its policy asks for
   pressed Approve in the session that executes it (check_hitl and
   apply_callback). *)
CallsAreApproved ==
    [][\A o \in Ops : sent'[o] # sent[o] => Cardinality(pressed[o]) >= Require[o]]_vars

(* A guest with a Severe risk is touched only when the user of this session
   broke the glass: the override does not survive a restart
   (from_persisted). *)
GlassBreaksOnce ==
    [][\A o \in Severe : sent'[o] # sent[o] => o \in glass]_vars

(* Approvers who read "Approved" are not contradicted by the timeout of the
   task that asked them, when their press was applied before the request
   expired (handle_tui_callback_query against the task's two minutes).  One
   whose time was read before and applied after can be. *)
ApprovedIsNotTimedOut == \A o \in told : stage[o] # "timedout"

(* After a clean exit the next session shows the queue as this one left it,
   whatever snapshots the writer and the write-ahead were racing with. *)
CleanExitSaves ==
    [][Exit \/ Return => faults > 0 \/ Restored(disk) = Restored(Persisted(op_queue))]_vars

(* The sweep gives up Pending ops only when nothing else is left to drop, and
   leaves at most HardCap entries (garbage_collect). *)
SweepSparesPending ==
    [][GarbageCollect =>
         /\ Cardinality(Present(op_queue')) <= HardCap
         /\ \A o \in Executable : op_queue'[o] = "absent" =>
               \A p \in Present(op_queue') : op_queue[p] = "Pending" /\ o < p]_vars

(* An op that was dispatched gets an outcome the user sees, unless a write to
   the database failed. *)
RunningResolves ==
    \A o \in Ops : op_queue[o] = "Running" ~> (op_queue[o] # "Running" \/ faults > 0)

(* A call Proxmox sees was approved by as many people as its policy asks for
   and, over a Severe risk, forced in this session. *)
CallsAreAllowed == CallsAreApproved /\ GlassBreaksOnce

(* No pending operation is lost by an exit or by the sweep. *)
PendingIsKept == CleanExitSaves /\ SweepSparesPending
============================================================================
