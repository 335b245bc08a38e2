------------------------------- MODULE CliRun -------------------------------
(***************************************************************************)
(* One run of the command line: the --secure gate, then the command's      *)
(* program step by step, against a cluster whose requests fail, whose      *)
(* tasks end well, badly or not at all, and whose guests and nodes move,   *)
(* until the process exits with a code.                                    *)
(***************************************************************************)
EXTENDS CliFlags, BatchRun, PatchRollout, Preflight

VARIABLES
  run,     \* the command line: command, flags, and the locks it runs under
  todo,    \* the steps the command still has to do
  task,    \* the task PVE started last: "none", "running", "ok", "failed"
  out      \* what the run has done: see NoOutput

cmdvars == <<run, todo, task, out>>
vars == <<run, todo, task, out, host, up, kind, moves, faults, look, bt, pt>>

Running == -1

Steps == UNION {{p[i] : i \in DOMAIN p} : p \in UNION {Programs[c] : c \in DOMAIN Programs}}

NoOutput ==
  [sent |-> {},           \* writes that may have reached PVE
   marked |-> FALSE,      \* a failure that makes the command exit 1
   waited |-> FALSE,      \* it has waited for the last task it started
   refused |-> FALSE,     \* the command ended by its own refusal
   exit |-> Running]

TypeOK ==
  /\ LookupTypeOK /\ BatchTypeOK /\ PatchTypeOK
  /\ run \in [cmd : DOMAIN Programs, flags : SUBSET UNION {Flags[c] : c \in DOMAIN Flags},
              policy : Policies, secure : BOOLEAN, locked : BOOLEAN]
  /\ run.flags \subseteq Flags[run.cmd] /\ todo \in Seq(Steps)
  /\ task \in {"none", "running", "ok", "failed"}
  /\ out \in [sent : SUBSET {o \in DOMAIN Verb : Mutates(o)}, marked : BOOLEAN,
              waited : BOOLEAN, refused : BOOLEAN, exit : Running..EXIT_HITL_PENDING]

Does(p, what) == \E i \in DOMAIN p : p[i].do \in what

Lookups == {"find", "find_full", "find_try", "sweep"}

(***************************************************************************)
(* Any command line with the flags the command takes.  The guest, the      *)
(* nodes and the kind are chosen where the command depends on them.        *)
(***************************************************************************)
Init ==
  \E c \in DOMAIN Programs : \E p \in Programs[c] :
    /\ run \in [cmd : {c}, flags : SUBSET (Flags[c] \ {"policy"}),
                policy : IF "policy" \in Flags[c] THEN Policies ELSE {Full},
                secure : BOOLEAN, locked : BOOLEAN]
    /\ todo = p
    /\ task = "none" /\ out = NoOutput /\ look = NoLook
    /\ bt = NoBatch /\ pt = NoRollout
    /\ host \in IF Does(p, Lookups) THEN Nodes \cup {Absent} ELSE {Absent}
    /\ up \in IF Does(p, Lookups \cup {"batch", "rollout"}) THEN SUBSET Nodes ELSE {Nodes}
    /\ kind \in IF Does(p, {"qemu", "lxc", "try_qemu"}) THEN {"qemu", "lxc"} ELSE {"qemu"}
    /\ moves = 0 /\ faults = 0

(***************************************************************************)
(* How a step ends.                                                        *)
(***************************************************************************)
Going == out.exit = Running

Next1(what) == Going /\ todo # <<>> /\ todo[1].do \in what /\ look.phase = "idle"
               /\ bt.phase = "idle" /\ pt.phase = "idle" /\ ~(run.secure /\ SecureRefuses(run.cmd))

GoOn == todo' = Tail(todo) /\ UNCHANGED <<task, out>>

Exits(code) == out' = [out EXCEPT !.exit = code] /\ UNCHANGED <<todo, task>>

Refuses(code) ==
  out' = [out EXCEPT !.exit = code, !.refused = TRUE] /\ UNCHANGED <<todo, task>>

Still == UNCHANGED <<run, worldvars, look, bt, pt>>

(***************************************************************************)
(* enforce_cli_secure_mode, before anything else.                          *)
(***************************************************************************)
SecureGate ==
  /\ Going /\ run.secure /\ SecureRefuses(run.cmd)
  /\ Refuses(8)
  /\ Still /\ UNCHANGED faults

\* require_yes, and the refusals that depend on arguments, kind and risk
Confirmed ==
  \/ Next1({"ask"}) /\ IF "yes" \in run.flags THEN GoOn ELSE Refuses(1)
  \/ /\ Next1({"ask_forced"})
     /\ IF "force" \in run.flags /\ "yes" \notin run.flags THEN Refuses(1) ELSE GoOn

Validated ==
  \/ Next1({"check"}) /\ (GoOn \/ Refuses(1))
  \/ Next1({"config"}) /\ (GoOn \/ Refuses(3))
  \/ Next1({"support"}) /\ (GoOn \/ Refuses(2))
  \/ Next1({"listed"}) /\ (GoOn \/ Refuses(NotFound))
  \/ Next1({"qemu", "lxc"}) /\ IF kind = todo[1].do THEN GoOn ELSE Refuses(1)

\* The operation enforce_preflight grades for a command.
Graded ==
  [stop_guest |-> "stop", shutdown_guest |-> "stop", restart_guest |-> "restart",
   delete_guest |-> "delete", migrate_guest |-> "migrate", move_disk |-> "move-disk"]
  @@ "disk resize" :> "resize-disk"

\* enforce_preflight.  The deep checks do not change the verdict (DeepIsAdvice).
RiskTaken ==
  /\ Next1({"risk"})
  /\ \E g \in Listing :
       IF max_level(assess(Graded[run.cmd], g)) = Severe /\ "allow_risk" \notin run.flags
       THEN Refuses(6) ELSE GoOn

Gate == (Confirmed \/ Validated \/ RiskTaken) /\ Still /\ UNCHANGED faults

(***************************************************************************)
(* Lookups: handed to GuestLookup, and its verdict acted on.               *)
(***************************************************************************)
Seek ==
  /\ Next1(Lookups)
  /\ look' = [NoLook EXCEPT !.full = todo[1].do = "find_full",
                !.phase = IF todo[1].do = "sweep" THEN "sweep_nodes" ELSE "resources"]
  /\ UNCHANGED <<cmdvars, worldvars, faults, bt, pt>>

Sought ==
  /\ Going /\ look.phase = "done"
  /\ look' = NoLook
  /\ CASE look.code = 0 -> GoOn
       [] look.code # 0 /\ todo[1].do = "find_try" -> Exits(Other)
       [] OTHER -> Exits(look.code)
  /\ UNCHANGED <<run, worldvars, faults, bt, pt>>

(***************************************************************************)
(* A call.  A write is refused by the local locks before it is sent; one   *)
(* that fails may have been carried out all the same.                      *)
(***************************************************************************)
Sends(op) ==
  out' = [out EXCEPT !.sent = IF Mutates(op) THEN @ \cup {op} ELSE @,
            !.waited = @ /\ AnswerOf[op] \notin {"task", "maybe"}]

Answered(op) ==
  /\ ~(Mutates(op) /\ run.locked)
  /\ Sends(op) /\ todo' = Tail(todo) /\ UNCHANGED faults
  /\ task' \in CASE AnswerOf[op] = "task" -> {"running"}
                 [] AnswerOf[op] = "maybe" -> {"running", "none"}
                 [] OTHER -> {task}

LockRefuses(op) == Mutates(op) /\ run.locked /\ Refuses(8) /\ UNCHANGED faults

FailedCall(op, code) ==
  /\ ~(Mutates(op) /\ run.locked) /\ Fault(code)
  /\ \E reached \in IF Mutates(op) THEN {{}, {op}} ELSE {{}} :
       out' = [out EXCEPT !.exit = code, !.sent = @ \cup reached]
  /\ UNCHANGED <<todo, task>>

\* A guest that runs again is not deleted and a container is not asked to
\* execute: nothing is sent, whatever the locks say.
Unfit(op) == op \in RechecksStopped \cup AgentExec /\ Refuses(1) /\ UNCHANGED faults

\* The agent's command has not exited in time, or never answered.
Abandons(op) ==
  /\ op \in AgentExec /\ ~run.locked
  /\ out' = [out EXCEPT !.exit = 1, !.sent = @ \cup {op}]
  /\ UNCHANGED <<todo, task, faults>>

DoCall ==
  /\ Next1({"call"})
  /\ LET op == todo[1].op
     IN  \/ Answered(op) \/ LockRefuses(op) \/ Unfit(op) \/ Abandons(op)
         \/ \E c \in Failures : FailedCall(op, c)
  /\ Still

\* Reads whose failure does not end the command.
DoTell ==
  /\ Next1({"tell", "mark", "hush"})
  /\ \/ GoOn /\ UNCHANGED faults
     \/ /\ Fault(Other) /\ todo' = Tail(todo) /\ UNCHANGED task
        /\ out' = [out EXCEPT !.marked = @ \/ todo[1].do = "mark"]
  /\ Still

DoTry ==
  /\ Next1({"try_qemu", "try_lxc"})
  /\ \/ GoOn /\ UNCHANGED faults
     \/ /\ todo[1].do = (IF kind = "qemu" THEN "try_qemu" ELSE "try_lxc")
        /\ Fault(Other) /\ Exits(Other)
  /\ Still

\* A shell, a viewer, a tail of the logs or an external program, which ends
\* when it ends: there is no deadline.
DoRemote ==
  /\ Next1({"remote"})
  /\ \/ GoOn /\ UNCHANGED faults
     \/ Fault(Other) /\ Exits(Other)
  /\ Still

(***************************************************************************)
(* poll_task_until_done.  The task ends when PVE has done it; the poll     *)
(* fails, sees the end, or gives up at its deadline.  With --stream the    *)
(* log is followed too, its failures are dropped, and there is no deadline *)
(* (stream_migration with timeout_secs 0).                                 *)
(***************************************************************************)
TaskEnds ==
  /\ Going /\ task = "running" /\ task' \in {"ok", "failed"}
  /\ UNCHANGED <<run, todo, out, worldvars, faults, look, bt, pt>>

Waits ==
  CASE todo[1].do = "await" -> "wait" \in run.flags /\ task # "none"
    [] todo[1].do = "follow" -> "stream" \in run.flags
    [] OTHER -> TRUE

\* Mutant: a task that ended badly is taken for done
EndSeenLenient ==
  /\ task \in {"ok", "failed"} /\ UNCHANGED <<task, faults>>
  /\ out' = [out EXCEPT !.waited = TRUE]
  /\ todo' = IF todo[1].do = "follow" THEN <<>> ELSE Tail(todo)

EndSeen ==
  /\ task \in {"ok", "failed"} /\ UNCHANGED <<task, faults>>
  /\ IF task = "failed" /\ todo[1].do # "poll"
     THEN out' = [out EXCEPT !.waited = TRUE, !.exit = 1] /\ UNCHANGED todo
     ELSE /\ out' = [out EXCEPT !.waited = todo[1].do # "poll"]
          /\ todo' = IF todo[1].do = "follow" THEN <<>> ELSE Tail(todo)

\* Mutant: the poll has no deadline
GivesUpNever == FALSE /\ UNCHANGED <<todo, task, faults, out>>

GivesUp ==
  /\ task = "running" /\ todo[1].do # "follow"
  /\ Exits(1) /\ UNCHANGED faults

DoWait ==
  /\ Next1({"await", "follow", "must", "poll"})
  /\ IF Waits
     THEN EndSeen \/ GivesUp \/ \E c \in Failures : Fault(c) /\ Exits(c)
     ELSE GoOn /\ UNCHANGED faults
  /\ Still

(***************************************************************************)
(* A batch: handed to BatchRun, and its code is the command's.             *)
(***************************************************************************)
StartBatch ==
  /\ Next1({"batch"})
  /\ BatchStarts(todo[1].op, "strict" \in run.flags, run.policy, run.locked)
  /\ UNCHANGED <<cmdvars, worldvars, faults, look, pt>>

BatchEnds ==
  /\ Going /\ BatchOver
  /\ out' = [out EXCEPT !.exit = bt.code,
               !.sent = IF bt.acted # {} THEN @ \cup {bt.op} ELSE @]
  /\ UNCHANGED <<run, todo, task, worldvars, faults, look, bt, pt>>

(***************************************************************************)
(* A rollout of patches: handed to PatchRollout in the same way.           *)
(***************************************************************************)
StartRollout ==
  /\ Next1({"rollout"})
  /\ PatchStarts(todo[1].op = "apply", "dry_run" \in run.flags, run.locked)
  /\ UNCHANGED <<cmdvars, worldvars, faults, look, bt>>

RolloutEnds ==
  /\ Going /\ PatchOver
  /\ Exits(pt.code)
  /\ UNCHANGED <<run, worldvars, faults, look, bt, pt>>

\* The command's own verdict, or its normal end.
Ends ==
  \/ Next1({"judge"}) /\ IF out.marked THEN Exits(1) ELSE (Exits(0) \/ Exits(1))
  \/ Going /\ todo = <<>> /\ bt.phase = "idle" /\ Exits(0)

\* What the command does of itself: every request has a timeout.
Prompt ==
  \/ SecureGate \/ Gate \/ Seek \/ Sought \/ DoCall \/ DoTell \/ DoTry
  \/ DoWait \/ StartBatch \/ BatchEnds \/ StartRollout \/ RolloutEnds
  \/ Ends /\ Still /\ UNCHANGED faults
  \/ LookupNext /\ UNCHANGED <<cmdvars, bt, pt>>
  \/ BatchNext /\ UNCHANGED <<cmdvars, pt>>
  \/ Going /\ PatchNext /\ UNCHANGED <<cmdvars, bt>>

CliNext == Prompt \/ DoRemote

\* The cluster changes while a lookup or a rollout is under way.
WorldMoves ==
  /\ Going
  /\ \/ Looking /\ (GuestMoves \/ NodeTurns) /\ UNCHANGED pt
     \/ NodeFlickers
  /\ UNCHANGED <<cmdvars, bt>>

Exited == ~Going /\ UNCHANGED vars

Next ==
  \/ CliNext \/ TaskEnds \/ WorldMoves \/ Exited
  \/ Going /\ NodeReboots /\ UNCHANGED <<cmdvars, bt>>

Spec == Init /\ [][Next]_vars /\ WF_vars(Prompt)

(***************************************************************************)
(* A command that refuses to go on (no --yes, bad arguments, the wrong     *)
(* kind of guest, a severe risk, --secure, a lock) has changed nothing,    *)
(* and under a lock no command changes anything.  clone is the exception:  *)
(* what it refuses of the cloud-init profile it refuses after the clone is *)
(* made.                                                                   *)
(***************************************************************************)
RefusedMeansUntouched ==
  run.locked \/ (out.refused /\ run.cmd # "clone") => out.sent = {} /\ bt.acted = {}

(***************************************************************************)
(* Under --secure the command line sends nothing that removes data or a    *)
(* resource or interrupts a guest or a node (the classification rule of    *)
(* hitl/mod.rs), except to a guest the same command has just created.      *)
(***************************************************************************)
Interrupts ==
  {"stop_guest", "shutdown_guest", "restart_guest", "suspend_guest",
   "stopall_node", "suspendall_node", "migrate_guest", "rollback_snapshot",
   "convert_to_template", "move_disk", "resize_disk", "execute_guest_command",
   "qemu_agent_file_write", "unlink_qemu_disk"}

SecureSparesCluster ==
  run.secure /\ "create_qemu" \notin out.sent =>
    \A o \in out.sent : Verb[o] # "DELETE" /\ o \notin Interrupts

(***************************************************************************)
(* Exit 0 of a command that waits (--wait, --stream) means its task ended  *)
(* well, and exit 0 of any command that no part of its report was marked   *)
(* as failed.                                                              *)
(***************************************************************************)
ZeroMeansDone ==
  out.exit = 0 => (out.waited => task \in {"ok", "none"}) /\ ~out.marked

(***************************************************************************)
(* Every command ends, whatever becomes of its task and of its requests,   *)
(* or stays for good in one of the two waits that have no deadline: for a  *)
(* session, tail or program of its own to end, and for a migration that it *)
(* follows with --stream.                                                  *)
(***************************************************************************)
InSession == todo # <<>> /\ todo[1].do = "remote"

Follows == todo # <<>> /\ todo[1].do = "follow" /\ "stream" \in run.flags /\ task = "running"

EveryCommandEnds == <>(out.exit # Running) \/ <>[]InSession \/ <>[]Follows

(***************************************************************************)
(* Refusals come before the first change, in every command and batch.      *)
(***************************************************************************)
RefusalsAreClean == TypeOK /\ RefusedMeansUntouched /\ SecureSparesCluster /\ PolicyHolds

(***************************************************************************)
(* What a script reads from an exit code or a report is so: done, not      *)
(* found, pending, failed, upgraded.                                       *)
(***************************************************************************)
ReportsAreTrue ==
  ZeroMeansDone /\ NotFoundIsTrue /\ EveryTargetReported /\ BatchExitIsTrue /\ PatchExitIsTrue

(***************************************************************************)
(* A rollout over guests or nodes stops at the first trouble, has one node *)
(* down at a time, and is on record.                                       *)
(***************************************************************************)
RolloutsAreSafe == RolloutStops /\ PatchIsRecorded /\ OneNodeAtATime /\ RebootsApart

(***************************************************************************)
(* What these rest on in the commands themselves: no command but clone     *)
(* does anything that may refuse to go on after something that writes; one *)
(* that --secure lets through and that interrupts a guest has created it   *)
(* before; a report that was marked as failed is judged at the end.        *)
(***************************************************************************)
Writes(s) == s.do \in {"call", "batch"} /\ Mutates(s.op)

MayRefuse(s) ==
  \/ s.do \in {"ask", "ask_forced", "check", "config", "support", "listed", "qemu",
              "lxc", "risk"}
  \/ s.do = "call" /\ s.op \in RechecksStopped \cup AgentExec

Harmless(op) == Verb[op] # "DELETE" /\ op \notin Interrupts

CreateQemu == Call("create_qemu")

ASSUME ProgramsAreSteps ==
  /\ {"create_qemu"} \cup AgentExec \subseteq {o \in DOMAIN Verb : Mutates(o)}
  /\ \A c \in DOMAIN Programs : \A p \in Programs[c] :
       /\ p \in Seq(Steps)
       /\ \A i \in DOMAIN p :
            /\ p[i].do = "batch" => p[i].op \in BatchOps \cap DOMAIN Verb /\ Mutates(p[i].op)
            /\ p[i].do = "follow" => \A j \in DOMAIN p : j > i => p[j].do = "await"

ASSUME RefusalsFirst ==
  \A c \in DOMAIN Programs \ {"clone"} : \A p \in Programs[c] : \A i, j \in DOMAIN p :
    i < j /\ Writes(p[i]) => ~MayRefuse(p[j])

ASSUME SecureCovers ==
  \A c \in DOMAIN Programs : \A p \in Programs[c] : \A j \in DOMAIN p :
    ~SecureRefuses(c) /\ Writes(p[j]) =>
      Harmless(p[j].op) \/ \E i \in DOMAIN p : i < j /\ p[i] = CreateQemu

ASSUME MarksAreJudged ==
  \A c \in DOMAIN Programs : \A p \in Programs[c] :
    Does(p, {"mark"}) => p[Len(p)].do = "judge" /\ ~Does(p, {"follow", "batch", "rollout"})

(***************************************************************************)
(* Why they hold: the inductive invariant of a run.  The steps to do are   *)
(* the end of one of the command's programs, and what was sent was sent by *)
(* the steps before.                                                       *)
(***************************************************************************)
SentBy(p, k) == {p[i].op : i \in {j \in 1..k : Writes(p[j])}}

At(p, k) ==
  /\ Len(todo) = Len(p) - k /\ \A i \in DOMAIN todo : todo[i] = p[k + i]
  /\ Going => /\ out.sent \subseteq SentBy(p, k)
              /\ (\E i \in 1..k : p[i] = CreateQemu) => "create_qemu" \in out.sent
              /\ out.marked => Does(p, {"mark"}) /\ todo # <<>>

ProgramInv == \E p \in Programs[run.cmd] : \E k \in 0..Len(p) : At(p, k)

\* A lookup, a batch or a rollout under way is the command's present step.
PartsInv ==
  /\ look.phase # "idle" => todo # <<>> /\ todo[1].do \in Lookups
  /\ bt.phase # "idle" =>
       /\ bt.locked = run.locked /\ ~out.refused
       /\ todo # <<>> /\ todo[1].do = "batch" /\ todo[1].op = bt.op
  /\ pt.phase # "idle" => look.phase = "idle" /\ todo # <<>> /\ todo[1].do = "rollout"
  /\ out.sent # {} \/ bt.phase # "idle" => ~(run.secure /\ SecureRefuses(run.cmd))

CliInv ==
  /\ TypeOK /\ LookupInv /\ BatchInv /\ PatchInv /\ ProgramInv /\ PartsInv
  /\ RefusedMeansUntouched /\ SecureSparesCluster
  /\ out.waited /\ out.exit \in {Running, 0} => task = "ok"
  /\ out.exit = 0 => ~out.marked
  /\ out.refused => ~Going
=============================================================================
