------------------------------ MODULE BatchRun ------------------------------
(***************************************************************************)
(* One operation on many guests (cli/common.rs): execute_batch_op_full     *)
(* finds the guests with one scan of the nodes, turns to each in the order *)
(* given, and either performs the operation (one after the other under     *)
(* --strict, together otherwise), or asks for a human's approval where a   *)
(* policy says so.  --policy canary and rolling run it slice by slice.     *)
(* `delete` (cli/mod.rs, execute_delete) has a loop of its own, without    *)
(* policies.                                                               *)
(***************************************************************************)
EXTENDS GuestLookup, Sequences

CONSTANTS
  Targets,    \* the entries of the command line, in order: an entry names a
              \* guest, and one guest named twice is two entries of the report
  Percents,   \* percentages --policy canary is given
  WaveSizes,  \* sizes --policy rolling is given
  Fleets      \* what the targets may be: where, templates, under a policy

Guests == {Targets[i] : i \in DOMAIN Targets}

ASSUME BatchAssumption ==
  /\ Targets \in Seq(Guests) /\ Len(Targets) > 0
  /\ \A i, j \in DOMAIN Targets : Targets[i] = Targets[j] => i = j
  /\ Percents \subseteq 1..100 /\ WaveSizes \subseteq Nat \ {0}
  /\ Fleets \subseteq [where : [Guests -> Nodes \cup {Absent}],
                       tmpl : SUBSET Guests, gated : SUBSET Guests]

VARIABLE bt   \* the batch in progress

\* BatchOp by the call that performs it, and delete
BatchOps ==
  {"start_guest", "stop_guest", "shutdown_guest", "restart_guest", "suspend_guest",
   "resume_guest", "delete_guest"}

Full == [name |-> "full", n |-> 0]

Policies ==
  {Full} \cup {[name |-> "canary", n |-> p] : p \in Percents}
  \cup {[name |-> "rolling", n |-> w] : w \in WaveSizes}

Statuses == {"none", "success", "error", "rejected", "pending", "skipped"}

EXIT_HITL_PENDING == 9

NoBatch ==
  [phase |-> "idle", op |-> "none", strict |-> FALSE, plan |-> Full, policy |-> Full,
   asks |-> FALSE, locked |-> FALSE, where |-> [g \in Guests |-> Absent], tmpl |-> {}, gated |-> {},
   slice |-> <<>>, rest |-> <<>>, seen |-> {}, partial |-> FALSE, fly |-> {},
   got |-> [g \in Guests |-> "none"], acted |-> {}, fail |-> FALSE, pend |-> FALSE,
   code |-> 0]

BatchTypeOK ==
  /\ bt \in [phase : {"idle", "scan", "turn", "done"}, op : BatchOps \cup {"none"},
             strict : BOOLEAN, plan : Policies, policy : Policies, asks : BOOLEAN, locked : BOOLEAN,
             where : [Guests -> Nodes \cup {Absent}], tmpl : SUBSET Guests,
             gated : SUBSET Guests, slice : Seq(Guests), rest : Seq(Guests),
             seen : SUBSET Guests, partial : BOOLEAN, fly : SUBSET Guests,
             got : [Guests -> Statuses], acted : SUBSET Guests, fail : BOOLEAN,
             pend : BOOLEAN, code : {0, 2, EXIT_HITL_PENDING} \cup Failures]
  /\ bt.fly \subseteq bt.seen

\* canary_pilot_count: ceil(n * percent / 100), at least one, at most all
PilotCount(n, percent) ==
  LET up100 == (n * percent + 99) \div 100
  IN  IF up100 < 1 THEN 1 ELSE IF up100 > n THEN n ELSE up100

\* How many targets the next slice takes.
SliceSize(policy, n) ==
  CASE policy.name = "canary" -> PilotCount(n, policy.n)
    [] policy.name = "rolling" -> IF policy.n < n THEN policy.n ELSE n
    [] OTHER -> n

Sliced(policy, ts) ==
  LET k == SliceSize(policy, Len(ts))
  IN  [slice |-> SubSeq(ts, 1, k), rest |-> SubSeq(ts, k + 1, Len(ts))]

(***************************************************************************)
(* The batch begins: what the targets are, which a policy covers and       *)
(* whether there is a Telegram to ask on is the world's choice.            *)
(***************************************************************************)
BatchStarts(op, strict, policy, locked) ==
  /\ bt.phase = "idle"
  /\ \E f \in Fleets, asks \in BOOLEAN :
       /\ op = "delete_guest" => ~asks
       /\ bt' = [NoBatch EXCEPT
                   !.phase = "scan", !.op = op, !.strict = strict,
                   !.plan = policy, !.policy = policy,
                   !.where = f.where, !.tmpl = f.tmpl, !.asks = asks, !.locked = locked,
                   !.gated = IF op = "delete_guest" THEN {} ELSE f.gated,
                   !.slice = Sliced(policy, Targets).slice,
                   !.rest = Sliced(policy, Targets).rest]

BatchExits(c) == bt' = [bt EXCEPT !.phase = "done", !.code = c]

(***************************************************************************)
(* The scan.  Nodes that are down or fail are not read; a guest that       *)
(* migrates while the nodes are read may be in no list.  delete asks only  *)
(* the online nodes and stops at the first failure; --strict stops when a  *)
(* node was not read or a guest not seen.  The Telegram gateway is built   *)
(* after the scan, and the batch ends when that fails.                     *)
(***************************************************************************)
Unseen(seen) == \E i \in DOMAIN bt.slice : bt.slice[i] \notin seen

\* The strictness of delete's scan and of the others'.
execute_delete(unread, seen) ==
  CASE unread \cap up # {} -> Failures
    [] bt.strict /\ Unseen(seen) -> {Other}
    [] OTHER -> {}

execute_others(unread, seen) ==
  IF bt.strict /\ (Unseen(seen) \/ unread # {}) THEN {Other} ELSE {}

Scan ==
  /\ bt.phase = "scan"
  /\ \/ \E c \in Failures : ClusterFails(c) /\ BatchExits(c) /\ UNCHANGED moves
     \/ bt.asks /\ Fault(Other) /\ BatchExits(Other) /\ UNCHANGED moves
     \/ \E unread \in SUBSET Nodes, missed \in SUBSET Guests :
          LET seen == {g \in Guests : bt.where[g] \in Nodes \ unread} \ missed
          IN  /\ Nodes \ up \subseteq unread
              /\ faults' = faults + Cardinality(unread \cap up)
              /\ moves' = moves + Cardinality(missed)
              /\ faults' <= MaxFaults /\ moves' <= MaxMoves
              /\ LET stops == IF bt.op = "delete_guest" THEN execute_delete(unread, seen)
                                ELSE execute_others(unread, seen)
                 IN IF stops # {} THEN \E c \in stops : BatchExits(c)
                 ELSE bt' = [bt EXCEPT !.phase = "turn", !.seen = seen,
                               !.partial = unread # {}, !.fail = FALSE, !.pend = FALSE]
  /\ UNCHANGED <<host, up, kind, look>>

(***************************************************************************)
(* Each target's turn, in the order given.                                 *)
(***************************************************************************)
Target == bt.slice[1]

Turned(status, failed) ==
  bt' = [bt EXCEPT !.slice = Tail(@), !.got[Target] = status,
           !.fail = @ \/ failed, !.pend = @ \/ status = "pending"]

\* A template cannot be started or restarted.
IsRejected(g) == g \in bt.tmpl /\ bt.op \in {"start_guest", "restart_guest"}

\* A policy covers the guest: ask for approval, or report why nobody can be
\* asked.  The operation is not performed either way.  When the request
\* cannot be recorded the batch ends there, and the operations in flight are
\* aborted wherever they are.
AskHuman ==
  \/ bt.asks /\ UNCHANGED faults /\ Turned("pending", FALSE)
  \/ bt.asks /\ Fault(Other) /\ Turned("error", TRUE)
  \/ ~bt.asks /\ UNCHANGED faults /\ Turned("error", TRUE)
  \/ /\ bt.asks /\ Fault(Other)
     /\ \E got \in SUBSET (IF bt.locked THEN {} ELSE bt.fly) :
          bt' = [bt EXCEPT !.phase = "done", !.code = Other, !.fly = {},
                   !.acted = @ \cup got]

(***************************************************************************)
(* The operation succeeds, fails (and may have been carried out all the    *)
(* same), or is refused by a local lock.                                   *)
(***************************************************************************)
Performs(ok, reached) ==
  /\ ok => reached
  /\ bt.locked => ~ok /\ ~reached
  /\ IF ok \/ bt.locked THEN UNCHANGED faults ELSE Fault(Other)

\* One after the other: --strict stops at the first failure, delete goes on.
PerformNow ==
  \E ok, reached \in BOOLEAN :
    /\ Performs(ok, reached)
    /\ bt' = [bt EXCEPT !.slice = Tail(@), !.got[Target] = IF ok THEN "success" ELSE "error",
                !.acted = IF reached THEN @ \cup {Target} ELSE @,
                !.fail = @ \/ ~ok,
                !.phase = IF ok \/ ~bt.strict THEN @ ELSE "done",
                !.code = IF ok \/ ~bt.strict THEN @ ELSE Other]

Spawn ==
  /\ bt' = [bt EXCEPT !.slice = Tail(@), !.fly = @ \cup {Target}]
  /\ UNCHANGED faults

\* Mutant: a policy's guests are asked for and performed all the same
TakeTurnAnyway ==
  /\ bt.phase = "turn" /\ bt.slice # <<>>
  /\ CASE Target \notin bt.seen -> Turned("error", TRUE) /\ UNCHANGED faults
       [] Target \in bt.seen /\ IsRejected(Target) ->
            Turned("rejected", TRUE) /\ UNCHANGED faults
       [] OTHER -> IF bt.strict \/ bt.op = "delete_guest" THEN PerformNow ELSE Spawn
  /\ UNCHANGED <<worldvars, look>>

TakeTurn ==
  /\ bt.phase = "turn" /\ bt.slice # <<>>
  /\ CASE Target \notin bt.seen -> Turned("error", TRUE) /\ UNCHANGED faults
       [] Target \in bt.seen /\ IsRejected(Target) ->
            Turned("rejected", TRUE) /\ UNCHANGED faults
       [] Target \in bt.seen /\ ~IsRejected(Target) /\ Target \in bt.gated -> AskHuman
       [] OTHER -> IF bt.strict \/ bt.op = "delete_guest" THEN PerformNow ELSE Spawn
  /\ UNCHANGED <<worldvars, look>>

\* A spawned operation runs when it has its permit, while later targets may
\* still have their turn to come.
Perform ==
  /\ bt.phase = "turn"
  /\ \E g \in bt.fly, ok, reached \in BOOLEAN :
       /\ Performs(ok, reached)
       /\ bt' = [bt EXCEPT !.fly = @ \ {g}, !.fail = @ \/ ~ok,
                   !.got[g] = IF ok THEN "success" ELSE "error",
                   !.acted = IF reached THEN @ \cup {g} ELSE @]
  /\ UNCHANGED <<worldvars, look>>

(***************************************************************************)
(* The end of a slice.                                                     *)
(***************************************************************************)
\* Mutant: pending wins over failure
batch_exit_code_pending(fail, pend) ==
  IF pend THEN EXIT_HITL_PENDING ELSE IF fail THEN 2 ELSE 0

batch_exit_code(fail, pend) ==
  IF fail THEN 2 ELSE IF pend THEN EXIT_HITL_PENDING ELSE 0

MaxCode(a, b) == IF a > b THEN a ELSE b

Errored == \E g \in Guests : bt.got[g] = "error"

\* Mutant: what a stopped rollout never reached is left out of the report
SkipRestSilently(code) ==
  bt' = [bt EXCEPT !.phase = "done", !.code = code, !.rest = <<>>]

SkipRest(code) ==
  bt' = [bt EXCEPT !.phase = "done", !.code = code, !.rest = <<>>,
           !.got = [g \in Guests |-> IF \E i \in DOMAIN bt.rest : bt.rest[i] = g
                                     THEN "skipped" ELSE @[g]]]

NextSlice(policy, code) ==
  bt' = [bt EXCEPT !.phase = "scan", !.policy = policy, !.code = code,
           !.slice = Sliced(policy, bt.rest).slice,
           !.rest = Sliced(policy, bt.rest).rest]

\* Mutant: a pilot that only waits for approval is promoted
SliceEndsPromotes ==
  LET code == IF bt.op = "delete_guest" THEN (IF bt.fail THEN Other ELSE 0)
              ELSE batch_exit_code(bt.fail, bt.pend)
  IN  /\ bt.phase = "turn" /\ bt.slice = <<>> /\ bt.fly = {}
      /\ CASE bt.policy.name = "canary" /\ bt.rest # <<>> -> NextSlice(Full, code)
           [] bt.policy.name = "rolling" /\ Errored -> SkipRest(MaxCode(bt.code, code))
           [] bt.policy.name = "rolling" /\ ~Errored /\ bt.rest # <<>> ->
                NextSlice(bt.policy, MaxCode(bt.code, code))
           [] OTHER -> BatchExits(MaxCode(bt.code, code))
      /\ UNCHANGED <<worldvars, faults, look>>

SliceEnds ==
  LET code == IF bt.op = "delete_guest" THEN (IF bt.fail THEN Other ELSE 0)
              ELSE batch_exit_code(bt.fail, bt.pend)
  IN  /\ bt.phase = "turn" /\ bt.slice = <<>> /\ bt.fly = {}
      /\ CASE bt.policy.name = "canary" /\ (Errored \/ code >= 2) -> SkipRest(2)
           [] bt.policy.name = "canary" /\ ~(Errored \/ code >= 2) /\ bt.rest # <<>> ->
                NextSlice(Full, code)
           [] bt.policy.name = "rolling" /\ Errored -> SkipRest(MaxCode(bt.code, code))
           [] bt.policy.name = "rolling" /\ ~Errored /\ bt.rest # <<>> ->
                NextSlice(bt.policy, MaxCode(bt.code, code))
           [] OTHER -> BatchExits(MaxCode(bt.code, code))
      /\ UNCHANGED <<worldvars, faults, look>>

BatchNext == Scan \/ TakeTurn \/ Perform \/ SliceEnds

BatchOver == bt.phase = "done"

(***************************************************************************)
(* No operation is performed on a guest that a policy keeps for a human,   *)
(* nor on a template that is to be started.                                *)
(***************************************************************************)
PolicyHolds ==
  \A g \in bt.acted : g \notin bt.gated /\ ~IsRejected(g)

(***************************************************************************)
(* A batch that ended otherwise than by an error says of every target what *)
(* became of it: "success" only of one that was acted on, and anything but *)
(* "success" or "error" only of one that was not.                          *)
(***************************************************************************)
EveryTargetReported ==
  BatchOver /\ bt.code \in {0, 2, EXIT_HITL_PENDING} =>
    \A g \in Guests :
      /\ bt.got[g] # "none"
      /\ bt.got[g] = "success" => g \in bt.acted
      /\ g \in bt.acted => bt.got[g] \in {"success", "error"}

(***************************************************************************)
(* A rollout stops at trouble.  Under canary, once one of the pilot did    *)
(* not succeed, none of the rest is touched; under rolling, nothing after  *)
(* a wave with an error is; under --strict, nothing after a failure.       *)
(***************************************************************************)
Pilot(i) == i <= PilotCount(Len(Targets), bt.plan.n)

Wave(i) == (i - 1) \div bt.plan.n

StopsRollout(i, j) ==
  \/ /\ bt.plan.name = "canary" /\ Pilot(i) /\ ~Pilot(j)
     /\ bt.got[Targets[i]] \in {"error", "rejected", "pending"}
  \/ /\ bt.plan.name = "rolling" /\ Wave(i) < Wave(j)
     /\ bt.got[Targets[i]] = "error"
  \/ /\ bt.strict /\ bt.op # "delete_guest" /\ i < j
     /\ bt.got[Targets[i]] = "error" /\ Targets[i] \in bt.seen \ bt.gated

RolloutStops ==
  \A i, j \in DOMAIN Targets : StopsRollout(i, j) => Targets[j] \notin bt.acted

(***************************************************************************)
(* The exit code of a batch is true: 0 only when every target succeeded, 9 *)
(* only when one waits for approval and none failed, 2 only when one       *)
(* failed, or under canary when one of the pilot waits for approval: that  *)
(* is 2 even when the pilot is all there is.                               *)
(***************************************************************************)
Some(statuses) == \E g \in Guests : bt.got[g] \in statuses

CodeFits ==
  /\ bt.code = 0 => ~Some({"error", "rejected", "pending", "skipped"})
  /\ bt.code = EXIT_HITL_PENDING => Some({"pending"}) /\ ~Some({"error", "rejected"})
  /\ bt.code = 2 => \/ Some({"error", "rejected"})
                    \/ bt.plan.name = "canary" /\ Some({"pending"})

BatchExitIsTrue == BatchOver /\ bt.plan.name # "rolling" => CodeFits

(***************************************************************************)
(* Why these hold: the inductive invariant of a batch in progress.         *)
(***************************************************************************)
TurnsTaken == Len(Targets) - Len(bt.slice) - Len(bt.rest)

SliceEnd == Len(Targets) - Len(bt.rest)

\* The slice and the rest are what the turns have left of the targets.
PlaceInv ==
  /\ TurnsTaken >= 0
  /\ \A i \in DOMAIN bt.slice : bt.slice[i] = Targets[TurnsTaken + i]
  /\ \A i \in DOMAIN bt.rest : bt.rest[i] = Targets[SliceEnd + i]

\* What is reported so far of an entry that has had its turn, and nothing of
\* one that has not.
EntryInv ==
  \A i \in DOMAIN Targets :
    /\ Targets[i] \in bt.fly => i <= TurnsTaken
    /\ bt.got[Targets[i]] \in IF i > TurnsTaken \/ Targets[i] \in bt.fly THEN {"none"}
                              ELSE {"success", "error", "rejected", "pending"}

TouchInv ==
  /\ \A g \in bt.acted \cup bt.fly : g \notin bt.gated /\ ~IsRejected(g)
  /\ \A g \in Guests :
       /\ bt.got[g] = "success" => g \in bt.acted
       /\ g \in bt.acted => bt.got[g] \in {"success", "error"}
       /\ bt.got[g] = "pending" => g \in bt.gated
       /\ bt.got[g] = "rejected" => IsRejected(g)
  /\ bt.op = "delete_guest" => bt.gated = {}

\* The flags of a slice tell of the whole batch, unless waves follow waves.
FlagInv ==
  bt.plan.name # "rolling" =>
    /\ bt.code = 0
    /\ bt.phase = "scan" => ~Some({"error", "rejected", "pending"})
    /\ bt.phase = "turn" =>
         /\ bt.fail <=> Some({"error", "rejected"})
         /\ bt.pend <=> Some({"pending"})

\* Entries of slices before the present one are over, and did not stop it.
Passed(m, bad) ==
  /\ m <= TurnsTaken
  /\ \A i \in DOMAIN Targets : i <= m => bt.got[Targets[i]] \notin bad /\ Targets[i] \notin bt.fly

CanaryInv ==
  LET pilots == PilotCount(Len(Targets), bt.plan.n)
  IN  \/ bt.policy = bt.plan /\ SliceEnd = pilots
      \/ /\ bt.policy = Full /\ bt.rest = <<>>
         /\ Passed(pilots, {"error", "rejected", "pending"})

RollingInv ==
  /\ bt.policy = bt.plan
  /\ \E k \in 0..Len(Targets) :
       /\ Passed(k * bt.plan.n, {"error"})
       /\ SliceEnd <= k * bt.plan.n + bt.plan.n
       /\ SliceEnd = k * bt.plan.n + bt.plan.n \/ bt.rest = <<>>

StageInv ==
  /\ bt.plan.name = "full" => bt.policy = bt.plan /\ bt.rest = <<>>
  /\ bt.plan.name = "canary" => CanaryInv
  /\ bt.plan.name = "rolling" => RollingInv
  /\ bt.phase = "scan" => bt.fly = {}

\* Under --strict only a guest that nobody could be asked about has an error.
StrictInv ==
  bt.strict /\ bt.op # "delete_guest" =>
    /\ bt.fly = {}
    /\ \A g \in Guests : bt.got[g] = "error" => g \in bt.gated
    /\ bt.phase = "turn" => \A i \in DOMAIN bt.slice : bt.slice[i] \in bt.seen

\* Where a batch that is over got to: no entry after the m-th was touched, and
\* no entry before it that should have stopped the batch did not.
Reached(m) ==
  /\ \A i \in DOMAIN Targets : Targets[i] \in bt.acted => i <= m
  /\ bt.plan.name = "canary" =>
       \/ m <= PilotCount(Len(Targets), bt.plan.n)
       \/ \A i \in DOMAIN Targets :
            Pilot(i) => bt.got[Targets[i]] \notin {"error", "rejected", "pending"}
  /\ bt.plan.name = "rolling" =>
       \E k \in 0..Len(Targets) :
         /\ m <= k * bt.plan.n + bt.plan.n
         /\ \A i \in DOMAIN Targets : i <= k * bt.plan.n => bt.got[Targets[i]] # "error"
  /\ bt.strict /\ bt.op # "delete_guest" =>
       \A i \in DOMAIN Targets :
         i < m /\ bt.got[Targets[i]] = "error" => Targets[i] \in bt.gated

Batching == bt.phase \in {"scan", "turn"}

BatchInv ==
  /\ BatchTypeOK
  /\ bt.phase = "idle" => bt = NoBatch
  /\ Batching => PlaceInv /\ EntryInv /\ TouchInv /\ FlagInv /\ StageInv /\ StrictInv
  /\ bt.locked => bt.acted = {}
  /\ BatchOver => PolicyHolds /\ EveryTargetReported /\ BatchExitIsTrue
  /\ BatchOver => \E m \in 0..Len(Targets) : Reached(m)
=============================================================================
