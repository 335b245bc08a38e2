---------------------------- MODULE PatchRollout ----------------------------
(***************************************************************************)
(* `proxxx patch plan` and `proxxx patch apply` (app/patch.rs): refresh    *)
(* and list each node's upgrades over the API, then one node after the     *)
(* other upgrade over SSH, reboot where the policy says so, and wait until *)
(* the node was seen to go away and come back.  The code takes the nodes   *)
(* in alphabetical order; here they come in any order.                     *)
(***************************************************************************)
EXTENDS GuestLookup

VARIABLE pt   \* the rollout in progress

NoRollout ==
  [phase |-> "idle", apply |-> FALSE, dry |-> FALSE, policy |-> "auto",
   locked |-> FALSE,
   left |-> {},                         \* nodes still to be planned
   st |-> [n \in Nodes |-> "out"],      \* NodePlan.status, "out" of the plan
   need |-> {},                         \* nodes whose upgrade needs a reboot
   node |-> Absent,                     \* the node being patched
   offline |-> FALSE,                   \* saw_offline
   recorded |-> {},                     \* nodes with an audit entry
   started |-> {}, upgraded |-> {},     \* apt was started, went through
   told |-> {}, down |-> {},            \* about to reboot, rebooting
   mistaken |-> {},                     \* taken for rebooting before they were
   code |-> 0]

PatchTypeOK ==
  /\ pt \in [phase : {"idle", "list", "plan", "next", "upgrade", "reboot", "wait",
                      "detail", "done"},
             apply : BOOLEAN, dry : BOOLEAN, policy : {"auto", "always", "never"},
             locked : BOOLEAN, left : SUBSET Nodes,
             st : [Nodes -> {"out", "pending", "skipped", "failed", "done"}],
             need : SUBSET Nodes, node : Nodes \cup {Absent}, offline : BOOLEAN,
             recorded : SUBSET Nodes, started : SUBSET Nodes, upgraded : SUBSET Nodes,
             told : SUBSET Nodes, down : SUBSET Nodes, mistaken : SUBSET Nodes,
             code : {0, 8} \cup Failures]
  /\ pt.upgraded \subseteq pt.started /\ pt.told \cap pt.down = {}

PatchStarts(apply, dry, locked) ==
  /\ pt.phase = "idle"
  /\ \E policy \in IF apply THEN {"auto", "always", "never"} ELSE {"auto"} :
       pt' = [NoRollout EXCEPT !.phase = "list", !.apply = apply, !.dry = dry,
                !.policy = policy, !.locked = locked]

PatchExits(c) == pt' = [pt EXCEPT !.phase = "done", !.code = c]

(***************************************************************************)
(* plan.  Only online nodes are planned, and of those the ones --node      *)
(* names; a name that is not among them is dropped without a word.         *)
(***************************************************************************)
ListOnline ==
  /\ pt.phase = "list"
  /\ \/ \E c \in Failures : ClusterFails(c) /\ PatchExits(c)
     \/ /\ UNCHANGED faults
        /\ \E only \in SUBSET Nodes \ {{}} :
             pt' = [pt EXCEPT !.phase = "plan", !.left = up \cap only]
  /\ UNCHANGED worldvars

\* What is done on a node may fail, and for no other reason where the node is
\* not listed as online.
MayFail(n) == IF n \in up THEN Fault(Other) ELSE UNCHANGED faults

\* A node that cannot be refreshed (a lock refuses the POST) or listed is
\* planned as failed, and the others go on.
PlanNode ==
  /\ pt.phase = "plan"
  /\ \E n \in pt.left :
       \/ /\ ~pt.locked /\ UNCHANGED faults
          /\ \E found \in {"none", "userspace", "kernel"} :
               pt' = [pt EXCEPT !.left = @ \ {n},
                        !.st[n] = IF found = "none" THEN "skipped" ELSE "pending",
                        !.need = IF found = "kernel" THEN @ \cup {n} ELSE @]
       \/ /\ IF pt.locked THEN UNCHANGED faults ELSE MayFail(n)
          /\ pt' = [pt EXCEPT !.left = @ \ {n}, !.st[n] = "failed"]
  /\ UNCHANGED worldvars

Planned ==
  /\ pt.phase = "plan" /\ pt.left = {}
  /\ IF pt.apply THEN pt' = [pt EXCEPT !.phase = "next"] ELSE PatchExits(0)
  /\ UNCHANGED <<worldvars, faults>>

(***************************************************************************)
(* apply: the next pending node.  A dry run marks it done; otherwise the   *)
(* audit entry comes first, and without it the command ends with 8.        *)
(***************************************************************************)
Finish == [pt EXCEPT !.phase = "next", !.st[pt.node] = "done", !.offline = FALSE]

\* Mutant: an audit log that cannot be written does not stop the upgrade
TakeNodeUnrecorded ==
  /\ pt.phase = "next"
  /\ \E n \in Nodes :
       /\ pt.st[n] = "pending"
       /\ \/ pt.dry /\ pt' = [pt EXCEPT !.st[n] = "done"] /\ UNCHANGED faults
          \/ ~pt.dry /\ pt' = [pt EXCEPT !.phase = "upgrade", !.node = n] /\ Fault(Other)
          \/ /\ ~pt.dry /\ UNCHANGED faults
             /\ pt' = [pt EXCEPT !.phase = "upgrade", !.node = n,
                         !.recorded = @ \cup {n}]
  /\ UNCHANGED worldvars

TakeNode ==
  /\ pt.phase = "next"
  /\ \E n \in Nodes :
       /\ pt.st[n] = "pending"
       /\ \/ pt.dry /\ pt' = [pt EXCEPT !.st[n] = "done"] /\ UNCHANGED faults
          \/ ~pt.dry /\ Fault(Other) /\ PatchExits(8)
          \/ /\ ~pt.dry /\ UNCHANGED faults
             /\ pt' = [pt EXCEPT !.phase = "upgrade", !.node = n,
                         !.recorded = @ \cup {n}]
  /\ UNCHANGED worldvars

\* The failed node ends the command; what is pending stays so.
NodeFailed == [pt EXCEPT !.phase = "done", !.st[pt.node] = "failed", !.code = Other]

ShouldReboot(n) == pt.policy = "always" \/ (pt.policy = "auto" /\ n \in pt.need)

\* Mutant: a failed upgrade is noted and the next node taken
RunUpgradeGoesOn ==
  /\ pt.phase = "upgrade"
  /\ \/ /\ UNCHANGED faults
        /\ LET ran == [pt EXCEPT !.started = @ \cup {pt.node}, !.upgraded = @ \cup {pt.node}]
           IN  pt' = IF ShouldReboot(pt.node) THEN [ran EXCEPT !.phase = "reboot"]
                     ELSE [ran EXCEPT !.phase = "next", !.st[pt.node] = "done"]
     \/ /\ Fault(Other)
        /\ pt' = [pt EXCEPT !.phase = "next", !.st[pt.node] = "failed",
                    !.started = @ \cup {pt.node}]
  /\ UNCHANGED worldvars

\* run_upgrade: apt went through, or did not, or was not even started
RunUpgrade ==
  /\ pt.phase = "upgrade"
  /\ \/ /\ UNCHANGED faults
        /\ LET ran == [pt EXCEPT !.started = @ \cup {pt.node}, !.upgraded = @ \cup {pt.node}]
           IN  pt' = IF ShouldReboot(pt.node) THEN [ran EXCEPT !.phase = "reboot"]
                     ELSE [ran EXCEPT !.phase = "next", !.st[pt.node] = "done"]
     \/ /\ MayFail(pt.node)
        /\ \E ran \in {{}, {pt.node}} :
             pt' = [NodeFailed EXCEPT !.started = @ \cup ran]
  /\ UNCHANGED worldvars

(***************************************************************************)
(* run_reboot.  Any answer, a timeout and a lost connection all count as   *)
(* "the reboot is on its way"; another error fails the node.               *)
(***************************************************************************)
RunReboot ==
  /\ pt.phase = "reboot"
  /\ \/ /\ UNCHANGED faults
        /\ pt' = [pt EXCEPT !.phase = "wait", !.told = @ \cup {pt.node}]
     \/ MayFail(pt.node) /\ pt' = [pt EXCEPT !.phase = "wait"]
     \/ /\ MayFail(pt.node)
        /\ \E told \in {{}, {pt.node}} : pt' = [NodeFailed EXCEPT !.told = @ \cup told]
  /\ UNCHANGED worldvars

(***************************************************************************)
(* wait_for_reboot: a poll every five seconds.  Any answer but Online      *)
(* (offline, unknown, not in the list, no list at all) is taken for the    *)
(* reboot, of a node that has not begun it too.                            *)
(***************************************************************************)
SeenOffline ==
  [pt EXCEPT !.offline = TRUE, !.mistaken = @ \cup ({pt.node} \cap pt.told)]

\* Mutant: a node that is online is taken for one that is back
PollNodeHasty ==
  /\ pt.phase = "wait"
  /\ \/ /\ UNCHANGED faults
        /\ pt' = IF pt.node \in up THEN [pt EXCEPT !.phase = "detail"]
                 ELSE SeenOffline
     \/ (\E c \in Failures : ClusterFails(c)) /\ pt' = SeenOffline
  /\ UNCHANGED worldvars

PollNode ==
  /\ pt.phase = "wait"
  /\ \/ /\ UNCHANGED faults
        /\ pt' = CASE pt.node \notin up -> SeenOffline
                   [] pt.node \in up /\ pt.offline -> [pt EXCEPT !.phase = "detail"]
                   [] OTHER -> pt
     \/ (\E c \in Failures : ClusterFails(c)) /\ pt' = SeenOffline
  /\ UNCHANGED worldvars

\* node_status_detail, which a node that reboots does not answer; the kernel
\* is compared and only logged.
ReadDetail ==
  /\ pt.phase = "detail"
  /\ \/ pt.node \notin pt.down /\ UNCHANGED faults /\ pt' = Finish
     \/ pt' = [pt EXCEPT !.phase = "wait"]
        /\ \E c \in Failures : NodeFails(pt.node, c)
  /\ UNCHANGED worldvars

WaitEnds ==
  /\ pt.phase = "wait" /\ pt' = NodeFailed
  /\ UNCHANGED <<worldvars, faults>>

\* The command's exit code: 1 when a node failed.
\* Mutant: the exit code does not look at what was planned as failed
ApplyEndsBlind ==
  /\ pt.phase = "next" /\ \A n \in Nodes : pt.st[n] # "pending"
  /\ PatchExits(0)
  /\ UNCHANGED <<worldvars, faults>>

ApplyEnds ==
  /\ pt.phase = "next" /\ \A n \in Nodes : pt.st[n] # "pending"
  /\ PatchExits(IF \E n \in Nodes : pt.st[n] = "failed" THEN Other ELSE 0)
  /\ UNCHANGED <<worldvars, faults>>

PatchNext ==
  /\ \/ ListOnline \/ PlanNode \/ Planned \/ TakeNode \/ RunUpgrade \/ RunReboot
     \/ PollNode \/ ReadDetail \/ WaitEnds \/ ApplyEnds
  /\ UNCHANGED look

PatchOver == pt.phase = "done"

\* The nodes: one that was told to reboot goes down, in its own time, and
\* comes back.
NodeReboots ==
  /\ \/ \E n \in pt.told :
          /\ up' = up \ {n}
          /\ pt' = [pt EXCEPT !.told = @ \ {n}, !.down = @ \cup {n}]
     \/ \E n \in pt.down :
          /\ up' = up \cup {n}
          /\ pt' = [pt EXCEPT !.down = @ \ {n}]
  /\ UNCHANGED <<host, kind, moves, faults, look>>

\* A node is not listed as online for a while, or is again, of itself.
NodeFlickers ==
  /\ pt.phase \notin {"idle", "done"}
  /\ NodeTurns /\ pt.down \cap up' = {}
  /\ UNCHANGED pt

(***************************************************************************)
(* Exit 0 of `patch apply` means that every planned node had nothing to    *)
(* upgrade or was upgraded.                                                *)
(***************************************************************************)
PatchExitIsTrue ==
  PatchOver /\ pt.apply /\ pt.code = 0 =>
    \A n \in Nodes :
      /\ pt.st[n] \in {"out", "skipped", "done"}
      /\ pt.st[n] = "done" /\ ~pt.dry => n \in pt.upgraded

(***************************************************************************)
(* No node is touched without an entry in the audit log, and none at all   *)
(* by a dry run, by `patch plan` or under a lock.                          *)
(***************************************************************************)
PatchIsRecorded ==
  /\ pt.started \cup pt.told \cup pt.down \subseteq pt.recorded
  /\ pt.dry \/ ~pt.apply \/ pt.locked => pt.started = {}

(***************************************************************************)
(* "Any node failure stops the rest of the plan": at no time is more than  *)
(* one node begun and not finished.                                        *)
(***************************************************************************)
OneNodeAtATime ==
  Cardinality({n \in pt.started : pt.st[n] # "done"}) <= 1

(***************************************************************************)
(* Reboots do not overlap (they "risk HA quorum loss"): of the nodes about *)
(* to reboot and rebooting at most one is there that was not mistaken.  A  *)
(* node is mistaken when a poll of wait_for_reboot did not find it Online  *)
(* (it failed, or the node was offline or unknown for a moment) before its *)
(* reboot had begun: the code goes on to the next node then, and the two   *)
(* may well be down together.                                              *)
(***************************************************************************)
Rebooting == pt.told \cup pt.down

RebootsApart == Cardinality(Rebooting \ pt.mistaken) <= 1

(***************************************************************************)
(* Why these hold: the inductive invariant of a rollout.                   *)
(***************************************************************************)
Patching == pt.phase \in {"upgrade", "reboot", "wait", "detail"}

\* Nothing is touched before the plan is made, and nothing ever without apply.
UntouchedInv ==
  pt.phase \in {"idle", "list", "plan"} \/ pt.dry \/ ~pt.apply \/ pt.locked =>
    pt.started = {} /\ Rebooting = {}

\* The node at hand is on record and pending; the others are finished.
NodeInv ==
  /\ pt.phase = "next" => pt.apply
  /\ Patching => /\ pt.node \in pt.recorded /\ pt.st[pt.node] = "pending"
                 /\ pt.apply /\ ~pt.dry /\ ~pt.locked
  /\ \A n \in Nodes :
       /\ pt.locked => pt.st[n] # "pending"
       /\ n \in pt.started \cup Rebooting /\ pt.st[n] # "done" => n = pt.node /\ pt.phase # "next"
       /\ pt.st[n] = "done" /\ ~pt.dry => n \in pt.upgraded
  /\ pt.phase \in {"reboot", "wait", "detail"} => pt.node \in pt.upgraded
  /\ pt.phase \in {"upgrade", "reboot"} => pt.node \notin Rebooting

\* Only the node at hand reboots, the mistaken ones apart, and it is not yet
\* to begin once it was seen offline.
RebootInv ==
  /\ pt.down \cap up = {}
  /\ pt.phase \notin {"wait", "detail", "done"} => ~pt.offline
  /\ pt.phase = "detail" => pt.offline
  /\ Rebooting \ pt.mistaken \subseteq {pt.node}
  /\ pt.phase \in {"next", "upgrade", "reboot"} => Rebooting \subseteq pt.mistaken
  /\ pt.offline => pt.node \notin pt.told \ pt.mistaken

PatchInv ==
  /\ PatchTypeOK /\ UntouchedInv /\ NodeInv /\ RebootInv
  /\ pt.phase = "idle" => pt = NoRollout
  /\ pt.started \cup Rebooting \subseteq pt.recorded
  /\ PatchExitIsTrue
=============================================================================
