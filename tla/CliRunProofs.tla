---------------------------- MODULE CliRunProofs ----------------------------
(***************************************************************************)
(* Machine-checked proofs about CliRun, for any cluster, any command line  *)
(* and any number of failures and moves: what a lookup, a batch, a rollout *)
(* of patches and the command around them say and do.                      *)
(***************************************************************************)
EXTENDS CliRun, FiniteSetTheorems, SequenceTheorems, TLAPS

(***************************************************************************)
(* Lookups.                                                                *)
(***************************************************************************)
Looks ==
  [phase : Phases, full : BOOLEAN, at : Nodes \cup {Absent}, known : BOOLEAN,
   left : SUBSET Nodes, off : SUBSET Nodes, erred : BOOLEAN,
   typed : {0} \cup Failures, code : {0} \cup Failures, moved : BOOLEAN]

\* A request that fails is counted, within the bound.
LEMMA FaultCounts ==
  ASSUME faults \in 0..MaxFaults, NEW c, Fault(c)
  PROVE  faults' \in 0..MaxFaults /\ c \in Failures
BY LookupAssumption DEF Fault

LEMMA NodeFailsCounts ==
  ASSUME faults \in 0..MaxFaults, NEW n, NEW c, NodeFails(n, c)
  PROVE  faults' \in 0..MaxFaults /\ c \in Failures
BY FaultCounts DEF NodeFails

LEMMA ClusterFailsCounts ==
  ASSUME faults \in 0..MaxFaults, NEW c, ClusterFails(c)
  PROVE  faults' \in 0..MaxFaults /\ c \in Failures \ {NotFound}
BY FaultCounts DEF ClusterFails


\* What the two ends of a lookup leave behind.
LEMMA FoundFields ==
  ASSUME look \in Looks, NEW n \in Nodes \cup {Absent}, Found(n)
  PROVE  look' \in Looks /\ look'.phase = "done" /\ look'.code = 0 /\ look'.typed = look.typed
BY DEF Looks, Found, Phases

LEMMA FailedFields ==
  ASSUME look \in Looks, NEW c \in {0} \cup Failures, Failed(c)
  PROVE  /\ look' \in Looks /\ look'.phase = "done" /\ look'.code = c
         /\ look'.typed = look.typed /\ look'.moved = look.moved
BY DEF Looks, Failed, Phases

\* A lookup that ends without "not found", or rightly, keeps the invariant.
LEMMA LookupDone ==
  ASSUME LookupInv, faults' \in 0..MaxFaults, UNCHANGED worldvars,
         look' \in Looks, look'.phase = "done", look'.typed = look.typed,
         look'.code = NotFound /\ ~look'.moved => host = Absent
  PROVE  LookupInv'
BY DEF LookupInv, LookupTypeOK, NotFoundIsTrue, worldvars, Looks

\* One that goes on keeps it when it has not passed the guest by.
LEMMA LookupGoesOn ==
  ASSUME LookupInv, faults' \in 0..MaxFaults, UNCHANGED worldvars,
         look' \in Looks, look'.phase # "done", look'.typed # NotFound,
         ~look'.moved /\ look'.phase = "walk" /\ ~look'.erred => host \in look'.left \cup {Absent},
         ~look'.moved /\ look'.phase = "sweep" =>
            host \in look'.left \cup look'.off \cup {Absent}
  PROVE  LookupInv'
BY DEF LookupInv, LookupTypeOK, NotFoundIsTrue, worldvars, Looks

LEMMA LookupFacts ==
  ASSUME LookupInv
  PROVE  /\ look \in Looks /\ faults \in 0..MaxFaults /\ host \in Nodes \cup {Absent}
         /\ up \subseteq Nodes /\ look.typed # NotFound
BY DEF LookupInv, LookupTypeOK, Looks

LEMMA Codes ==
  Failures = {1, 4, 5, 7} /\ Other = 1 /\ NotFound = 5 /\ Denied = 4 /\ Transient = 7
BY DEF Failures, Other, NotFound, Denied, Transient

\* Every step of a lookup keeps what has been found out so far.
LEMMA ReadResourcesStep ==
  ASSUME LookupInv, ReadResources PROVE LookupInv'
<1>0. look \in Looks /\ host \in Nodes \cup {Absent} /\ faults \in 0..MaxFaults
      /\ UNCHANGED worldvars /\ look.typed # NotFound
  BY LookupFacts DEF ReadResources
<1>1. CASE UNCHANGED faults /\ host = Absent /\ Failed(NotFound)
  BY <1>0, <1>1, FailedFields, LookupDone, Codes
<1>2. CASE UNCHANGED faults /\ Found(host)
  BY <1>0, <1>2, FoundFields, LookupDone, Codes
<1>3. CASE UNCHANGED faults /\ look' = [look EXCEPT !.phase = "confirm", !.at = host]
  <2>1. look' \in Looks /\ look'.phase = "confirm" /\ look'.typed = look.typed
    BY <1>0, <1>3 DEF Looks, Phases
  <2> QED BY <1>0, <1>3, <2>1, LookupGoesOn
<1>4. CASE \E c \in Failures : ClusterFails(c) /\ look' = [look EXCEPT !.phase = "nodes"]
  <2>1. look' \in Looks /\ look'.phase = "nodes" /\ look'.typed = look.typed
    BY <1>0, <1>4 DEF Looks, Phases
  <2>2. faults' \in 0..MaxFaults
    BY <1>0, <1>4, ClusterFailsCounts
  <2> QED BY <1>0, <2>1, <2>2, LookupGoesOn
<1> QED BY <1>1, <1>2, <1>3, <1>4 DEF ReadResources

LEMMA ConfirmStep ==
  ASSUME LookupInv, Confirm PROVE LookupInv'
<1>0. look \in Looks /\ host \in Nodes \cup {Absent} /\ faults \in 0..MaxFaults
      /\ UNCHANGED worldvars /\ look.typed # NotFound
  BY LookupFacts DEF Confirm
<1>1. CASE NodeReplies(look.at) /\ Found(host)
  BY <1>0, <1>1, FoundFields, LookupDone, Codes DEF NodeReplies
<1>2. CASE NodeReplies(look.at) /\ look' = [look EXCEPT !.phase = "nodes", !.known = TRUE]
  <2>1. look' \in Looks /\ look'.phase = "nodes" /\ look'.typed = look.typed
    BY <1>0, <1>2 DEF Looks, Phases
  <2> QED BY <1>0, <1>2, <2>1, LookupGoesOn DEF NodeReplies
<1>3. CASE \E c \in Failures : NodeFails(look.at, c) /\ Failed(Wrap(c))
  <2>1. PICK c \in Failures : NodeFails(look.at, c) /\ Failed(Wrap(c))
    BY <1>3
  <2>2. faults' \in 0..MaxFaults /\ Wrap(c) \in Failures \ {NotFound}
    BY <1>0, <2>1, NodeFailsCounts, Codes DEF Wrap
  <2> QED BY <1>0, <2>1, <2>2, FailedFields, LookupDone
<1> QED BY <1>1, <1>2, <1>3 DEF Confirm

LEMMA WalkNodesStep ==
  ASSUME LookupInv, WalkNodes PROVE LookupInv'
<1>0. look \in Looks /\ host \in Nodes \cup {Absent} /\ faults \in 0..MaxFaults
      /\ UNCHANGED worldvars /\ look.typed # NotFound
  BY LookupFacts DEF WalkNodes
<1>1. CASE UNCHANGED faults /\ look' = [look EXCEPT !.phase = "walk", !.left = Nodes]
  <2>1. look' \in Looks /\ look'.phase = "walk" /\ look'.typed = look.typed /\ look'.left = Nodes
    BY <1>0, <1>1 DEF Looks, Phases
  <2> QED BY <1>0, <1>1, <2>1, LookupGoesOn
<1>2. CASE \E c \in Failures : ClusterFails(c) /\ Failed(c)
  BY <1>0, <1>2, ClusterFailsCounts, FailedFields, LookupDone
<1> QED BY <1>1, <1>2 DEF WalkNodes

LEMMA WalkNodeStep ==
  ASSUME LookupInv, WalkNode PROVE LookupInv'
<1>0. /\ look \in Looks /\ host \in Nodes \cup {Absent} /\ faults \in 0..MaxFaults
      /\ UNCHANGED worldvars /\ look.typed # NotFound /\ look.phase = "walk"
  BY LookupFacts DEF WalkNode
<1>1. PICK n \in look.left :
        \/ NodeReplies(n) /\ host = n /\ Found(n)
        \/ NodeReplies(n) /\ host # n /\ look' = [look EXCEPT !.left = @ \ {n}]
        \/ \E c \in Failures :
             /\ NodeFails(n, c)
             /\ look' = [look EXCEPT !.left = @ \ {n}, !.erred = TRUE,
                           !.typed = IF @ = 0 /\ c # NotFound THEN c ELSE @]
  BY DEF WalkNode
<1>2. CASE NodeReplies(n) /\ host = n /\ Found(n)
  BY <1>0, <1>2, FoundFields, LookupDone, Codes DEF NodeReplies
<1>3. CASE NodeReplies(n) /\ host # n /\ look' = [look EXCEPT !.left = @ \ {n}]
  <2>1. /\ look' \in Looks /\ look'.phase = "walk" /\ look'.typed = look.typed
        /\ look'.left = look.left \ {n} /\ look'.moved = look.moved /\ look'.erred = look.erred
    BY <1>0, <1>3 DEF Looks
  <2>2. ~look.moved /\ ~look.erred => host \in look.left \cup {Absent}
    BY <1>0 DEF LookupInv
  <2> QED BY <1>0, <1>3, <2>1, <2>2, LookupGoesOn DEF NodeReplies
<1>4. CASE \E c \in Failures :
             /\ NodeFails(n, c)
             /\ look' = [look EXCEPT !.left = @ \ {n}, !.erred = TRUE,
                           !.typed = IF @ = 0 /\ c # NotFound THEN c ELSE @]
  <2>1. PICK c \in Failures :
             /\ NodeFails(n, c)
             /\ look' = [look EXCEPT !.left = @ \ {n}, !.erred = TRUE,
                           !.typed = IF @ = 0 /\ c # NotFound THEN c ELSE @]
    BY <1>4
  <2>2. faults' \in 0..MaxFaults
    BY <1>0, <2>1, NodeFailsCounts
  <2>3. /\ look' \in Looks /\ look'.phase = "walk" /\ look'.typed # NotFound /\ look'.erred
    BY <1>0, <2>1 DEF Looks
  <2> QED BY <1>0, <2>2, <2>3, LookupGoesOn
<1> QED BY <1>1, <1>2, <1>3, <1>4

LEMMA WalkEndsStep ==
  ASSUME LookupInv, WalkEnds PROVE LookupInv'
<1>0. /\ look \in Looks /\ host \in Nodes \cup {Absent} /\ faults \in 0..MaxFaults
      /\ UNCHANGED worldvars /\ UNCHANGED faults /\ look.typed # NotFound
      /\ look.phase = "walk" /\ look.left = {} /\ Failed(WalkVerdict)
  BY LookupFacts DEF WalkEnds
<1>1. WalkVerdict \in {0} \cup Failures /\ (WalkVerdict = NotFound => ~look.erred)
  BY <1>0, Codes DEF WalkVerdict, Looks
<1>2. ~look.moved /\ ~look.erred => host = Absent
  BY <1>0 DEF LookupInv
<1> QED BY <1>0, <1>1, <1>2, FailedFields, LookupDone

LEMMA SweepNodesStep ==
  ASSUME LookupInv, SweepNodes PROVE LookupInv'
<1>0. /\ look \in Looks /\ host \in Nodes \cup {Absent} /\ faults \in 0..MaxFaults
      /\ UNCHANGED worldvars /\ look.typed # NotFound /\ up \subseteq Nodes
  BY LookupFacts DEF SweepNodes
<1>1. CASE UNCHANGED faults
           /\ look' = [look EXCEPT !.phase = "sweep", !.left = up, !.off = Nodes \ up]
  <2>1. /\ look' \in Looks /\ look'.phase = "sweep" /\ look'.typed = look.typed
        /\ look'.left = up /\ look'.off = Nodes \ up
    BY <1>0, <1>1 DEF Looks, Phases
  <2> QED BY <1>0, <1>1, <2>1, LookupGoesOn
<1>2. CASE \E c \in Failures : ClusterFails(c) /\ Failed(Other)
  <2>1. faults' \in 0..MaxFaults
    BY <1>0, <1>2, ClusterFailsCounts
  <2> QED BY <1>0, <1>2, <2>1, FailedFields, LookupDone, Codes
<1> QED BY <1>1, <1>2 DEF SweepNodes

LEMMA SweepNodeStep ==
  ASSUME LookupInv, SweepNode PROVE LookupInv'
<1>0. /\ look \in Looks /\ host \in Nodes \cup {Absent} /\ faults \in 0..MaxFaults
      /\ UNCHANGED worldvars /\ look.typed # NotFound /\ look.phase = "sweep"
  BY LookupFacts DEF SweepNode
<1>1. PICK n \in look.left :
        \/ NodeReplies(n) /\ host = n /\ Found(n)
        \/ NodeReplies(n) /\ host # n /\ look' = [look EXCEPT !.left = @ \ {n}]
        \/ \E c \in Failures : NodeFails(n, c) /\ Failed(Other)
  BY DEF SweepNode
<1>2. CASE NodeReplies(n) /\ host = n /\ Found(n)
  BY <1>0, <1>2, FoundFields, LookupDone, Codes DEF NodeReplies
<1>3. CASE NodeReplies(n) /\ host # n /\ look' = [look EXCEPT !.left = @ \ {n}]
  <2>1. /\ look' \in Looks /\ look'.phase = "sweep" /\ look'.typed = look.typed
        /\ look'.left = look.left \ {n} /\ look'.moved = look.moved /\ look'.off = look.off
    BY <1>0, <1>3 DEF Looks
  <2>2. ~look.moved => host \in look.left \cup look.off \cup {Absent}
    BY <1>0 DEF LookupInv
  <2> QED BY <1>0, <1>3, <2>1, <2>2, LookupGoesOn DEF NodeReplies
<1>4. CASE \E c \in Failures : NodeFails(n, c) /\ Failed(Other)
  <2>1. faults' \in 0..MaxFaults
    BY <1>0, <1>4, NodeFailsCounts
  <2> QED BY <1>0, <1>4, <2>1, FailedFields, LookupDone, Codes
<1> QED BY <1>1, <1>2, <1>3, <1>4

LEMMA SweepEndsStep ==
  ASSUME LookupInv, SweepEnds PROVE LookupInv'
<1>0. /\ look \in Looks /\ host \in Nodes \cup {Absent} /\ faults \in 0..MaxFaults
      /\ UNCHANGED worldvars /\ UNCHANGED faults /\ look.typed # NotFound
      /\ look.phase = "sweep" /\ look.left = {}
  BY LookupFacts DEF SweepEnds
<1>1. CASE look.off = {} /\ Failed(NotFound)
  <2>1. ~look.moved => host = Absent
    BY <1>0, <1>1 DEF LookupInv
  <2> QED BY <1>0, <1>1, <2>1, FailedFields, LookupDone, Codes
<1>2. CASE look' = [look EXCEPT !.phase = "listed"]
  <2>1. look' \in Looks /\ look'.phase = "listed" /\ look'.typed = look.typed
    BY <1>0, <1>2 DEF Looks, Phases
  <2> QED BY <1>0, <1>2, <2>1, LookupGoesOn
<1> QED BY <1>1, <1>2 DEF SweepEnds

LEMMA SweepListedStep ==
  ASSUME LookupInv, SweepListed PROVE LookupInv'
<1>0. /\ look \in Looks /\ host \in Nodes \cup {Absent} /\ faults \in 0..MaxFaults
      /\ UNCHANGED worldvars /\ look.typed # NotFound
  BY LookupFacts DEF SweepListed
<1>1. CASE UNCHANGED faults /\ Failed(IF host = Absent THEN NotFound ELSE Other)
  BY <1>0, <1>1, FailedFields, LookupDone, Codes
<1>2. CASE \E c \in Failures : ClusterFails(c) /\ Failed(Other)
  <2>1. faults' \in 0..MaxFaults
    BY <1>0, <1>2, ClusterFailsCounts
  <2> QED BY <1>0, <1>2, <2>1, FailedFields, LookupDone, Codes
<1> QED BY <1>1, <1>2 DEF SweepListed

LEMMA LookupSteps ==
  ASSUME LookupInv, LookupNext
  PROVE  LookupInv'
BY ReadResourcesStep, ConfirmStep, WalkNodesStep, WalkNodeStep, WalkEndsStep,
   SweepNodesStep, SweepNodeStep, SweepEndsStep, SweepListedStep DEF LookupNext

\* The cluster's own steps.
LEMMA LookupWorld ==
  ASSUME LookupInv, GuestMoves \/ NodeTurns, Looking
  PROVE  LookupInv'
<1>0. /\ look \in Looks /\ host \in Nodes \cup {Absent} /\ faults \in 0..MaxFaults
      /\ moves \in 0..MaxMoves /\ up \subseteq Nodes /\ look.phase # "done" /\ look.typed # NotFound
  BY LookupFacts DEF LookupInv, LookupTypeOK, Looking
<1>1. CASE GuestMoves
  <2>0. look' = [look EXCEPT !.moved = TRUE] /\ moves' \in 0..MaxMoves
    BY <1>0, <1>1, LookupAssumption DEF GuestMoves
  <2>1. look' \in Looks /\ look'.moved = TRUE /\ look'.typed = look.typed
    BY <1>0, <2>0 DEF Looks
  <2>2. UNCHANGED <<up, kind, faults>>
    BY <1>1 DEF GuestMoves
  <2>3. host' \in Nodes \cup {Absent}
    BY <1>0, <1>1 DEF GuestMoves
  <2>4. LookupTypeOK'
    BY <1>0, <2>0, <2>1, <2>2, <2>3 DEF LookupInv, LookupTypeOK, Looks
  <2> QED
    BY <1>0, <2>0, <2>1, <2>4 DEF LookupInv, NotFoundIsTrue
<1>2. CASE NodeTurns
  <2>1. moves' \in 0..MaxMoves /\ up' \subseteq Nodes
    BY <1>0, <1>2, LookupAssumption DEF NodeTurns
  <2> QED
    BY <1>0, <1>2, <2>1 DEF NodeTurns, LookupInv, LookupTypeOK, NotFoundIsTrue, Looks
<1> QED BY <1>1, <1>2

(***************************************************************************)
(* Rollouts of patches.                                                    *)
(***************************************************************************)
Rollouts ==
  [phase : {"idle", "list", "plan", "next", "upgrade", "reboot", "wait", "detail", "done"},
   apply : BOOLEAN, dry : BOOLEAN, policy : {"auto", "always", "never"},
   locked : BOOLEAN, left : SUBSET Nodes,
   st : [Nodes -> {"out", "pending", "skipped", "failed", "done"}],
   need : SUBSET Nodes, node : Nodes \cup {Absent}, offline : BOOLEAN,
   recorded : SUBSET Nodes, started : SUBSET Nodes, upgraded : SUBSET Nodes,
   told : SUBSET Nodes, down : SUBSET Nodes, mistaken : SUBSET Nodes,
   code : {0, 8} \cup Failures]


LEMMA PatchListStep ==
  ASSUME PatchInv, ListOnline, up \subseteq Nodes
  PROVE  PatchInv'
<1>0. pt \in Rollouts /\ pt.phase = "list" /\ UNCHANGED up
  BY DEF PatchInv, PatchTypeOK, Rollouts, ListOnline, worldvars
<1>1. CASE \E c \in Failures : ClusterFails(c) /\ PatchExits(c)
  <2>1. PICK c \in Failures : PatchExits(c)
    BY <1>1
  <2>2. pt' \in Rollouts
    BY <1>0, <2>1, Codes DEF PatchExits, Rollouts
  <2>3. /\ pt'.phase = "done"
        /\ pt'.code = c
        /\ UNCHANGED <<pt.apply, pt.dry, pt.policy, pt.locked, pt.left, pt.st, pt.need,
                        pt.node, pt.offline, pt.recorded, pt.started, pt.upgraded, pt.told,
                        pt.down, pt.mistaken>>
    BY <1>0, <2>1 DEF PatchExits, Rollouts
  <2>4. UntouchedInv'
    BY <1>0, <2>3, Codes DEF PatchInv, UntouchedInv, Rebooting
  <2>5. NodeInv'
    BY <1>0, <2>3, Codes DEF PatchInv, NodeInv, UntouchedInv, Rebooting, Patching, Rollouts
  <2>6. RebootInv'
    BY <1>0, <2>3, Codes DEF PatchInv, RebootInv, UntouchedInv, Rebooting, Rollouts
  <2>7. PatchExitIsTrue'
    BY <1>0, <2>3, Codes DEF PatchInv, PatchExitIsTrue, PatchOver
  <2>8. (pt'.started \cup pt'.told \cup pt'.down) \subseteq pt'.recorded /\ pt'.phase # "idle"
    BY <1>0, <2>3 DEF PatchInv, UntouchedInv, NodeInv, Rebooting, Patching
  <2>9. PatchTypeOK'
    BY <1>0, <2>2, <2>3 DEF PatchInv, PatchTypeOK, Rollouts, NodeInv, Patching, Rebooting
  <2> QED
    BY <2>4, <2>5, <2>6, <2>7, <2>8, <2>9 DEF PatchInv, Rebooting
<1>2. CASE \E only \in SUBSET Nodes \ {{}} :
             pt' = [pt EXCEPT !.phase = "plan", !.left = up \cap only]
  <2>1. PICK only \in SUBSET Nodes : pt' = [pt EXCEPT !.phase = "plan", !.left = up \cap only]
    BY <1>2
  <2>2. pt' \in Rollouts
    BY <1>0, <2>1, Codes DEF Rollouts
  <2>3. /\ pt'.phase = "plan"
        /\ pt'.left = up \cap only
        /\ UNCHANGED <<pt.apply, pt.dry, pt.policy, pt.locked, pt.st, pt.need, pt.node,
                        pt.offline, pt.recorded, pt.started, pt.upgraded, pt.told, pt.down,
                        pt.mistaken, pt.code>>
    BY <1>0, <2>1 DEF Rollouts
  <2>4. UntouchedInv'
    BY <1>0, <2>3, Codes DEF PatchInv, UntouchedInv, Rebooting
  <2>5. NodeInv'
    BY <1>0, <2>3, Codes DEF PatchInv, NodeInv, UntouchedInv, Rebooting, Patching, Rollouts
  <2>6. RebootInv'
    BY <1>0, <2>3, Codes DEF PatchInv, RebootInv, UntouchedInv, Rebooting, Rollouts
  <2>7. PatchExitIsTrue'
    BY <1>0, <2>3, Codes DEF PatchInv, PatchExitIsTrue, PatchOver
  <2>8. (pt'.started \cup pt'.told \cup pt'.down) \subseteq pt'.recorded /\ pt'.phase # "idle"
    BY <1>0, <2>3 DEF PatchInv, UntouchedInv, NodeInv, Rebooting, Patching
  <2>9. PatchTypeOK'
    BY <1>0, <2>2, <2>3 DEF PatchInv, PatchTypeOK, Rollouts, NodeInv, Patching, Rebooting
  <2> QED
    BY <2>4, <2>5, <2>6, <2>7, <2>8, <2>9 DEF PatchInv, Rebooting
<1> QED BY <1>1, <1>2 DEF ListOnline

LEMMA PlanNodeStep ==
  ASSUME PatchInv, PlanNode
  PROVE  PatchInv'
<1>0. pt \in Rollouts /\ pt.phase = "plan" /\ UNCHANGED up
  BY DEF PatchInv, PatchTypeOK, Rollouts, PlanNode, worldvars
<1>1. PICK n \in pt.left :
        \/ /\ ~pt.locked
           /\ \E found \in {"none", "userspace", "kernel"} :
                pt' = [pt EXCEPT !.left = @ \ {n},
                         !.st[n] = IF found = "none" THEN "skipped" ELSE "pending",
                         !.need = IF found = "kernel" THEN @ \cup {n} ELSE @]
        \/ pt' = [pt EXCEPT !.left = @ \ {n}, !.st[n] = "failed"]
  BY DEF PlanNode
<1>2. n \in Nodes
  BY <1>0, <1>1 DEF Rollouts
<1>3. CASE /\ ~pt.locked
           /\ \E found \in {"none", "userspace", "kernel"} :
                pt' = [pt EXCEPT !.left = @ \ {n},
                         !.st[n] = IF found = "none" THEN "skipped" ELSE "pending",
                         !.need = IF found = "kernel" THEN @ \cup {n} ELSE @]
  <2>1. PICK found \in {"none", "userspace", "kernel"} :
           pt' = [pt EXCEPT !.left = @ \ {n},
                    !.st[n] = IF found = "none" THEN "skipped" ELSE "pending",
                    !.need = IF found = "kernel" THEN @ \cup {n} ELSE @]
    BY <1>3
  <2>2. pt' \in Rollouts
    BY <1>0, <1>2, <2>1, Codes DEF Rollouts
  <2>3. /\ pt'.left = pt.left \ {n}
        /\ pt'.st = [pt.st EXCEPT ![n] = IF found = "none" THEN "skipped" ELSE "pending"]
        /\ pt'.need = IF found = "kernel" THEN pt.need \cup {n} ELSE pt.need
        /\ UNCHANGED <<pt.phase, pt.apply, pt.dry, pt.policy, pt.locked, pt.node, pt.offline,
                        pt.recorded, pt.started, pt.upgraded, pt.told, pt.down, pt.mistaken,
                        pt.code>>
    BY <1>0, <1>2, <2>1 DEF Rollouts
  <2>4. UntouchedInv'
    BY <1>0, <2>3, <1>1, <1>2, Codes DEF PatchInv, UntouchedInv, Rebooting
  <2>5. NodeInv'
    BY <1>0, <2>3, <1>2, <1>3, Codes DEF PatchInv, NodeInv, UntouchedInv, Rebooting, Patching, Rollouts
  <2>6. RebootInv'
    BY <1>0, <2>3, <1>1, <1>2, Codes DEF PatchInv, RebootInv, UntouchedInv, Rebooting, Rollouts
  <2>7. PatchExitIsTrue'
    BY <1>0, <2>3, <1>2, Codes DEF PatchInv, PatchExitIsTrue, PatchOver
  <2>8. (pt'.started \cup pt'.told \cup pt'.down) \subseteq pt'.recorded /\ pt'.phase # "idle"
    BY <1>0, <2>3 DEF PatchInv, UntouchedInv, NodeInv, Rebooting, Patching
  <2>9. PatchTypeOK'
    BY <1>0, <2>2, <2>3 DEF PatchInv, PatchTypeOK, Rollouts, NodeInv, Patching, Rebooting
  <2> QED
    BY <2>4, <2>5, <2>6, <2>7, <2>8, <2>9 DEF PatchInv, Rebooting
<1>4. CASE pt' = [pt EXCEPT !.left = @ \ {n}, !.st[n] = "failed"]
  <2>1. pt' \in Rollouts
    BY <1>0, <1>2, <1>4, Codes DEF Rollouts
  <2>2. /\ pt'.left = pt.left \ {n}
        /\ pt'.st = [pt.st EXCEPT ![n] = "failed"]
        /\ UNCHANGED <<pt.phase, pt.apply, pt.dry, pt.policy, pt.locked, pt.need, pt.node,
                        pt.offline, pt.recorded, pt.started, pt.upgraded, pt.told, pt.down,
                        pt.mistaken, pt.code>>
    BY <1>0, <1>2, <1>4 DEF Rollouts
  <2>3. UntouchedInv'
    BY <1>0, <2>2, Codes DEF PatchInv, UntouchedInv, Rebooting
  <2>4. NodeInv'
    BY <1>0, <2>2, <1>2, Codes DEF PatchInv, NodeInv, UntouchedInv, Rebooting, Patching, Rollouts
  <2>5. RebootInv'
    BY <1>0, <2>2, <1>1, <1>2, Codes DEF PatchInv, RebootInv, UntouchedInv, Rebooting, Rollouts
  <2>6. PatchExitIsTrue'
    BY <1>0, <2>2, Codes DEF PatchInv, PatchExitIsTrue, PatchOver
  <2>7. (pt'.started \cup pt'.told \cup pt'.down) \subseteq pt'.recorded /\ pt'.phase # "idle"
    BY <1>0, <2>2 DEF PatchInv, UntouchedInv, NodeInv, Rebooting, Patching
  <2>8. PatchTypeOK'
    BY <1>0, <2>1, <2>2 DEF PatchInv, PatchTypeOK, Rollouts, NodeInv, Patching, Rebooting
  <2> QED
    BY <2>3, <2>4, <2>5, <2>6, <2>7, <2>8 DEF PatchInv, Rebooting
<1> QED BY <1>1, <1>3, <1>4

LEMMA PlannedStep ==
  ASSUME PatchInv, Planned
  PROVE  PatchInv'
<1>0. pt \in Rollouts /\ pt.phase = "plan" /\ UNCHANGED up
  BY DEF PatchInv, PatchTypeOK, Rollouts, Planned, worldvars
<1>1. CASE pt.apply /\ pt' = [pt EXCEPT !.phase = "next"]
  <2>1. pt' \in Rollouts
    BY <1>0, <1>1, Codes DEF Rollouts
  <2>2. /\ pt'.phase = "next"
        /\ UNCHANGED <<pt.apply, pt.dry, pt.policy, pt.locked, pt.left, pt.st, pt.need,
                        pt.node, pt.offline, pt.recorded, pt.started, pt.upgraded, pt.told,
                        pt.down, pt.mistaken, pt.code>>
    BY <1>0, <1>1 DEF Rollouts
  <2>3. UntouchedInv'
    BY <1>0, <2>2, Codes DEF PatchInv, UntouchedInv, Rebooting
  <2>4. NodeInv'
    BY <1>0, <2>2, <1>1, Codes DEF PatchInv, NodeInv, UntouchedInv, Rebooting, Patching, Rollouts
  <2>5. RebootInv'
    BY <1>0, <2>2, Codes DEF PatchInv, RebootInv, UntouchedInv, Rebooting, Rollouts
  <2>6. PatchExitIsTrue'
    BY <1>0, <2>2, Codes DEF PatchInv, PatchExitIsTrue, PatchOver
  <2>7. (pt'.started \cup pt'.told \cup pt'.down) \subseteq pt'.recorded /\ pt'.phase # "idle"
    BY <1>0, <2>2 DEF PatchInv, UntouchedInv, NodeInv, Rebooting, Patching
  <2>8. PatchTypeOK'
    BY <1>0, <2>1, <2>2 DEF PatchInv, PatchTypeOK, Rollouts, NodeInv, Patching, Rebooting
  <2> QED
    BY <2>3, <2>4, <2>5, <2>6, <2>7, <2>8 DEF PatchInv, Rebooting
<1>2. CASE ~pt.apply /\ PatchExits(0)
  <2>1. pt' \in Rollouts
    BY <1>0, <1>2, Codes DEF PatchExits, Rollouts
  <2>2. /\ pt'.phase = "done"
        /\ pt'.code = 0
        /\ UNCHANGED <<pt.apply, pt.dry, pt.policy, pt.locked, pt.left, pt.st, pt.need,
                        pt.node, pt.offline, pt.recorded, pt.started, pt.upgraded, pt.told,
                        pt.down, pt.mistaken>>
    BY <1>0, <1>2 DEF PatchExits, Rollouts
  <2>3. UntouchedInv'
    BY <1>0, <2>2, Codes DEF PatchInv, UntouchedInv, Rebooting
  <2>4. NodeInv'
    BY <1>0, <2>2, Codes DEF PatchInv, NodeInv, UntouchedInv, Rebooting, Patching, Rollouts
  <2>5. RebootInv'
    BY <1>0, <2>2, Codes DEF PatchInv, RebootInv, UntouchedInv, Rebooting, Rollouts
  <2>6. PatchExitIsTrue'
    BY <1>0, <2>2, <1>2, Codes DEF PatchInv, PatchExitIsTrue, PatchOver
  <2>7. (pt'.started \cup pt'.told \cup pt'.down) \subseteq pt'.recorded /\ pt'.phase # "idle"
    BY <1>0, <2>2 DEF PatchInv, UntouchedInv, NodeInv, Rebooting, Patching
  <2>8. PatchTypeOK'
    BY <1>0, <2>1, <2>2 DEF PatchInv, PatchTypeOK, Rollouts, NodeInv, Patching, Rebooting
  <2> QED
    BY <2>3, <2>4, <2>5, <2>6, <2>7, <2>8 DEF PatchInv, Rebooting
<1> QED BY <1>1, <1>2 DEF Planned

LEMMA TakeNodeStep ==
  ASSUME PatchInv, TakeNode
  PROVE  PatchInv'
<1>0. pt \in Rollouts /\ pt.phase = "next" /\ UNCHANGED up
  BY DEF PatchInv, PatchTypeOK, Rollouts, TakeNode, worldvars
<1>1. PICK n \in Nodes :
        /\ pt.st[n] = "pending"
        /\ \/ pt.dry /\ pt' = [pt EXCEPT !.st[n] = "done"]
           \/ ~pt.dry /\ PatchExits(8)
           \/ ~pt.dry /\ pt' = [pt EXCEPT !.phase = "upgrade", !.node = n,
                                  !.recorded = @ \cup {n}]
  BY DEF TakeNode
<1>2. CASE pt.dry /\ pt' = [pt EXCEPT !.st[n] = "done"]
  <2>1. pt' \in Rollouts
    BY <1>0, <1>1, <1>2, Codes DEF Rollouts
  <2>2. /\ pt'.st = [pt.st EXCEPT ![n] = "done"]
        /\ UNCHANGED <<pt.phase, pt.apply, pt.dry, pt.policy, pt.locked, pt.left, pt.need,
                        pt.node, pt.offline, pt.recorded, pt.started, pt.upgraded, pt.told,
                        pt.down, pt.mistaken, pt.code>>
    BY <1>0, <1>1, <1>2 DEF Rollouts
  <2>3. UntouchedInv'
    BY <1>0, <2>2, Codes DEF PatchInv, UntouchedInv, Rebooting
  <2>4. NodeInv'
    BY <1>0, <2>2, <1>1, <1>2, Codes DEF PatchInv, NodeInv, UntouchedInv, Rebooting, Patching, Rollouts
  <2>5. RebootInv'
    BY <1>0, <2>2, <1>1, Codes DEF PatchInv, RebootInv, UntouchedInv, Rebooting, Rollouts
  <2>6. PatchExitIsTrue'
    BY <1>0, <2>2, Codes DEF PatchInv, PatchExitIsTrue, PatchOver
  <2>7. (pt'.started \cup pt'.told \cup pt'.down) \subseteq pt'.recorded /\ pt'.phase # "idle"
    BY <1>0, <2>2 DEF PatchInv, UntouchedInv, NodeInv, Rebooting, Patching
  <2>8. PatchTypeOK'
    BY <1>0, <2>1, <2>2 DEF PatchInv, PatchTypeOK, Rollouts, NodeInv, Patching, Rebooting
  <2> QED
    BY <2>3, <2>4, <2>5, <2>6, <2>7, <2>8 DEF PatchInv, Rebooting
<1>3. CASE ~pt.dry /\ PatchExits(8)
  <2>1. pt' \in Rollouts
    BY <1>0, <1>3, Codes DEF PatchExits, Rollouts
  <2>2. /\ pt'.phase = "done"
        /\ pt'.code = 8
        /\ UNCHANGED <<pt.apply, pt.dry, pt.policy, pt.locked, pt.left, pt.st, pt.need,
                        pt.node, pt.offline, pt.recorded, pt.started, pt.upgraded, pt.told,
                        pt.down, pt.mistaken>>
    BY <1>0, <1>3 DEF PatchExits, Rollouts
  <2>3. UntouchedInv'
    BY <1>0, <2>2, Codes DEF PatchInv, UntouchedInv, Rebooting
  <2>4. NodeInv'
    BY <1>0, <2>2, Codes DEF PatchInv, NodeInv, UntouchedInv, Rebooting, Patching, Rollouts
  <2>5. RebootInv'
    BY <1>0, <2>2, Codes DEF PatchInv, RebootInv, UntouchedInv, Rebooting, Rollouts
  <2>6. PatchExitIsTrue'
    BY <1>0, <2>2, Codes DEF PatchInv, PatchExitIsTrue, PatchOver
  <2>7. (pt'.started \cup pt'.told \cup pt'.down) \subseteq pt'.recorded /\ pt'.phase # "idle"
    BY <1>0, <2>2 DEF PatchInv, UntouchedInv, NodeInv, Rebooting, Patching
  <2>8. PatchTypeOK'
    BY <1>0, <2>1, <2>2 DEF PatchInv, PatchTypeOK, Rollouts, NodeInv, Patching, Rebooting
  <2> QED
    BY <2>3, <2>4, <2>5, <2>6, <2>7, <2>8 DEF PatchInv, Rebooting
<1>4. CASE ~pt.dry /\ pt' = [pt EXCEPT !.phase = "upgrade", !.node = n, !.recorded = @ \cup {n}]
  <2>1. pt' \in Rollouts
    BY <1>0, <1>1, <1>4, Codes DEF Rollouts
  <2>2. /\ pt'.phase = "upgrade"
        /\ pt'.node = n
        /\ pt'.recorded = pt.recorded \cup {n}
        /\ UNCHANGED <<pt.apply, pt.dry, pt.policy, pt.locked, pt.left, pt.st, pt.need,
                        pt.offline, pt.started, pt.upgraded, pt.told, pt.down, pt.mistaken,
                        pt.code>>
    BY <1>0, <1>1, <1>4 DEF Rollouts
  <2>3. UntouchedInv'
    BY <1>0, <2>2, Codes DEF PatchInv, UntouchedInv, Rebooting
  <2>4. NodeInv'
    BY <1>0, <2>2, <1>1, <1>4, Codes DEF PatchInv, NodeInv, UntouchedInv, Rebooting, Patching, Rollouts
  <2>5. RebootInv'
    BY <1>0, <2>2, <1>1, Codes DEF PatchInv, RebootInv, UntouchedInv, Rebooting, Rollouts
  <2>6. PatchExitIsTrue'
    BY <1>0, <2>2, Codes DEF PatchInv, PatchExitIsTrue, PatchOver
  <2>7. (pt'.started \cup pt'.told \cup pt'.down) \subseteq pt'.recorded /\ pt'.phase # "idle"
    BY <1>0, <2>2 DEF PatchInv, UntouchedInv, NodeInv, Rebooting, Patching
  <2>8. PatchTypeOK'
    BY <1>0, <2>1, <2>2 DEF PatchInv, PatchTypeOK, Rollouts, NodeInv, Patching, Rebooting
  <2> QED
    BY <2>3, <2>4, <2>5, <2>6, <2>7, <2>8 DEF PatchInv, Rebooting
<1> QED BY <1>1, <1>2, <1>3, <1>4

LEMMA RunUpgradeStep ==
  ASSUME PatchInv, RunUpgrade
  PROVE  PatchInv'
<1>0. pt \in Rollouts /\ pt.phase = "upgrade" /\ UNCHANGED up
  BY DEF PatchInv, PatchTypeOK, Rollouts, RunUpgrade, worldvars
<1>1. /\ pt.node \in Nodes /\ pt.node \in pt.recorded /\ pt.st[pt.node] = "pending"
      /\ pt.apply = TRUE /\ pt.dry = FALSE /\ pt.locked = FALSE /\ pt.told \cap pt.down = {}
  BY <1>0 DEF PatchInv, PatchTypeOK, NodeInv, Patching, Rollouts
<1>2. CASE pt' = [pt EXCEPT !.started = @ \cup {pt.node}, !.upgraded = @ \cup {pt.node},
                   !.phase = "reboot"]
  <2>1. pt' \in Rollouts
    BY <1>0, <1>1, <1>2, Codes DEF Rollouts
  <2>2. /\ pt'.phase = "reboot"
        /\ pt'.started = pt.started \cup {pt.node}
        /\ pt'.upgraded = pt.upgraded \cup {pt.node}
        /\ UNCHANGED <<pt.apply, pt.dry, pt.policy, pt.locked, pt.left, pt.st, pt.need,
                        pt.node, pt.offline, pt.recorded, pt.told, pt.down, pt.mistaken, pt.code>>
    BY <1>0, <1>1, <1>2 DEF Rollouts
  <2>3. UntouchedInv'
    BY <1>0, <2>2, <1>1, Codes DEF PatchInv, UntouchedInv, Rebooting
  <2>4. NodeInv'
    BY <1>0, <2>2, <1>1, Codes DEF PatchInv, NodeInv, UntouchedInv, Rebooting, Patching, Rollouts
  <2>5. RebootInv'
    BY <1>0, <2>2, <1>1, Codes DEF PatchInv, RebootInv, UntouchedInv, Rebooting, Rollouts
  <2>6. PatchExitIsTrue'
    BY <1>0, <2>2, Codes DEF PatchInv, PatchExitIsTrue, PatchOver
  <2>7. (pt'.started \cup pt'.told \cup pt'.down) \subseteq pt'.recorded /\ pt'.phase # "idle"
    BY <1>0, <2>2, <1>1 DEF PatchInv, UntouchedInv, NodeInv, Rebooting, Patching
  <2>8. PatchTypeOK'
    BY <1>0, <2>1, <2>2, <1>1 DEF PatchInv, PatchTypeOK, Rollouts, NodeInv, Patching, Rebooting
  <2> QED
    BY <2>3, <2>4, <2>5, <2>6, <2>7, <2>8 DEF PatchInv, Rebooting
<1>3. CASE pt' = [pt EXCEPT !.started = @ \cup {pt.node}, !.upgraded = @ \cup {pt.node},
                   !.phase = "next", !.st[pt.node] = "done"]
  <2>1. pt' \in Rollouts
    BY <1>0, <1>1, <1>3, Codes DEF Rollouts
  <2>2. /\ pt'.phase = "next"
        /\ pt'.st = [pt.st EXCEPT ![pt.node] = "done"]
        /\ pt'.started = pt.started \cup {pt.node}
        /\ pt'.upgraded = pt.upgraded \cup {pt.node}
        /\ UNCHANGED <<pt.apply, pt.dry, pt.policy, pt.locked, pt.left, pt.need, pt.node,
                        pt.offline, pt.recorded, pt.told, pt.down, pt.mistaken, pt.code>>
    BY <1>0, <1>1, <1>3 DEF Rollouts
  <2>3. UntouchedInv'
    BY <1>0, <2>2, <1>1, Codes DEF PatchInv, UntouchedInv, Rebooting
  <2>4. NodeInv'
    BY <1>0, <2>2, <1>1, Codes DEF PatchInv, NodeInv, UntouchedInv, Rebooting, Patching, Rollouts
  <2>5. RebootInv'
    BY <1>0, <2>2, <1>1, Codes DEF PatchInv, RebootInv, UntouchedInv, Rebooting, Rollouts
  <2>6. PatchExitIsTrue'
    BY <1>0, <2>2, Codes DEF PatchInv, PatchExitIsTrue, PatchOver
  <2>7. (pt'.started \cup pt'.told \cup pt'.down) \subseteq pt'.recorded /\ pt'.phase # "idle"
    BY <1>0, <2>2, <1>1 DEF PatchInv, UntouchedInv, NodeInv, Rebooting, Patching
  <2>8. PatchTypeOK'
    BY <1>0, <2>1, <2>2, <1>1 DEF PatchInv, PatchTypeOK, Rollouts, NodeInv, Patching, Rebooting
  <2> QED
    BY <2>3, <2>4, <2>5, <2>6, <2>7, <2>8 DEF PatchInv, Rebooting
<1>4. CASE \E ran \in {{}, {pt.node}} : pt' = [NodeFailed EXCEPT !.started = @ \cup ran]
  <2>1. PICK ran \in {{}, {pt.node}} : pt' = [NodeFailed EXCEPT !.started = @ \cup ran]
    BY <1>4
  <2>2. pt' \in Rollouts
    BY <1>0, <1>1, <2>1, Codes DEF NodeFailed, Rollouts
  <2>3. /\ pt'.phase = "done"
        /\ pt'.code = Other
        /\ pt'.st = [pt.st EXCEPT ![pt.node] = "failed"]
        /\ pt'.started = pt.started \cup ran
        /\ UNCHANGED <<pt.apply, pt.dry, pt.policy, pt.locked, pt.left, pt.need, pt.node,
                        pt.offline, pt.recorded, pt.upgraded, pt.told, pt.down, pt.mistaken>>
    BY <1>0, <1>1, <2>1 DEF NodeFailed, Rollouts
  <2>4. UntouchedInv'
    BY <1>0, <2>3, <1>1, <2>1, Codes DEF PatchInv, UntouchedInv, Rebooting
  <2>5. NodeInv'
    BY <1>0, <2>3, <1>1, <2>1, Codes DEF PatchInv, NodeInv, UntouchedInv, Rebooting, Patching, Rollouts
  <2>6. RebootInv'
    BY <1>0, <2>3, <1>1, <2>1, Codes DEF PatchInv, RebootInv, UntouchedInv, Rebooting, Rollouts
  <2>7. PatchExitIsTrue'
    BY <1>0, <2>3, Codes DEF PatchInv, PatchExitIsTrue, PatchOver
  <2>8. (pt'.started \cup pt'.told \cup pt'.down) \subseteq pt'.recorded /\ pt'.phase # "idle"
    BY <1>0, <2>3, <1>1, <2>1 DEF PatchInv, UntouchedInv, NodeInv, Rebooting, Patching
  <2>9. PatchTypeOK'
    BY <1>0, <2>2, <2>3, <1>1, <2>1 DEF PatchInv, PatchTypeOK, Rollouts, NodeInv, Patching, Rebooting
  <2> QED
    BY <2>4, <2>5, <2>6, <2>7, <2>8, <2>9 DEF PatchInv, Rebooting
<1> QED
  <2> DEFINE ran == [pt EXCEPT !.started = @ \cup {pt.node}, !.upgraded = @ \cup {pt.node}]
  <2>1. /\ [ran EXCEPT !.phase = "reboot"] =
             [pt EXCEPT !.started = @ \cup {pt.node}, !.upgraded = @ \cup {pt.node},
                !.phase = "reboot"]
        /\ [ran EXCEPT !.phase = "next", !.st[pt.node] = "done"] =
             [pt EXCEPT !.started = @ \cup {pt.node}, !.upgraded = @ \cup {pt.node},
                !.phase = "next", !.st[pt.node] = "done"]
    BY <1>0, <1>1 DEF Rollouts
  <2> QED BY <1>2, <1>3, <1>4, <2>1 DEF RunUpgrade

LEMMA RunRebootStep ==
  ASSUME PatchInv, RunReboot
  PROVE  PatchInv'
<1>0. pt \in Rollouts /\ pt.phase = "reboot" /\ UNCHANGED up
  BY DEF PatchInv, PatchTypeOK, Rollouts, RunReboot, worldvars
<1>1. /\ pt.node \in Nodes /\ pt.node \in pt.recorded /\ pt.st[pt.node] = "pending"
      /\ pt.apply = TRUE /\ pt.dry = FALSE /\ pt.locked = FALSE /\ pt.told \cap pt.down = {}
  BY <1>0 DEF PatchInv, PatchTypeOK, NodeInv, Patching, Rollouts
<1>2. CASE pt' = [pt EXCEPT !.phase = "wait", !.told = @ \cup {pt.node}]
  <2>1. pt' \in Rollouts
    BY <1>0, <1>1, <1>2, Codes DEF Rollouts
  <2>2. /\ pt'.phase = "wait"
        /\ pt'.told = pt.told \cup {pt.node}
        /\ UNCHANGED <<pt.apply, pt.dry, pt.policy, pt.locked, pt.left, pt.st, pt.need,
                        pt.node, pt.offline, pt.recorded, pt.started, pt.upgraded, pt.down,
                        pt.mistaken, pt.code>>
    BY <1>0, <1>1, <1>2 DEF Rollouts
  <2>3. UntouchedInv'
    BY <1>0, <2>2, <1>1, Codes DEF PatchInv, UntouchedInv, Rebooting
  <2>4. NodeInv'
    BY <1>0, <2>2, <1>1, Codes DEF PatchInv, NodeInv, UntouchedInv, Rebooting, Patching, Rollouts
  <2>5. RebootInv'
    BY <1>0, <2>2, <1>1, Codes DEF PatchInv, RebootInv, UntouchedInv, Rebooting, Rollouts
  <2>6. PatchExitIsTrue'
    BY <1>0, <2>2, Codes DEF PatchInv, PatchExitIsTrue, PatchOver
  <2>7. (pt'.started \cup pt'.told \cup pt'.down) \subseteq pt'.recorded /\ pt'.phase # "idle"
    BY <1>0, <2>2, <1>1 DEF PatchInv, UntouchedInv, NodeInv, Rebooting, Patching
  <2>8. PatchTypeOK'
    BY <1>0, <2>1, <2>2, <1>1 DEF PatchInv, PatchTypeOK, Rollouts, NodeInv, Patching, Rebooting
  <2> QED
    BY <2>3, <2>4, <2>5, <2>6, <2>7, <2>8 DEF PatchInv, Rebooting
<1>3. CASE pt' = [pt EXCEPT !.phase = "wait"]
  <2>1. pt' \in Rollouts
    BY <1>0, <1>1, <1>3, Codes DEF Rollouts
  <2>2. /\ pt'.phase = "wait"
        /\ UNCHANGED <<pt.apply, pt.dry, pt.policy, pt.locked, pt.left, pt.st, pt.need,
                        pt.node, pt.offline, pt.recorded, pt.started, pt.upgraded, pt.told,
                        pt.down, pt.mistaken, pt.code>>
    BY <1>0, <1>1, <1>3 DEF Rollouts
  <2>3. UntouchedInv'
    BY <1>0, <2>2, <1>1, Codes DEF PatchInv, UntouchedInv, Rebooting
  <2>4. NodeInv'
    BY <1>0, <2>2, <1>1, Codes DEF PatchInv, NodeInv, UntouchedInv, Rebooting, Patching, Rollouts
  <2>5. RebootInv'
    BY <1>0, <2>2, <1>1, Codes DEF PatchInv, RebootInv, UntouchedInv, Rebooting, Rollouts
  <2>6. PatchExitIsTrue'
    BY <1>0, <2>2, Codes DEF PatchInv, PatchExitIsTrue, PatchOver
  <2>7. (pt'.started \cup pt'.told \cup pt'.down) \subseteq pt'.recorded /\ pt'.phase # "idle"
    BY <1>0, <2>2, <1>1 DEF PatchInv, UntouchedInv, NodeInv, Rebooting, Patching
  <2>8. PatchTypeOK'
    BY <1>0, <2>1, <2>2, <1>1 DEF PatchInv, PatchTypeOK, Rollouts, NodeInv, Patching, Rebooting
  <2> QED
    BY <2>3, <2>4, <2>5, <2>6, <2>7, <2>8 DEF PatchInv, Rebooting
<1>4. CASE \E told \in {{}, {pt.node}} : pt' = [NodeFailed EXCEPT !.told = @ \cup told]
  <2>1. PICK told \in {{}, {pt.node}} : pt' = [NodeFailed EXCEPT !.told = @ \cup told]
    BY <1>4
  <2>2. pt' \in Rollouts
    BY <1>0, <1>1, <2>1, Codes DEF NodeFailed, Rollouts
  <2>3. /\ pt'.phase = "done"
        /\ pt'.code = Other
        /\ pt'.st = [pt.st EXCEPT ![pt.node] = "failed"]
        /\ pt'.told = pt.told \cup told
        /\ UNCHANGED <<pt.apply, pt.dry, pt.policy, pt.locked, pt.left, pt.need, pt.node,
                        pt.offline, pt.recorded, pt.started, pt.upgraded, pt.down, pt.mistaken>>
    BY <1>0, <1>1, <2>1 DEF NodeFailed, Rollouts
  <2>4. UntouchedInv'
    BY <1>0, <2>3, <1>1, <2>1, Codes DEF PatchInv, UntouchedInv, Rebooting
  <2>5. NodeInv'
    BY <1>0, <2>3, <1>1, <2>1, Codes DEF PatchInv, NodeInv, UntouchedInv, Rebooting, Patching, Rollouts
  <2>6. RebootInv'
    BY <1>0, <2>3, <1>1, <2>1, Codes DEF PatchInv, RebootInv, UntouchedInv, Rebooting, Rollouts
  <2>7. PatchExitIsTrue'
    BY <1>0, <2>3, Codes DEF PatchInv, PatchExitIsTrue, PatchOver
  <2>8. (pt'.started \cup pt'.told \cup pt'.down) \subseteq pt'.recorded /\ pt'.phase # "idle"
    BY <1>0, <2>3, <1>1, <2>1 DEF PatchInv, UntouchedInv, NodeInv, Rebooting, Patching
  <2>9. PatchTypeOK'
    BY <1>0, <2>2, <2>3, <1>1, <2>1 DEF PatchInv, PatchTypeOK, Rollouts, NodeInv, Patching, Rebooting
  <2> QED
    BY <2>4, <2>5, <2>6, <2>7, <2>8, <2>9 DEF PatchInv, Rebooting
<1> QED BY <1>2, <1>3, <1>4 DEF RunReboot

LEMMA PollNodeStep ==
  ASSUME PatchInv, PollNode
  PROVE  PatchInv'
<1>0. pt \in Rollouts /\ pt.phase = "wait" /\ UNCHANGED up
  BY DEF PatchInv, PatchTypeOK, Rollouts, PollNode, worldvars
<1>1. /\ pt.node \in Nodes /\ pt.node \in pt.recorded /\ pt.st[pt.node] = "pending"
      /\ pt.apply = TRUE /\ pt.dry = FALSE /\ pt.locked = FALSE /\ pt.told \cap pt.down = {}
  BY <1>0 DEF PatchInv, PatchTypeOK, NodeInv, Patching, Rollouts
<1>3. CASE pt.node \in up /\ pt.offline /\ pt' = [pt EXCEPT !.phase = "detail"]
  <2>1. pt' \in Rollouts
    BY <1>0, <1>1, <1>3, Codes DEF Rollouts
  <2>2. /\ pt'.phase = "detail"
        /\ UNCHANGED <<pt.apply, pt.dry, pt.policy, pt.locked, pt.left, pt.st, pt.need,
                        pt.node, pt.offline, pt.recorded, pt.started, pt.upgraded, pt.told,
                        pt.down, pt.mistaken, pt.code>>
    BY <1>0, <1>1, <1>3 DEF Rollouts
  <2>3. UntouchedInv'
    BY <1>0, <2>2, <1>1, <1>3, Codes DEF PatchInv, UntouchedInv, Rebooting
  <2>4. NodeInv'
    BY <1>0, <2>2, <1>1, <1>3, Codes DEF PatchInv, NodeInv, UntouchedInv, Rebooting, Patching, Rollouts
  <2>5. RebootInv'
    BY <1>0, <2>2, <1>1, <1>3, Codes DEF PatchInv, RebootInv, UntouchedInv, Rebooting, Rollouts
  <2>6. PatchExitIsTrue'
    BY <1>0, <2>2, Codes DEF PatchInv, PatchExitIsTrue, PatchOver
  <2>7. (pt'.started \cup pt'.told \cup pt'.down) \subseteq pt'.recorded /\ pt'.phase # "idle"
    BY <1>0, <2>2, <1>1, <1>3 DEF PatchInv, UntouchedInv, NodeInv, Rebooting, Patching
  <2>8. PatchTypeOK'
    BY <1>0, <2>1, <2>2, <1>1, <1>3 DEF PatchInv, PatchTypeOK, Rollouts, NodeInv, Patching, Rebooting
  <2> QED
    BY <2>3, <2>4, <2>5, <2>6, <2>7, <2>8 DEF PatchInv, Rebooting
<1>4. CASE pt' = pt
  BY <1>0, <1>4 DEF PatchInv, PatchTypeOK, UntouchedInv, NodeInv, RebootInv, Rebooting,
     Patching, PatchExitIsTrue, PatchOver
<1>5. CASE pt' = SeenOffline
  <2> DEFINE seen == pt.mistaken \cup ({pt.node} \cap pt.told)
  <2>0. /\ seen \in SUBSET Nodes /\ pt' = [pt EXCEPT !.offline = TRUE, !.mistaken = seen]
        /\ pt.mistaken \subseteq seen /\ (pt.node \in pt.told => pt.node \in seen)
    BY <1>0, <1>5 DEF SeenOffline, Rollouts
  <2> HIDE DEF seen
  <2>1. pt' \in Rollouts
    BY <1>0, <1>1, <2>0, Codes DEF Rollouts
  <2>2. /\ pt'.offline = TRUE
        /\ pt'.mistaken = seen
        /\ UNCHANGED <<pt.phase, pt.apply, pt.dry, pt.policy, pt.locked, pt.left, pt.st,
                        pt.need, pt.node, pt.recorded, pt.started, pt.upgraded, pt.told,
                        pt.down, pt.code>>
    BY <1>0, <1>1, <2>0 DEF Rollouts
  <2>3. UntouchedInv'
    BY <1>0, <2>2, <1>1, <2>0, Codes DEF PatchInv, UntouchedInv, Rebooting
  <2>4. NodeInv'
    BY <1>0, <2>2, <1>1, <2>0, Codes DEF PatchInv, NodeInv, UntouchedInv, Rebooting, Patching, Rollouts
  <2>5. RebootInv'
    BY <1>0, <2>2, <1>1, <2>0, Codes DEF PatchInv, RebootInv, UntouchedInv, Rebooting, Rollouts
  <2>6. PatchExitIsTrue'
    BY <1>0, <2>2, Codes DEF PatchInv, PatchExitIsTrue, PatchOver
  <2>7. (pt'.started \cup pt'.told \cup pt'.down) \subseteq pt'.recorded /\ pt'.phase # "idle"
    BY <1>0, <2>2, <1>1, <2>0 DEF PatchInv, UntouchedInv, NodeInv, Rebooting, Patching
  <2>8. PatchTypeOK'
    BY <1>0, <2>1, <2>2, <1>1, <2>0 DEF PatchInv, PatchTypeOK, Rollouts, NodeInv, Patching, Rebooting
  <2> QED
    BY <2>3, <2>4, <2>5, <2>6, <2>7, <2>8 DEF PatchInv, Rebooting
<1> QED BY <1>3, <1>4, <1>5 DEF PollNode

LEMMA ReadDetailStep ==
  ASSUME PatchInv, ReadDetail
  PROVE  PatchInv'
<1>0. pt \in Rollouts /\ pt.phase = "detail" /\ UNCHANGED up
  BY DEF PatchInv, PatchTypeOK, Rollouts, ReadDetail, worldvars
<1>1. /\ pt.node \in Nodes /\ pt.node \in pt.recorded /\ pt.st[pt.node] = "pending"
      /\ pt.apply = TRUE /\ pt.dry = FALSE /\ pt.locked = FALSE /\ pt.told \cap pt.down = {}
  BY <1>0 DEF PatchInv, PatchTypeOK, NodeInv, Patching, Rollouts
<1>2. CASE pt.node \notin pt.down /\ pt' = Finish
  <2>1. pt' \in Rollouts
    BY <1>0, <1>1, <1>2, Codes DEF Finish, Rollouts
  <2>2. /\ pt'.phase = "next"
        /\ pt'.st = [pt.st EXCEPT ![pt.node] = "done"]
        /\ pt'.offline = FALSE
        /\ UNCHANGED <<pt.apply, pt.dry, pt.policy, pt.locked, pt.left, pt.need, pt.node,
                        pt.recorded, pt.started, pt.upgraded, pt.told, pt.down, pt.mistaken,
                        pt.code>>
    BY <1>0, <1>1, <1>2 DEF Finish, Rollouts
  <2>3. UntouchedInv'
    BY <1>0, <2>2, <1>1, <1>2, Codes DEF PatchInv, UntouchedInv, Rebooting
  <2>4. NodeInv'
    BY <1>0, <2>2, <1>1, <1>2, Codes DEF PatchInv, NodeInv, UntouchedInv, Rebooting, Patching, Rollouts
  <2>5. RebootInv'
    BY <1>0, <2>2, <1>1, <1>2, Codes DEF PatchInv, RebootInv, UntouchedInv, Rebooting, Rollouts
  <2>6. PatchExitIsTrue'
    BY <1>0, <2>2, Codes DEF PatchInv, PatchExitIsTrue, PatchOver
  <2>7. (pt'.started \cup pt'.told \cup pt'.down) \subseteq pt'.recorded /\ pt'.phase # "idle"
    BY <1>0, <2>2, <1>1, <1>2 DEF PatchInv, UntouchedInv, NodeInv, Rebooting, Patching
  <2>8. PatchTypeOK'
    BY <1>0, <2>1, <2>2, <1>1, <1>2 DEF PatchInv, PatchTypeOK, Rollouts, NodeInv, Patching, Rebooting
  <2> QED
    BY <2>3, <2>4, <2>5, <2>6, <2>7, <2>8 DEF PatchInv, Rebooting
<1>3. CASE pt' = [pt EXCEPT !.phase = "wait"]
  <2>1. pt' \in Rollouts
    BY <1>0, <1>1, <1>3, Codes DEF Rollouts
  <2>2. /\ pt'.phase = "wait"
        /\ UNCHANGED <<pt.apply, pt.dry, pt.policy, pt.locked, pt.left, pt.st, pt.need,
                        pt.node, pt.offline, pt.recorded, pt.started, pt.upgraded, pt.told,
                        pt.down, pt.mistaken, pt.code>>
    BY <1>0, <1>1, <1>3 DEF Rollouts
  <2>3. UntouchedInv'
    BY <1>0, <2>2, <1>1, Codes DEF PatchInv, UntouchedInv, Rebooting
  <2>4. NodeInv'
    BY <1>0, <2>2, <1>1, Codes DEF PatchInv, NodeInv, UntouchedInv, Rebooting, Patching, Rollouts
  <2>5. RebootInv'
    BY <1>0, <2>2, <1>1, Codes DEF PatchInv, RebootInv, UntouchedInv, Rebooting, Rollouts
  <2>6. PatchExitIsTrue'
    BY <1>0, <2>2, Codes DEF PatchInv, PatchExitIsTrue, PatchOver
  <2>7. (pt'.started \cup pt'.told \cup pt'.down) \subseteq pt'.recorded /\ pt'.phase # "idle"
    BY <1>0, <2>2, <1>1 DEF PatchInv, UntouchedInv, NodeInv, Rebooting, Patching
  <2>8. PatchTypeOK'
    BY <1>0, <2>1, <2>2, <1>1 DEF PatchInv, PatchTypeOK, Rollouts, NodeInv, Patching, Rebooting
  <2> QED
    BY <2>3, <2>4, <2>5, <2>6, <2>7, <2>8 DEF PatchInv, Rebooting
<1> QED BY <1>2, <1>3 DEF ReadDetail

LEMMA WaitEndsStep ==
  ASSUME PatchInv, WaitEnds
  PROVE  PatchInv'
<1>0. pt \in Rollouts /\ pt.phase = "wait" /\ UNCHANGED up
  BY DEF PatchInv, PatchTypeOK, Rollouts, WaitEnds, worldvars
<1>1. /\ pt.node \in Nodes /\ pt.node \in pt.recorded /\ pt.st[pt.node] = "pending"
      /\ pt.apply = TRUE /\ pt.dry = FALSE /\ pt.locked = FALSE /\ pt.told \cap pt.down = {}
  BY <1>0 DEF PatchInv, PatchTypeOK, NodeInv, Patching, Rollouts
<1>2. pt' \in Rollouts
  BY <1>0, <1>1, Codes DEF NodeFailed, WaitEnds, Rollouts
<1>3. /\ pt'.phase = "done"
      /\ pt'.code = Other
      /\ pt'.st = [pt.st EXCEPT ![pt.node] = "failed"]
      /\ UNCHANGED <<pt.apply, pt.dry, pt.policy, pt.locked, pt.left, pt.need, pt.node,
                      pt.offline, pt.recorded, pt.started, pt.upgraded, pt.told, pt.down,
                      pt.mistaken>>
  BY <1>0, <1>1 DEF NodeFailed, WaitEnds, Rollouts
<1>4. UntouchedInv'
  BY <1>0, <1>3, <1>1, Codes DEF PatchInv, UntouchedInv, Rebooting
<1>5. NodeInv'
  BY <1>0, <1>3, <1>1, Codes DEF PatchInv, NodeInv, UntouchedInv, Rebooting, Patching, Rollouts
<1>6. RebootInv'
  BY <1>0, <1>3, <1>1, Codes DEF PatchInv, RebootInv, UntouchedInv, Rebooting, Rollouts
<1>7. PatchExitIsTrue'
  BY <1>0, <1>3, Codes DEF PatchInv, PatchExitIsTrue, PatchOver
<1>8. (pt'.started \cup pt'.told \cup pt'.down) \subseteq pt'.recorded /\ pt'.phase # "idle"
  BY <1>0, <1>3, <1>1 DEF PatchInv, UntouchedInv, NodeInv, Rebooting, Patching
<1>9. PatchTypeOK'
  BY <1>0, <1>2, <1>3, <1>1 DEF PatchInv, PatchTypeOK, Rollouts, NodeInv, Patching, Rebooting
<1> QED
  BY <1>4, <1>5, <1>6, <1>7, <1>8, <1>9 DEF PatchInv, Rebooting

LEMMA ApplyEndsStep ==
  ASSUME PatchInv, ApplyEnds
  PROVE  PatchInv'
<1>0. pt \in Rollouts /\ pt.phase = "next" /\ UNCHANGED up
  BY DEF PatchInv, PatchTypeOK, Rollouts, ApplyEnds, worldvars
<1>1. PICK c \in {0, Other} :
        /\ PatchExits(c) /\ (c = 0 => \A n \in Nodes : pt.st[n] \notin {"pending", "failed"})
  BY Codes DEF ApplyEnds
<1>2. pt' \in Rollouts
  BY <1>0, <1>1, Codes DEF PatchExits, Rollouts
<1>3. /\ pt'.phase = "done"
      /\ pt'.code = c
      /\ UNCHANGED <<pt.apply, pt.dry, pt.policy, pt.locked, pt.left, pt.st, pt.need,
                      pt.node, pt.offline, pt.recorded, pt.started, pt.upgraded, pt.told,
                      pt.down, pt.mistaken>>
  BY <1>0, <1>1 DEF PatchExits, Rollouts
<1>4. UntouchedInv'
  BY <1>0, <1>3, Codes DEF PatchInv, UntouchedInv, Rebooting
<1>5. NodeInv'
  BY <1>0, <1>3, Codes DEF PatchInv, NodeInv, UntouchedInv, Rebooting, Patching, Rollouts
<1>6. RebootInv'
  BY <1>0, <1>3, Codes DEF PatchInv, RebootInv, UntouchedInv, Rebooting, Rollouts
<1>7. PatchExitIsTrue'
  BY <1>0, <1>3, <1>1, Codes DEF PatchInv, NodeInv, PatchExitIsTrue, PatchOver, Rollouts
<1>8. (pt'.started \cup pt'.told \cup pt'.down) \subseteq pt'.recorded /\ pt'.phase # "idle"
  BY <1>0, <1>3 DEF PatchInv, UntouchedInv, NodeInv, Rebooting, Patching
<1>9. PatchTypeOK'
  BY <1>0, <1>2, <1>3 DEF PatchInv, PatchTypeOK, Rollouts, NodeInv, Patching, Rebooting
<1> QED
  BY <1>4, <1>5, <1>6, <1>7, <1>8, <1>9 DEF PatchInv, Rebooting

LEMMA NodeRebootsStep ==
  ASSUME PatchInv, NodeReboots
  PROVE  PatchInv'
<1>0. pt \in Rollouts /\ pt.told \cap pt.down = {} /\ pt.down \cap up = {}
  BY DEF PatchInv, PatchTypeOK, Rollouts, RebootInv
<1>1. CASE \E n \in pt.told :
             /\ up' = up \ {n}
             /\ pt' = [pt EXCEPT !.told = @ \ {n}, !.down = @ \cup {n}]
  <2>1. PICK n \in pt.told :
          /\ up' = up \ {n}
          /\ pt' = [pt EXCEPT !.told = @ \ {n}, !.down = @ \cup {n}]
    BY <1>1
  <2>2. pt' \in Rollouts
    BY <1>0, <2>1, Codes DEF Rollouts
  <2>3. /\ pt'.told = pt.told \ {n}
        /\ pt'.down = pt.down \cup {n}
        /\ UNCHANGED <<pt.phase, pt.apply, pt.dry, pt.policy, pt.locked, pt.left, pt.st,
                        pt.need, pt.node, pt.offline, pt.recorded, pt.started, pt.upgraded,
                        pt.mistaken, pt.code>>
    BY <1>0, <2>1 DEF Rollouts
  <2>4. UntouchedInv'
    BY <1>0, <2>3, <2>1, Codes DEF PatchInv, UntouchedInv, Rebooting
  <2>5. NodeInv'
    BY <1>0, <2>3, <2>1, Codes DEF PatchInv, NodeInv, UntouchedInv, Rebooting, Patching, Rollouts
  <2>6. RebootInv'
    BY <1>0, <2>3, <2>1, Codes DEF PatchInv, RebootInv, UntouchedInv, Rebooting, Rollouts
  <2>7. PatchExitIsTrue'
    BY <1>0, <2>3, Codes DEF PatchInv, PatchExitIsTrue, PatchOver
  <2>8. (pt'.started \cup pt'.told \cup pt'.down) \subseteq pt'.recorded /\ pt'.phase # "idle"
    BY <1>0, <2>3, <2>1 DEF PatchInv, UntouchedInv, NodeInv, Rebooting, Patching
  <2>9. PatchTypeOK'
    BY <1>0, <2>2, <2>3, <2>1 DEF PatchInv, PatchTypeOK, Rollouts, NodeInv, Patching, Rebooting
  <2> QED
    BY <2>4, <2>5, <2>6, <2>7, <2>8, <2>9 DEF PatchInv, Rebooting
<1>2. CASE \E n \in pt.down :
             /\ up' = up \cup {n}
             /\ pt' = [pt EXCEPT !.down = @ \ {n}]
  <2>1. PICK n \in pt.down :
          /\ up' = up \cup {n}
          /\ pt' = [pt EXCEPT !.down = @ \ {n}]
    BY <1>2
  <2>2. pt' \in Rollouts
    BY <1>0, <2>1, Codes DEF Rollouts
  <2>3. /\ pt'.down = pt.down \ {n}
        /\ UNCHANGED <<pt.phase, pt.apply, pt.dry, pt.policy, pt.locked, pt.left, pt.st,
                        pt.need, pt.node, pt.offline, pt.recorded, pt.started, pt.upgraded,
                        pt.told, pt.mistaken, pt.code>>
    BY <1>0, <2>1 DEF Rollouts
  <2>4. UntouchedInv'
    BY <1>0, <2>3, <2>1, Codes DEF PatchInv, UntouchedInv, Rebooting
  <2>5. NodeInv'
    BY <1>0, <2>3, <2>1, Codes DEF PatchInv, NodeInv, UntouchedInv, Rebooting, Patching, Rollouts
  <2>6. RebootInv'
    BY <1>0, <2>3, <2>1, Codes DEF PatchInv, RebootInv, UntouchedInv, Rebooting, Rollouts
  <2>7. PatchExitIsTrue'
    BY <1>0, <2>3, Codes DEF PatchInv, PatchExitIsTrue, PatchOver
  <2>8. (pt'.started \cup pt'.told \cup pt'.down) \subseteq pt'.recorded /\ pt'.phase # "idle"
    BY <1>0, <2>3, <2>1 DEF PatchInv, UntouchedInv, NodeInv, Rebooting, Patching
  <2>9. PatchTypeOK'
    BY <1>0, <2>2, <2>3, <2>1 DEF PatchInv, PatchTypeOK, Rollouts, NodeInv, Patching, Rebooting
  <2> QED
    BY <2>4, <2>5, <2>6, <2>7, <2>8, <2>9 DEF PatchInv, Rebooting
<1> QED BY <1>1, <1>2 DEF NodeReboots

\* Nothing of a rollout depends on which other nodes are listed as online.
LEMMA NodeFlickersStep ==
  ASSUME PatchInv, NodeFlickers
  PROVE  PatchInv'
<1>1. UNCHANGED pt /\ pt.down \cap up' = {}
  BY DEF NodeFlickers
<1>2. PatchTypeOK' /\ UntouchedInv' /\ NodeInv' /\ PatchExitIsTrue'
  BY <1>1 DEF PatchInv, PatchTypeOK, UntouchedInv, NodeInv, Patching, Rebooting,
     PatchExitIsTrue, PatchOver
<1>3. RebootInv'
  BY <1>1 DEF PatchInv, RebootInv, Rebooting
<1> QED BY <1>1, <1>2, <1>3 DEF PatchInv, Rebooting

LEMMA NoRolloutInv ==
  ASSUME pt = NoRollout
  PROVE  PatchInv
<1>1. pt \in Rollouts
  BY DEF NoRollout, Rollouts
<1>2. /\ pt.phase = "idle" /\ pt.apply = FALSE /\ pt.dry = FALSE /\ pt.locked = FALSE
      /\ pt.left = {} /\ pt.st = [n \in Nodes |-> "out"] /\ pt.offline = FALSE
      /\ pt.recorded = {} /\ pt.started = {} /\ pt.upgraded = {} /\ pt.told = {}
      /\ pt.down = {}
  BY DEF NoRollout
<1>3. PatchTypeOK
  BY <1>1, <1>2 DEF PatchTypeOK, Rollouts
<1>4. UntouchedInv /\ NodeInv /\ RebootInv /\ PatchExitIsTrue
  BY <1>2 DEF UntouchedInv, NodeInv, RebootInv, Rebooting, Patching, PatchExitIsTrue, PatchOver
<1> QED BY <1>2, <1>3, <1>4 DEF PatchInv, Rebooting

LEMMA PatchStartsStep ==
  ASSUME NEW apply \in BOOLEAN, NEW dry \in BOOLEAN, NEW locked \in BOOLEAN,
         PatchStarts(apply, dry, locked)
  PROVE  PatchInv' /\ pt'.phase = "list"
<1>1. PICK policy \in {"auto", "always", "never"} :
        pt' = [NoRollout EXCEPT !.phase = "list", !.apply = apply, !.dry = dry,
                 !.policy = policy, !.locked = locked]
  BY DEF PatchStarts
<1>2. NoRollout \in Rollouts
  BY DEF NoRollout, Rollouts
<1>3. pt' \in Rollouts
  BY <1>1, <1>2 DEF Rollouts
<1>4. /\ pt'.phase = "list" /\ pt'.locked = locked
      /\ pt'.left = {} /\ pt'.st = [n \in Nodes |-> "out"] /\ pt'.offline = FALSE
      /\ pt'.recorded = {} /\ pt'.started = {} /\ pt'.upgraded = {} /\ pt'.told = {}
      /\ pt'.down = {}
  BY <1>1 DEF NoRollout
<1>5. PatchTypeOK'
  BY <1>3, <1>4 DEF PatchTypeOK, Rollouts
<1>6. UntouchedInv' /\ NodeInv' /\ RebootInv' /\ PatchExitIsTrue'
  BY <1>4 DEF UntouchedInv, NodeInv, RebootInv, Rebooting, Patching, PatchExitIsTrue, PatchOver
<1> QED BY <1>4, <1>5, <1>6 DEF PatchInv, Rebooting

LEMMA PatchSteps ==
  ASSUME PatchInv, PatchNext, up \subseteq Nodes
  PROVE  PatchInv'
BY PatchListStep, PlanNodeStep, PlannedStep, TakeNodeStep, RunUpgradeStep, RunRebootStep,
   PollNodeStep, ReadDetailStep, WaitEndsStep, ApplyEndsStep DEF PatchNext

LEMMA AtMostOne ==
  ASSUME NEW S, NEW x, S \subseteq {x}
  PROVE  IsFiniteSet(S) /\ Cardinality(S) <= 1
<1>1. CASE S = {}
  BY <1>1, FS_EmptySet
<1>2. CASE S = {x}
  <2>1. IsFiniteSet({x}) /\ Cardinality({x}) = 1
    BY FS_Singleton
  <2> QED BY <1>2, <2>1
<1> QED BY <1>1, <1>2

\* What a rollout of patches may be relied on for.
LEMMA PatchSafe ==
  ASSUME PatchInv
  PROVE  PatchIsRecorded /\ OneNodeAtATime /\ RebootsApart /\ PatchExitIsTrue
<1>1. PatchIsRecorded
  BY DEF PatchInv, UntouchedInv, PatchIsRecorded, Rebooting
<1>2. {n \in pt.started : pt.st[n] # "done"} \subseteq {pt.node}
  BY DEF PatchInv, PatchTypeOK, NodeInv
<1>3. Rebooting \ pt.mistaken \subseteq {pt.node}
  BY DEF PatchInv, RebootInv
<1> QED
  BY <1>1, <1>2, <1>3, AtMostOne DEF OneNodeAtATime, RebootsApart, PatchInv

(***************************************************************************)
(* Batches.                                                                *)
(***************************************************************************)
Batches ==
  [phase : {"idle", "scan", "turn", "done"}, op : BatchOps \cup {"none"}, strict : BOOLEAN,
   plan : Policies, policy : Policies, asks : BOOLEAN, locked : BOOLEAN,
   where : [Guests -> Nodes \cup {Absent}], tmpl : SUBSET Guests,
   gated : SUBSET Guests, slice : Seq(Guests), rest : Seq(Guests),
   seen : SUBSET Guests, partial : BOOLEAN, fly : SUBSET Guests,
   got : [Guests -> Statuses], acted : SUBSET Guests, fail : BOOLEAN,
   pend : BOOLEAN, code : {0, 2, EXIT_HITL_PENDING} \cup Failures]

LEMMA TargetFacts ==
  /\ Targets \in Seq(Guests) /\ Len(Targets) \in Nat /\ Len(Targets) > 0
  /\ DOMAIN Targets = 1..Len(Targets)
  /\ \A i \in DOMAIN Targets : Targets[i] \in Guests
  /\ \A g \in Guests : \E i \in DOMAIN Targets : g = Targets[i]
  /\ \A i, j \in DOMAIN Targets : Targets[i] = Targets[j] => i = j
<1>1. Targets \in Seq(Guests) /\ Len(Targets) > 0
  BY BatchAssumption
<1>2. \A i, j \in DOMAIN Targets : Targets[i] = Targets[j] => i = j
  BY BatchAssumption
<1>3. (\A i \in DOMAIN Targets : Targets[i] \in Guests)
      /\ \A g \in Guests : \E i \in DOMAIN Targets : g = Targets[i]
  BY DEF Guests
<1>4. Len(Targets) \in Nat /\ DOMAIN Targets = 1..Len(Targets)
  BY <1>1, LenProperties
<1> QED BY <1>1, <1>2, <1>3, <1>4

LEMMA PolicyFacts ==
  ASSUME NEW policy \in Policies
  PROVE  /\ policy.name \in {"full", "canary", "rolling"}
         /\ policy.name = "canary" => policy.n \in 1..100
         /\ policy.name = "rolling" => policy.n \in Nat \ {0}
         /\ policy.name = "full" => policy = Full
<1>1. CASE policy = Full
  BY <1>1 DEF Full
<1>2. CASE \E p \in Percents : policy = [name |-> "canary", n |-> p]
  <2>1. PICK p \in Percents : policy = [name |-> "canary", n |-> p]
    BY <1>2
  <2>2. policy.name = "canary" /\ policy.n = p
    BY <2>1
  <2> QED BY <2>2, BatchAssumption
<1>3. CASE \E w \in WaveSizes : policy = [name |-> "rolling", n |-> w]
  <2>1. PICK w \in WaveSizes : policy = [name |-> "rolling", n |-> w]
    BY <1>3
  <2>2. policy.name = "rolling" /\ policy.n = w
    BY <2>1
  <2> QED BY <2>2, BatchAssumption
<1> QED BY <1>1, <1>2, <1>3 DEF Policies

LEMMA FullFacts == Full \in Policies /\ Full.name = "full"
BY DEF Policies, Full

\* canary_pilot_count is at least one and at most all.
LEMMA PilotBounds ==
  ASSUME NEW n \in Nat, n > 0, NEW p \in 1..100
  PROVE  PilotCount(n, p) \in 1..n
<1> DEFINE up100 == (n * p + 99) \div 100
<1>1. n * p \in Nat
  OBVIOUS
<1>2. up100 \in Int
  BY <1>1
<1> HIDE DEF up100
<1> QED BY <1>2 DEF PilotCount, up100

LEMMA SliceBounds ==
  ASSUME NEW policy \in Policies, NEW n \in Nat, n > 0
  PROVE  SliceSize(policy, n) \in 1..n
<1>1. CASE policy.name = "canary"
  BY <1>1, PolicyFacts, PilotBounds DEF SliceSize
<1>2. CASE policy.name = "rolling"
  BY <1>2, PolicyFacts DEF SliceSize
<1>3. CASE policy.name = "full"
  BY <1>3 DEF SliceSize
<1> QED BY <1>1, <1>2, <1>3, PolicyFacts

\* A slice and what is left after it are the two parts of the sequence.
LEMMA SlicedParts ==
  ASSUME NEW policy \in Policies, NEW ts \in Seq(Guests), Len(ts) > 0
  PROVE  LET k == SliceSize(policy, Len(ts))
             s == Sliced(policy, ts).slice
             r == Sliced(policy, ts).rest
         IN  /\ k \in 1..Len(ts) /\ s \in Seq(Guests) /\ r \in Seq(Guests)
             /\ Len(s) = k /\ Len(r) = Len(ts) - k
             /\ \A i \in 1..k : s[i] = ts[i]
             /\ \A i \in 1..(Len(ts) - k) : r[i] = ts[k + i]
<1> DEFINE k == SliceSize(policy, Len(ts))
<1>1. Len(ts) \in Nat /\ k \in 1..Len(ts)
  BY SliceBounds, LenProperties
<1>2. Sliced(policy, ts).slice = SubSeq(ts, 1, k) /\ Sliced(policy, ts).rest = SubSeq(ts, k + 1, Len(ts))
  BY DEF Sliced
<1> HIDE DEF k
<1>3. /\ SubSeq(ts, 1, k) \in Seq(Guests) /\ Len(SubSeq(ts, 1, k)) = k
      /\ \A i \in 1..k : SubSeq(ts, 1, k)[i] = ts[i]
  BY <1>1, SubSeqProperties
<1>4. /\ SubSeq(ts, k + 1, Len(ts)) \in Seq(Guests) /\ Len(SubSeq(ts, k + 1, Len(ts))) = Len(ts) - k
      /\ \A i \in 1..(Len(ts) - k) : SubSeq(ts, k + 1, Len(ts))[i] = ts[k + i]
  BY <1>1, SubSeqProperties
<1> QED BY <1>1, <1>2, <1>3, <1>4 DEF k

\* The wave of an entry, from the entries before the wave.
LEMMA WaveFrom ==
  ASSUME NEW i \in Nat, NEW w \in Nat \ {0}, NEW k \in Nat, i > k * w
  PROVE  (i - 1) \div w >= k
<1> DEFINE q == (i - 1) \div w
           r == (i - 1) % w
<1>1. q \in Int /\ r \in 0..(w - 1) /\ i - 1 = w * q + r
  OBVIOUS
<1> HIDE DEF q, r
<1>2. SUFFICES ASSUME q < k PROVE FALSE
  BY <1>1 DEF q
<1>3. w * q <= w * (k - 1)
  BY <1>1, <1>2
<1>4. w * (k - 1) = k * w - w
  OBVIOUS
<1> QED BY <1>1, <1>3, <1>4

LEMMA WaveTo ==
  ASSUME NEW i \in Nat, NEW w \in Nat \ {0}, NEW k \in Nat, i <= k * w + w
  PROVE  (i - 1) \div w <= k
<1> DEFINE q == (i - 1) \div w
           r == (i - 1) % w
<1>1. q \in Int /\ r \in 0..(w - 1) /\ i - 1 = w * q + r
  OBVIOUS
<1> HIDE DEF q, r
<1>2. SUFFICES ASSUME q > k PROVE FALSE
  BY <1>1 DEF q
<1>3. w * q >= w * (k + 1)
  BY <1>1, <1>2
<1>4. w * (k + 1) = k * w + w
  OBVIOUS
<1> QED BY <1>1, <1>3, <1>4

\* The numbers a batch in progress is counted with.
LEMMA Places ==
  ASSUME BatchInv, Batching
  PROVE  /\ bt \in Batches /\ TurnsTaken \in Nat /\ SliceEnd \in Nat
         /\ TurnsTaken <= SliceEnd /\ SliceEnd <= Len(Targets)
         /\ SliceEnd = TurnsTaken + Len(bt.slice) /\ Len(bt.slice) \in Nat
         /\ Len(bt.rest) \in Nat /\ SliceEnd = Len(Targets) - Len(bt.rest)
         /\ DOMAIN bt.slice = 1..Len(bt.slice) /\ DOMAIN bt.rest = 1..Len(bt.rest)
<1>1. bt \in Batches /\ TurnsTaken >= 0
  BY DEF BatchInv, BatchTypeOK, Batches, PlaceInv
<1>2. bt.slice \in Seq(Guests) /\ bt.rest \in Seq(Guests)
  BY <1>1 DEF Batches
<1>3. /\ Len(bt.slice) \in Nat /\ Len(bt.rest) \in Nat
      /\ DOMAIN bt.slice = 1..Len(bt.slice) /\ DOMAIN bt.rest = 1..Len(bt.rest)
  BY <1>2, LenProperties
<1>4. Len(Targets) \in Nat
  BY TargetFacts
<1>5. /\ TurnsTaken = Len(Targets) - Len(bt.slice) - Len(bt.rest)
      /\ SliceEnd = Len(Targets) - Len(bt.rest)
  BY DEF TurnsTaken, SliceEnd
<1> DEFINE n == Len(Targets)
           a == Len(bt.slice)
           b == Len(bt.rest)
           t == TurnsTaken
           e == SliceEnd
<1>6. a \in Nat /\ b \in Nat /\ n \in Nat /\ t = n - a - b /\ e = n - b /\ t >= 0
  BY <1>1, <1>3, <1>4, <1>5
<1> HIDE DEF n, a, b, t, e
<1>7. t \in Nat /\ e \in Nat /\ t <= e /\ e <= n /\ e = t + a
  BY <1>6
<1> QED BY <1>1, <1>3, <1>5, <1>7 DEF n, a, b, t, e

\* A turn takes the first entry of the slice, which is the next of the targets.
Advances == bt'.slice = Tail(bt.slice) /\ bt'.rest = bt.rest

LEMMA TurnPlace ==
  ASSUME BatchInv, bt.phase = "turn", bt.slice # <<>>, Advances
  PROVE  /\ TurnsTaken' = TurnsTaken + 1 /\ SliceEnd' = SliceEnd
         /\ TurnsTaken + 1 <= SliceEnd /\ TurnsTaken + 1 \in DOMAIN Targets
         /\ Target = Targets[TurnsTaken + 1] /\ Target \in Guests
         /\ PlaceInv'
<1>0. Batching
  BY DEF Batching
<1>1. /\ bt \in Batches /\ TurnsTaken \in Nat /\ SliceEnd \in Nat
      /\ SliceEnd = TurnsTaken + Len(bt.slice) /\ Len(bt.slice) \in Nat
      /\ SliceEnd <= Len(Targets) /\ Len(bt.rest) \in Nat
      /\ DOMAIN bt.slice = 1..Len(bt.slice) /\ DOMAIN bt.rest = 1..Len(bt.rest)
  BY <1>0, Places
<1>2. bt.slice \in Seq(Guests)
  BY <1>1 DEF Batches
<1>3. /\ Len(bt.slice) > 0 /\ Len(bt'.slice) = Len(bt.slice) - 1
      /\ DOMAIN bt'.slice = 1..(Len(bt.slice) - 1)
      /\ \A i \in 1..(Len(bt.slice) - 1) : bt'.slice[i] = bt.slice[i + 1]
  <2>1. Len(bt.slice) # 0
    BY <1>2, EmptySeq
  <2>2. Tail(bt.slice) \in Seq(Guests) /\ Len(Tail(bt.slice)) = Len(bt.slice) - 1
    BY <1>2, HeadTailProperties
  <2>3. \A i \in 1..(Len(bt.slice) - 1) : Tail(bt.slice)[i] = bt.slice[i + 1]
    BY <1>2, HeadTailProperties
  <2>4. DOMAIN Tail(bt.slice) = 1..Len(Tail(bt.slice))
    BY <2>2, LenProperties
  <2> QED BY <1>1, <2>1, <2>2, <2>3, <2>4 DEF Advances
<1>4. TurnsTaken' = TurnsTaken + 1 /\ SliceEnd' = SliceEnd
  <2>1. /\ TurnsTaken = Len(Targets) - Len(bt.slice) - Len(bt.rest)
        /\ TurnsTaken' = Len(Targets) - Len(bt'.slice) - Len(bt.rest)
        /\ SliceEnd' = SliceEnd
    BY DEF TurnsTaken, SliceEnd, Advances
  <2> DEFINE n == Len(Targets)
             a == Len(bt.slice)
             b == Len(bt.rest)
             c == Len(bt'.slice)
  <2>2. a \in Nat /\ b \in Nat /\ n \in Nat /\ c = a - 1
    BY <1>1, <1>3, TargetFacts
  <2>3. TurnsTaken = n - a - b /\ TurnsTaken' = n - c - b
    BY <2>1
  <2> HIDE DEF n, a, b, c
  <2>4. n - c - b = n - a - b + 1
    BY <2>2
  <2> QED BY <2>1, <2>3, <2>4
<1>5. /\ \A i \in DOMAIN bt.slice : bt.slice[i] = Targets[TurnsTaken + i]
      /\ \A i \in DOMAIN bt.rest : bt.rest[i] = Targets[SliceEnd + i]
  BY <1>0 DEF BatchInv, PlaceInv
<1>6. Target = Targets[TurnsTaken + 1] /\ TurnsTaken + 1 \in DOMAIN Targets
  <2>1. 1 \in DOMAIN bt.slice
    BY <1>1, <1>3
  <2>2. TurnsTaken + 1 \in DOMAIN Targets
    BY <1>1, <1>3, TargetFacts
  <2> QED BY <1>5, <2>1, <2>2 DEF Target
<1>7. Target \in Guests
  BY <1>6, TargetFacts
<1>8. \A i \in DOMAIN bt'.slice : bt'.slice[i] = Targets[TurnsTaken' + i]
  <2> SUFFICES ASSUME NEW i \in 1..(Len(bt.slice) - 1)
               PROVE  bt'.slice[i] = Targets[TurnsTaken' + i]
    BY <1>3
  <2>0. i + 1 \in DOMAIN bt.slice
    BY <1>1
  <2>1. bt.slice[i + 1] = Targets[TurnsTaken + (i + 1)]
    BY <1>5, <2>0
  <2>2. TurnsTaken + (i + 1) = TurnsTaken' + i
    BY <1>1, <1>4
  <2> QED BY <1>3, <2>1, <2>2
<1> QED
  BY <1>1, <1>3, <1>4, <1>5, <1>6, <1>7, <1>8 DEF PlaceInv, Advances

LEMMA StatusFacts ==
  /\ EXIT_HITL_PENDING = 9
  /\ Statuses = {"none", "success", "error", "rejected", "pending", "skipped"}
BY DEF EXIT_HITL_PENDING, Statuses

LEMMA PilotsInNat ==
  ASSUME bt \in Batches, bt.plan.name = "canary"
  PROVE  PilotCount(Len(Targets), bt.plan.n) \in 1..Len(Targets)
<1>1. bt.plan \in Policies
  BY DEF Batches
<1>2. bt.plan.n \in 1..100
  BY <1>1, PolicyFacts
<1>3. Len(Targets) \in Nat /\ Len(Targets) > 0
  BY TargetFacts
<1> QED BY <1>2, <1>3, PilotBounds

\* A batch that stops after its m-th entry, in the slice it is in.
Halts(m) ==
  /\ bt'.op = bt.op /\ bt'.strict = bt.strict /\ bt'.plan = bt.plan /\ bt'.gated = bt.gated
  /\ \A i \in DOMAIN Targets :
       /\ Targets[i] \in bt'.acted => i <= m
       /\ i <= TurnsTaken /\ Targets[i] \notin bt.fly =>
            bt'.got[Targets[i]] = bt.got[Targets[i]]
       /\ bt.strict /\ bt.op # "delete_guest" /\ i < m /\ bt'.got[Targets[i]] = "error" =>
            Targets[i] \in bt.gated

LEMMA HaltsReached ==
  ASSUME BatchInv, Batching, NEW m \in Nat, m <= SliceEnd, Halts(m)
  PROVE  \E q \in 0..Len(Targets) : Reached(q)'
<1> DEFINE pilots == PilotCount(Len(Targets), bt.plan.n)
           bad == {"error", "rejected", "pending"}
<1>0. /\ bt \in Batches /\ TurnsTaken \in Nat /\ SliceEnd \in Nat /\ SliceEnd <= Len(Targets)
      /\ Len(Targets) \in Nat
  BY Places, TargetFacts
<1>1. StageInv
  BY DEF BatchInv
<1>2. /\ bt'.op = bt.op /\ bt'.strict = bt.strict /\ bt'.plan = bt.plan /\ bt'.gated = bt.gated
      /\ \A i \in DOMAIN Targets : Targets[i] \in bt'.acted => i <= m
      /\ \A i \in DOMAIN Targets : i <= TurnsTaken /\ Targets[i] \notin bt.fly =>
            bt'.got[Targets[i]] = bt.got[Targets[i]]
      /\ bt.strict /\ bt.op # "delete_guest" => \A i \in DOMAIN Targets :
            i < m /\ bt'.got[Targets[i]] = "error" => Targets[i] \in bt.gated
  BY DEF Halts
<1>3. ASSUME bt.plan.name = "canary"
      PROVE  \/ m <= pilots
             \/ \A i \in DOMAIN Targets : i <= pilots => bt'.got[Targets[i]] \notin bad
  <2>1. CASE SliceEnd = pilots
    BY <2>1
  <2>2. CASE Passed(pilots, bad)
    <3>1. /\ pilots <= TurnsTaken
          /\ \A i \in DOMAIN Targets : i <= pilots => bt.got[Targets[i]] \notin bad /\ Targets[i] \notin bt.fly
      BY <2>2 DEF Passed
    <3>2. pilots \in Nat
      BY <1>0, <1>3, PilotsInNat
    <3> HIDE DEF pilots
    <3>3. \A i \in DOMAIN Targets : i <= pilots => i <= TurnsTaken
      BY <1>0, <3>1, <3>2, TargetFacts
    <3> QED BY <1>2, <3>1, <3>3
  <2> QED BY <1>1, <1>3, <2>1, <2>2 DEF StageInv, CanaryInv
<1>4. ASSUME bt.plan.name = "rolling"
      PROVE  \E k \in 0..Len(Targets) :
               /\ m <= k * bt.plan.n + bt.plan.n
               /\ \A i \in DOMAIN Targets : i <= k * bt.plan.n => bt'.got[Targets[i]] # "error"
  <2>1. bt.plan.n \in Nat
    BY <1>0, <1>4, PolicyFacts DEF Batches
  <2>2. PICK k \in 0..Len(Targets) :
          Passed(k * bt.plan.n, {"error"}) /\ SliceEnd <= k * bt.plan.n + bt.plan.n
    BY <1>1, <1>4 DEF StageInv, RollingInv
  <2> DEFINE w == k * bt.plan.n
  <2>3. w \in Nat /\ w <= TurnsTaken /\ SliceEnd <= w + bt.plan.n
    BY <2>1, <2>2 DEF Passed
  <2>4. \A i \in DOMAIN Targets : i <= w => bt.got[Targets[i]] \notin {"error"} /\ Targets[i] \notin bt.fly
    BY <2>2 DEF Passed
  <2> HIDE DEF w
  <2>5. \A i \in DOMAIN Targets : i <= w => i <= TurnsTaken
    BY <1>0, <2>3, TargetFacts
  <2>6. m <= w + bt.plan.n
    BY <1>0, <2>1, <2>3
  <2>7. \A i \in DOMAIN Targets : i <= w => bt'.got[Targets[i]] # "error"
    BY <1>2, <2>4, <2>5
  <2> QED BY <2>6, <2>7 DEF w
<1>5. Reached(m)'
  BY <1>2, <1>3, <1>4 DEF Reached, Pilot
<1>6. m \in 0..Len(Targets)
  BY <1>0
<1> QED BY <1>5, <1>6

\* The same of a batch in progress.
LEMMA ReachedNow ==
  ASSUME BatchInv, Batching
  PROVE  Reached(TurnsTaken) /\ TurnsTaken \in 0..Len(Targets)
<1> DEFINE pilots == PilotCount(Len(Targets), bt.plan.n)
           bad == {"error", "rejected", "pending"}
<1>0. /\ bt \in Batches /\ TurnsTaken \in Nat /\ SliceEnd \in Nat /\ SliceEnd <= Len(Targets)
      /\ Len(Targets) \in Nat /\ TurnsTaken <= SliceEnd
  BY Places, TargetFacts
<1>1. StageInv /\ EntryInv /\ TouchInv /\ StrictInv
  BY DEF BatchInv
<1>2. \A i \in DOMAIN Targets : Targets[i] \in bt.acted => i <= TurnsTaken
  <2> SUFFICES ASSUME NEW i \in DOMAIN Targets, Targets[i] \in bt.acted, ~(i <= TurnsTaken)
               PROVE  FALSE
    OBVIOUS
  <2>1. i > TurnsTaken
    BY <1>0, TargetFacts
  <2>2. bt.got[Targets[i]] = "none"
    BY <1>1, <2>1 DEF EntryInv
  <2>3. Targets[i] \in Guests
    BY TargetFacts
  <2> QED BY <1>1, <2>2, <2>3 DEF TouchInv
<1>3. ASSUME bt.plan.name = "canary"
      PROVE  \/ TurnsTaken <= pilots
             \/ \A i \in DOMAIN Targets : i <= pilots => bt.got[Targets[i]] \notin bad
  BY <1>0, <1>1, <1>3 DEF StageInv, CanaryInv, Passed
<1>4. ASSUME bt.plan.name = "rolling"
      PROVE  \E k \in 0..Len(Targets) :
               /\ TurnsTaken <= k * bt.plan.n + bt.plan.n
               /\ \A i \in DOMAIN Targets : i <= k * bt.plan.n => bt.got[Targets[i]] # "error"
  <2>1. bt.plan.n \in Nat
    BY <1>0, <1>4, PolicyFacts DEF Batches
  <2>2. PICK k \in 0..Len(Targets) :
          Passed(k * bt.plan.n, {"error"}) /\ SliceEnd <= k * bt.plan.n + bt.plan.n
    BY <1>1, <1>4 DEF StageInv, RollingInv
  <2> DEFINE w == k * bt.plan.n
  <2>3. w \in Nat /\ SliceEnd <= w + bt.plan.n
    BY <2>1, <2>2
  <2>4. \A i \in DOMAIN Targets : i <= w => bt.got[Targets[i]] # "error"
    BY <2>2 DEF Passed
  <2> HIDE DEF w
  <2>5. TurnsTaken <= w + bt.plan.n
    BY <1>0, <2>1, <2>3
  <2> QED BY <2>4, <2>5 DEF w
<1>5. bt.strict /\ bt.op # "delete_guest" => \A i \in DOMAIN Targets :
         i < TurnsTaken /\ bt.got[Targets[i]] = "error" => Targets[i] \in bt.gated
  BY <1>1, TargetFacts DEF StrictInv
<1>6. Reached(TurnsTaken)
  BY <1>2, <1>3, <1>4, <1>5 DEF Reached, Pilot
<1> QED BY <1>0, <1>6

\* A batch that got no further than its m-th entry stopped where it had to.
LEMMA ReachedStops ==
  ASSUME bt \in Batches, NEW m \in 0..Len(Targets), Reached(m)
  PROVE  RolloutStops
<1> SUFFICES ASSUME NEW i \in DOMAIN Targets, NEW j \in DOMAIN Targets,
                    StopsRollout(i, j), Targets[j] \in bt.acted
             PROVE  FALSE
  BY DEF RolloutStops
<1>0. j <= m /\ i \in Nat /\ j \in Nat /\ m \in Nat
  BY TargetFacts DEF Reached
<1>1. CASE /\ bt.plan.name = "canary" /\ Pilot(i) /\ ~Pilot(j)
           /\ bt.got[Targets[i]] \in {"error", "rejected", "pending"}
  <2>1. m <= PilotCount(Len(Targets), bt.plan.n)
    BY <1>1 DEF Reached
  <2>2. PilotCount(Len(Targets), bt.plan.n) \in Nat
    BY <1>1, PilotsInNat
  <2> QED BY <1>0, <1>1, <2>1, <2>2 DEF Pilot
<1>2. CASE /\ bt.plan.name = "rolling" /\ Wave(i) < Wave(j)
           /\ bt.got[Targets[i]] = "error"
  <2>1. bt.plan.n \in Nat \ {0}
    BY <1>2, PolicyFacts DEF Batches
  <2>2. PICK k \in 0..Len(Targets) :
          /\ m <= k * bt.plan.n + bt.plan.n
          /\ \A l \in DOMAIN Targets : l <= k * bt.plan.n => bt.got[Targets[l]] # "error"
    BY <1>2 DEF Reached
  <2>3. k \in Nat /\ ~(i <= k * bt.plan.n)
    BY <1>2, <2>2, TargetFacts
  <2> DEFINE w == k * bt.plan.n
  <2>4. w \in Nat
    BY <2>1, <2>3
  <2>5. i > w /\ j <= w + bt.plan.n
    <3> HIDE DEF w
    <3>1. ~(i <= w) /\ m <= w + bt.plan.n
      BY <2>2, <2>3 DEF w
    <3> QED BY <1>0, <2>1, <2>4, <3>1
  <2>6. (i - 1) \div bt.plan.n >= k
    BY <1>0, <2>1, <2>3, <2>5, WaveFrom
  <2>7. (j - 1) \div bt.plan.n <= k
    BY <1>0, <2>1, <2>3, <2>5, WaveTo
  <2>8. Wave(i) \in Int /\ Wave(j) \in Int
    BY <1>0, <2>1 DEF Wave
  <2>9. Wave(i) >= k /\ Wave(j) <= k
    BY <2>6, <2>7 DEF Wave
  <2> HIDE DEF w
  <2> QED BY <1>2, <2>3, <2>8, <2>9
<1>3. CASE /\ bt.strict /\ bt.op # "delete_guest" /\ i < j
           /\ bt.got[Targets[i]] = "error" /\ Targets[i] \in bt.seen \ bt.gated
  <2>1. i < m
    BY <1>0, <1>3
  <2> QED BY <1>3, <2>1 DEF Reached
<1> QED BY <1>1, <1>2, <1>3 DEF StopsRollout

\* What a reader relies on follows from the invariant.
LEMMA BatchSafe ==
  ASSUME BatchInv
  PROVE  PolicyHolds /\ EveryTargetReported /\ BatchExitIsTrue /\ RolloutStops
<1>0. bt \in Batches /\ bt.phase \in {"idle", "scan", "turn", "done"}
  BY DEF BatchInv, BatchTypeOK, Batches
<1>1. CASE Batching
  <2>1. PolicyHolds
    BY <1>1 DEF BatchInv, TouchInv, PolicyHolds
  <2>2. EveryTargetReported /\ BatchExitIsTrue
    BY <1>1 DEF Batching, BatchOver, EveryTargetReported, BatchExitIsTrue
  <2>3. RolloutStops
    BY <1>0, <1>1, ReachedNow, ReachedStops
  <2> QED BY <2>1, <2>2, <2>3
<1>2. CASE BatchOver
  <2>1. PolicyHolds /\ EveryTargetReported /\ BatchExitIsTrue
    BY <1>2 DEF BatchInv
  <2>2. PICK m \in 0..Len(Targets) : Reached(m)
    BY <1>2 DEF BatchInv
  <2> QED BY <1>0, <2>1, <2>2, ReachedStops
<1>3. CASE bt.phase = "idle"
  <2>1. bt.phase = "idle" /\ bt.acted = {}
    BY <1>3 DEF BatchInv, NoBatch
  <2> QED BY <2>1 DEF PolicyHolds, EveryTargetReported, BatchExitIsTrue, BatchOver, RolloutStops
<1> QED BY <1>0, <1>1, <1>2, <1>3 DEF Batching, BatchOver

\* A turn that does not end the batch: what is reported of the entry so far, and
\* whether it was acted on.
TakesTurn(s, act) ==
  /\ bt' \in Batches /\ bt'.phase = "turn" /\ Advances
  /\ bt'.got = [bt.got EXCEPT ![Target] = s]
  /\ bt'.fly = IF s = "none" THEN bt.fly \cup {Target} ELSE bt.fly
  /\ bt'.acted = bt.acted \cup act
  /\ bt'.fail = (bt.fail \/ s \in {"error", "rejected"})
  /\ bt'.pend = (bt.pend \/ s = "pending")
  /\ bt'.op = bt.op /\ bt'.strict = bt.strict /\ bt'.plan = bt.plan /\ bt'.policy = bt.policy
  /\ bt'.tmpl = bt.tmpl /\ bt'.gated = bt.gated /\ bt'.seen = bt.seen /\ bt'.code = bt.code
  /\ bt'.locked = bt.locked

Fits(s, act) ==
  /\ s \in {"none", "success", "error", "rejected", "pending"} /\ act \subseteq {Target}
  /\ s = "none" => Target \in bt.seen
  /\ s = "none" \/ act # {} => Target \notin bt.gated /\ ~IsRejected(Target)
  /\ s = "success" => act = {Target}
  /\ act # {} => s \in {"success", "error"}
  /\ s = "pending" => Target \in bt.gated
  /\ s = "rejected" => IsRejected(Target)
  /\ bt.strict /\ bt.op # "delete_guest" => s # "none" /\ (s = "error" => Target \in bt.gated)
  /\ bt.locked => act = {}

\* What a turn may assume of the batch.
LEMMA TurnFacts ==
  ASSUME BatchInv, bt.phase = "turn", bt.slice # <<>>, Advances
  PROVE  /\ bt \in Batches /\ Target \in Guests /\ TurnsTaken \in Nat
         /\ TurnsTaken' = TurnsTaken + 1 /\ SliceEnd' = SliceEnd /\ TurnsTaken + 1 <= SliceEnd
         /\ SliceEnd \in Nat
         /\ \A i \in DOMAIN Targets : Targets[i] = Target <=> i = TurnsTaken + 1
         /\ bt.got[Target] = "none" /\ Target \notin bt.fly /\ Target \notin bt.acted
<1>0. Batching
  BY DEF Batching
<1>1. bt \in Batches /\ TurnsTaken \in Nat /\ SliceEnd \in Nat
  BY <1>0, Places
<1>2. /\ TurnsTaken' = TurnsTaken + 1 /\ SliceEnd' = SliceEnd /\ TurnsTaken + 1 <= SliceEnd
      /\ TurnsTaken + 1 \in DOMAIN Targets /\ Target = Targets[TurnsTaken + 1] /\ Target \in Guests
  BY TurnPlace
<1>3. \A i \in DOMAIN Targets : Targets[i] = Target <=> i = TurnsTaken + 1
  BY <1>2, TargetFacts
<1>4. TurnsTaken + 1 > TurnsTaken /\ ~(TurnsTaken + 1 <= TurnsTaken)
  BY <1>1
<1>5. EntryInv /\ TouchInv
  BY <1>0 DEF BatchInv
<1>6. bt.got[Target] = "none" /\ Target \notin bt.fly
  BY <1>2, <1>4, <1>5 DEF EntryInv
<1>7. Target \notin bt.acted
  BY <1>2, <1>5, <1>6 DEF TouchInv
<1> QED BY <1>1, <1>2, <1>3, <1>6, <1>7

LEMMA TurnMade ==
  ASSUME BatchInv, bt.phase = "turn", bt.slice # <<>>,
         NEW s, NEW act, TakesTurn(s, act), Fits(s, act)
  PROVE  BatchInv'
<1>0. Batching /\ Advances
  BY DEF Batching, TakesTurn
<1> DEFINE t == TurnsTaken
<1>1. /\ bt \in Batches /\ Target \in Guests /\ t \in Nat
      /\ TurnsTaken' = t + 1 /\ SliceEnd' = SliceEnd /\ t + 1 <= SliceEnd /\ SliceEnd \in Nat
      /\ \A i \in DOMAIN Targets : Targets[i] = Target <=> i = t + 1
      /\ bt.got[Target] = "none" /\ Target \notin bt.fly /\ Target \notin bt.acted
  BY <1>0, TurnFacts
<1> HIDE DEF t
<1>2. PlaceInv' /\ (\A i \in DOMAIN Targets : i \in Nat /\ Targets[i] \in Guests)
  BY <1>0, TurnPlace, TargetFacts
<1>3. EntryInv /\ TouchInv /\ FlagInv /\ StageInv /\ StrictInv
  BY <1>0 DEF BatchInv
<1>4. /\ bt' \in Batches /\ bt'.phase = "turn"
      /\ bt'.acted = bt.acted \cup act
      /\ bt'.op = bt.op /\ bt'.strict = bt.strict /\ bt'.plan = bt.plan /\ bt'.policy = bt.policy
      /\ bt'.tmpl = bt.tmpl /\ bt'.gated = bt.gated /\ bt'.seen = bt.seen /\ bt'.code = bt.code
      /\ bt'.locked = bt.locked /\ bt'.rest = bt.rest
  BY DEF TakesTurn, Advances
<1>5. bt'.got[Target] = s /\ \A g \in Guests : g # Target => bt'.got[g] = bt.got[g]
  <2>1. bt'.got = [bt.got EXCEPT ![Target] = s]
    BY DEF TakesTurn
  <2>2. DOMAIN bt.got = Guests
    BY <1>1 DEF Batches
  <2> QED BY <1>1, <2>1, <2>2
<1>6. /\ s = "none" => bt'.fly = bt.fly \cup {Target}
      /\ s # "none" => bt'.fly = bt.fly
  BY DEF TakesTurn
<1>7. /\ s \in {"none", "success", "error", "rejected", "pending"} /\ act \subseteq {Target}
      /\ s = "none" => Target \in bt.seen
      /\ s = "none" \/ act # {} => Target \notin bt.gated /\ ~IsRejected(Target)
      /\ s = "success" => act = {Target}
      /\ act # {} => s \in {"success", "error"}
      /\ s = "pending" => Target \in bt.gated
      /\ s = "rejected" => IsRejected(Target)
      /\ bt.strict /\ bt.op # "delete_guest" => s # "none" /\ (s = "error" => Target \in bt.gated)
      /\ bt.locked => act = {}
  BY DEF Fits
<1>8. EntryInv'
  <2> SUFFICES ASSUME NEW i \in DOMAIN Targets
               PROVE  /\ Targets[i] \in bt'.fly => i <= t + 1
                      /\ bt'.got[Targets[i]] \in IF i > t + 1 \/ Targets[i] \in bt'.fly THEN {"none"}
                                                 ELSE {"success", "error", "rejected", "pending"}
    BY <1>1 DEF EntryInv
  <2>1. /\ Targets[i] \in bt.fly => i <= t
        /\ bt.got[Targets[i]] \in IF i > t \/ Targets[i] \in bt.fly THEN {"none"}
                                  ELSE {"success", "error", "rejected", "pending"}
    BY <1>3 DEF EntryInv, t
  <2>2. CASE i = t + 1
    <3>1. Targets[i] = Target /\ ~(i > t + 1) /\ i <= t + 1
      BY <1>1, <1>2, <2>2
    <3>2. Targets[i] \in bt'.fly <=> s = "none"
      BY <1>1, <1>6, <3>1
    <3> QED BY <1>5, <1>7, <3>1, <3>2
  <2>3. CASE i # t + 1
    <3>1. Targets[i] # Target /\ (i > t + 1 <=> i > t) /\ (i <= t => i <= t + 1)
      BY <1>1, <1>2, <2>3
    <3>2. Targets[i] \in bt'.fly <=> Targets[i] \in bt.fly
      BY <1>6, <3>1
    <3>3. bt'.got[Targets[i]] = bt.got[Targets[i]]
      BY <1>2, <1>5, <3>1
    <3> QED BY <2>1, <3>1, <3>2, <3>3
  <2> QED BY <2>2, <2>3
<1>9. TouchInv'
  <2>0. \A g : IsRejected(g)' <=> IsRejected(g)
    BY <1>4 DEF IsRejected
  <2>1. \A g \in bt'.acted \cup bt'.fly : g \notin bt.gated /\ ~IsRejected(g)
    BY <1>3, <1>4, <1>6, <1>7 DEF TouchInv
  <2>2. ASSUME NEW g \in Guests
        PROVE  /\ bt'.got[g] = "success" => g \in bt'.acted
               /\ g \in bt'.acted => bt'.got[g] \in {"success", "error"}
               /\ bt'.got[g] = "pending" => g \in bt.gated
               /\ bt'.got[g] = "rejected" => IsRejected(g)
    <3>1. CASE g = Target
      BY <1>1, <1>4, <1>5, <1>7, <3>1
    <3>2. CASE g # Target
      BY <1>3, <1>4, <1>5, <1>7, <3>2 DEF TouchInv
    <3> QED BY <3>1, <3>2
  <2>3. bt.op = "delete_guest" => bt.gated = {}
    BY <1>3 DEF TouchInv
  <2> QED BY <1>4, <2>0, <2>1, <2>2, <2>3 DEF TouchInv
<1>10. FlagInv'
  <2> SUFFICES ASSUME bt.plan.name # "rolling"
               PROVE  /\ bt.code = 0
                      /\ bt'.fail <=> Some({"error", "rejected"})'
                      /\ bt'.pend <=> Some({"pending"})'
    BY <1>4 DEF FlagInv
  <2>0. bt.code = 0
    BY <1>3 DEF FlagInv
  <2>1. bt.code = 0 /\ (bt.fail <=> Some({"error", "rejected"})) /\ (bt.pend <=> Some({"pending"}))
    BY <1>3, <2>0 DEF FlagInv
  <2>2. /\ Some({"error", "rejected"})' <=> Some({"error", "rejected"}) \/ s \in {"error", "rejected"}
        /\ Some({"pending"})' <=> Some({"pending"}) \/ s = "pending"
    BY <1>1, <1>5 DEF Some
  <2>3. /\ bt'.fail <=> (bt.fail \/ s \in {"error", "rejected"})
        /\ bt'.pend <=> (bt.pend \/ s = "pending")
    BY DEF TakesTurn
  <2> QED BY <2>1, <2>2, <2>3
<1>11. StageInv'
  <2>1. ASSUME NEW m \in Nat, NEW bad, Passed(m, bad)
        PROVE  /\ m <= t + 1
               /\ \A i \in DOMAIN Targets : i <= m => bt'.got[Targets[i]] \notin bad /\ Targets[i] \notin bt'.fly
    <3>1. m <= t /\ \A i \in DOMAIN Targets : i <= m => bt.got[Targets[i]] \notin bad /\ Targets[i] \notin bt.fly
      BY <2>1 DEF Passed, t
    <3>2. \A i \in DOMAIN Targets : i <= m => Targets[i] # Target
      BY <1>1, <1>2, <3>1
    <3>3. m <= t + 1
      BY <1>1, <3>1
    <3> QED BY <1>2, <1>5, <1>6, <3>1, <3>2, <3>3
  <2>2. ASSUME bt.plan.name = "canary" PROVE CanaryInv'
    <3> DEFINE pilots == PilotCount(Len(Targets), bt.plan.n)
    <3>1. pilots \in Nat
      BY <1>1, <2>2, PilotsInNat
    <3>2. CASE bt.policy = bt.plan /\ SliceEnd = pilots
      BY <1>1, <1>4, <3>2 DEF CanaryInv
    <3>3. CASE /\ bt.policy = Full /\ bt.rest = <<>>
               /\ Passed(pilots, {"error", "rejected", "pending"})
      <4> HIDE DEF pilots
      <4>1. /\ pilots <= t + 1
            /\ \A i \in DOMAIN Targets : i <= pilots =>
                 bt'.got[Targets[i]] \notin {"error", "rejected", "pending"} /\ Targets[i] \notin bt'.fly
        BY <2>1, <3>1, <3>3
      <4>2. bt'.policy = Full /\ bt'.rest = <<>>
        BY <1>4, <3>3
      <4> QED BY <1>1, <1>4, <4>1, <4>2 DEF CanaryInv, Passed, pilots
    <3> QED BY <1>3, <2>2, <3>2, <3>3 DEF StageInv, CanaryInv
  <2>3. ASSUME bt.plan.name = "rolling" PROVE RollingInv'
    <3>1. bt.plan.n \in Nat
      BY <1>1, <2>3, PolicyFacts DEF Batches
    <3>2. /\ bt.policy = bt.plan
          /\ \E k \in 0..Len(Targets) :
               /\ Passed(k * bt.plan.n, {"error"})
               /\ SliceEnd <= k * bt.plan.n + bt.plan.n
               /\ SliceEnd = k * bt.plan.n + bt.plan.n \/ bt.rest = <<>>
      BY <1>3, <2>3 DEF StageInv, RollingInv
    <3>3. PICK k \in 0..Len(Targets) :
            /\ Passed(k * bt.plan.n, {"error"})
            /\ SliceEnd <= k * bt.plan.n + bt.plan.n
            /\ SliceEnd = k * bt.plan.n + bt.plan.n \/ bt.rest = <<>>
      BY <3>2
    <3> DEFINE w == k * bt.plan.n
    <3>4. w \in Nat
      BY <3>1, TargetFacts
    <3>5. Passed(w, {"error"})
      BY <3>3
    <3>9. w' = w
      BY <1>4
    <3> HIDE DEF w
    <3>6. /\ w <= t + 1
          /\ \A i \in DOMAIN Targets : i <= w => bt'.got[Targets[i]] \notin {"error"} /\ Targets[i] \notin bt'.fly
      BY <2>1, <3>4, <3>5
    <3>7. Passed(w, {"error"})'
      BY <1>1, <3>6, <3>9 DEF Passed
    <3>8. (SliceEnd <= w + bt.plan.n)' /\ (SliceEnd = w + bt.plan.n \/ bt.rest = <<>>)'
      BY <1>1, <1>4, <3>3, <3>9 DEF w
    <3> QED BY <1>4, <3>2, <3>7, <3>8, <3>9 DEF RollingInv, w
  <2>4. bt.plan.name = "full" => bt.policy = bt.plan /\ bt.rest = <<>>
    BY <1>3 DEF StageInv
  <2> QED BY <1>4, <2>2, <2>3, <2>4 DEF StageInv
<1>12. StrictInv'
  <2> SUFFICES ASSUME bt.strict, bt.op # "delete_guest"
               PROVE  /\ bt'.fly = {}
                      /\ \A g \in Guests : bt'.got[g] = "error" => g \in bt.gated
                      /\ \A i \in DOMAIN bt'.slice : bt'.slice[i] \in bt.seen
    BY <1>4 DEF StrictInv
  <2>1. /\ bt.fly = {} /\ \A g \in Guests : bt.got[g] = "error" => g \in bt.gated
        /\ \A i \in DOMAIN bt.slice : bt.slice[i] \in bt.seen
    BY <1>3 DEF StrictInv
  <2>2. bt'.fly = {}
    BY <1>6, <1>7, <2>1
  <2>3. \A g \in Guests : bt'.got[g] = "error" => g \in bt.gated
    BY <1>5, <1>7, <2>1
  <2>4. ASSUME NEW i \in DOMAIN bt'.slice PROVE bt'.slice[i] \in bt.seen
    <3>1. bt.slice \in Seq(Guests)
      BY <1>1 DEF Batches
    <3>2. bt'.slice = Tail(bt.slice)
      BY <1>0 DEF Advances
    <3>3. /\ Len(bt'.slice) = Len(bt.slice) - 1 /\ bt'.slice \in Seq(Guests)
          /\ \A j \in 1..Len(bt'.slice) : bt'.slice[j] = bt.slice[j + 1]
      BY <3>1, <3>2, HeadTailProperties
    <3>4. /\ DOMAIN bt'.slice = 1..Len(bt'.slice) /\ DOMAIN bt.slice = 1..Len(bt.slice)
          /\ Len(bt.slice) \in Nat
      BY <3>1, <3>3, LenProperties
    <3>5. i + 1 \in DOMAIN bt.slice
      BY <3>3, <3>4
    <3>6. bt'.slice[i] = bt.slice[i + 1]
      BY <3>3, <3>4
    <3> QED BY <2>1, <3>5, <3>6
  <2> QED BY <2>2, <2>3, <2>4
<1>13. BatchTypeOK' /\ (bt.locked => bt'.acted = {})
  <2>1. bt.fly \subseteq bt.seen /\ (bt.locked => bt.acted = {})
    BY DEF BatchInv, BatchTypeOK
  <2>2. bt'.fly \subseteq bt'.seen /\ (bt.locked => bt'.acted = {})
    BY <1>4, <1>6, <1>7, <2>1
  <2> QED BY <1>4, <2>2 DEF BatchTypeOK, Batches
<1> QED
  BY <1>2, <1>4, <1>8, <1>9, <1>10, <1>11, <1>12, <1>13 DEF BatchInv, Batching, BatchOver

LEMMA TailIsSeq ==
  ASSUME bt \in Batches, bt.slice # <<>>
  PROVE  Tail(bt.slice) \in Seq(Guests)
<1>1. bt.slice \in Seq(Guests)
  BY DEF Batches
<1> QED BY <1>1, HeadTailProperties

LEMMA TurnedFields ==
  ASSUME BatchInv, bt.phase = "turn", bt.slice # <<>>,
         NEW status \in {"error", "rejected", "pending"}, NEW failed \in BOOLEAN,
         failed <=> status # "pending", Turned(status, failed)
  PROVE  TakesTurn(status, {})
<1>0. bt \in Batches
  BY DEF BatchInv, BatchTypeOK, Batches
<1> DEFINE tail == Tail(bt.slice)
           at == Target
<1>1. bt' = [bt EXCEPT !.slice = tail, !.got[at] = status,
               !.fail = bt.fail \/ failed, !.pend = bt.pend \/ status = "pending"]
  BY DEF Turned
<1>2. tail \in Seq(Guests)
  BY <1>0, TailIsSeq
<1> HIDE DEF tail, at
<1>3. /\ bt'.phase = bt.phase /\ bt'.op = bt.op /\ bt'.strict = bt.strict /\ bt'.plan = bt.plan
      /\ bt'.policy = bt.policy /\ bt'.asks = bt.asks /\ bt'.locked = bt.locked
      /\ bt'.where = bt.where /\ bt'.tmpl = bt.tmpl /\ bt'.gated = bt.gated
      /\ bt'.slice = tail /\ bt'.rest = bt.rest /\ bt'.seen = bt.seen
      /\ bt'.partial = bt.partial /\ bt'.fly = bt.fly /\ bt'.got = [bt.got EXCEPT ![at] = status]
      /\ bt'.acted = bt.acted /\ bt'.fail = (bt.fail \/ failed)
      /\ bt'.pend = (bt.pend \/ status = "pending") /\ bt'.code = bt.code
  BY <1>0, <1>1 DEF Batches
<1>4. bt' \in Batches
  <2>1. [bt.got EXCEPT ![at] = status] \in [Guests -> Statuses]
    BY <1>0, StatusFacts DEF Batches
  <2> QED BY <1>0, <1>1, <1>2, <2>1 DEF Batches
<1>5. (bt.fail \/ failed) = (bt.fail \/ status \in {"error", "rejected"})
  OBVIOUS
<1> QED BY <1>3, <1>4, <1>5 DEF TakesTurn, Advances, tail, at

\* A batch that ends with an error.
LEMMA EndedBadly ==
  ASSUME BatchInv, Batching, bt' \in Batches, bt'.phase = "done", bt'.code \in Failures,
         bt'.fly \subseteq bt'.seen, PolicyHolds', bt'.locked => bt'.acted = {},
         NEW m \in Nat, m <= SliceEnd, Halts(m)
  PROVE  BatchInv'
<1>1. \E q \in 0..Len(Targets) : Reached(q)'
  BY HaltsReached
<1>2. BatchTypeOK'
  BY DEF BatchTypeOK, Batches
<1>3. EveryTargetReported' /\ BatchExitIsTrue'
  BY Codes, StatusFacts DEF EveryTargetReported, BatchExitIsTrue, CodeFits
<1> QED BY <1>1, <1>2, <1>3 DEF BatchInv, Batching, BatchOver

\* An approval that could not be recorded ends the batch where it is.
LEMMA AskAborts ==
  ASSUME BatchInv, bt.phase = "turn", bt.slice # <<>>,
         NEW got \in SUBSET (IF bt.locked THEN {} ELSE bt.fly),
         bt' = [bt EXCEPT !.phase = "done", !.code = Other, !.fly = {}, !.acted = @ \cup got]
  PROVE  BatchInv'
<1>0. Batching
  BY DEF Batching
<1>1. bt \in Batches /\ TurnsTaken \in Nat /\ TurnsTaken <= SliceEnd
  BY <1>0, Places
<1>2. bt' \in Batches
  BY <1>1, Codes DEF Batches
<1>3. /\ bt'.phase = "done" /\ bt'.code = Other /\ bt'.fly = {} /\ bt'.acted = bt.acted \cup got
      /\ bt'.op = bt.op /\ bt'.strict = bt.strict /\ bt'.plan = bt.plan /\ bt'.gated = bt.gated
      /\ bt'.got = bt.got /\ bt'.locked = bt.locked /\ bt'.tmpl = bt.tmpl
  BY <1>1 DEF Batches
<1>4. EntryInv /\ TouchInv /\ StrictInv /\ (bt.locked => bt.acted = {})
  BY <1>0 DEF BatchInv
<1>5. got \subseteq bt.fly /\ (bt.locked => got = {})
  OBVIOUS
<1>6. PolicyHolds'
  <2>1. \A g : IsRejected(g)' <=> IsRejected(g)
    BY <1>3 DEF IsRejected
  <2> QED BY <1>3, <1>4, <1>5, <2>1 DEF PolicyHolds, TouchInv
<1>7. \A i \in DOMAIN Targets : Targets[i] \in bt'.acted => i <= TurnsTaken
  <2>1. \A i \in DOMAIN Targets : Targets[i] \in bt.acted => i <= TurnsTaken
    BY <1>0, ReachedNow DEF Reached
  <2> QED BY <1>3, <1>4, <1>5, <2>1 DEF EntryInv
<1>8. bt.strict /\ bt.op # "delete_guest" => \A g \in Guests : bt.got[g] = "error" => g \in bt.gated
  BY <1>4 DEF StrictInv
<1>9. Halts(TurnsTaken)
  BY <1>3, <1>7, <1>8, TargetFacts DEF Halts
<1> QED BY <1>0, <1>1, <1>2, <1>3, <1>4, <1>5, <1>6, <1>9, EndedBadly, Codes

LEMMA AskHumanStep ==
  ASSUME BatchInv, bt.phase = "turn", bt.slice # <<>>, AskHuman,
         Target \in bt.gated, ~IsRejected(Target)
  PROVE  BatchInv'
<1>1. CASE Turned("pending", FALSE)
  <2>1. TakesTurn("pending", {})
    BY <1>1, TurnedFields
  <2>2. Fits("pending", {})
    BY DEF Fits
  <2> QED BY <2>1, <2>2, TurnMade
<1>2. CASE Turned("error", TRUE)
  <2>1. TakesTurn("error", {})
    BY <1>2, TurnedFields
  <2>2. Fits("error", {})
    BY DEF Fits
  <2> QED BY <2>1, <2>2, TurnMade
<1>3. CASE \E got \in SUBSET (IF bt.locked THEN {} ELSE bt.fly) :
             bt' = [bt EXCEPT !.phase = "done", !.code = Other, !.fly = {}, !.acted = @ \cup got]
  BY <1>3, AskAborts
<1> QED BY <1>1, <1>2, <1>3 DEF AskHuman

\* One operation after the other.
LEMMA PerformNowStep ==
  ASSUME BatchInv, bt.phase = "turn", bt.slice # <<>>, PerformNow,
         bt.strict \/ bt.op = "delete_guest",
         Target \in bt.seen, Target \notin bt.gated, ~IsRejected(Target)
  PROVE  BatchInv'
<1>0. bt \in Batches /\ Batching
  BY DEF BatchInv, BatchTypeOK, Batches, Batching
<1> DEFINE tail == Tail(bt.slice)
           at == Target
<1>1. PICK ok \in BOOLEAN, reached \in BOOLEAN :
        /\ Performs(ok, reached)
        /\ bt' = [bt EXCEPT !.slice = tail, !.got[at] = IF ok THEN "success" ELSE "error",
                    !.acted = IF reached THEN bt.acted \cup {at} ELSE bt.acted,
                    !.fail = bt.fail \/ ~ok,
                    !.phase = IF ok \/ ~bt.strict THEN bt.phase ELSE "done",
                    !.code = IF ok \/ ~bt.strict THEN bt.code ELSE Other]
  BY DEF PerformNow
<1> DEFINE s == IF ok THEN "success" ELSE "error"
           act == IF reached THEN {at} ELSE {}
           ends == ~(ok \/ ~bt.strict)
           ph == IF ends THEN "done" ELSE "turn"
           cd == IF ends THEN Other ELSE bt.code
<1>2. tail \in Seq(Guests)
  BY <1>0, TailIsSeq
<1>3. /\ s \in {"success", "error"} /\ (s = "success" => act = {at}) /\ (bt.locked => act = {})
      /\ act \subseteq {at} /\ s \in Statuses
  BY <1>1, StatusFacts DEF Performs
<1>4. at \in Guests
  <2>1. bt.slice \in Seq(Guests) /\ Len(bt.slice) # 0
    BY <1>0, EmptySeq DEF Batches
  <2>2. 1 \in 1..Len(bt.slice) /\ DOMAIN bt.slice = 1..Len(bt.slice)
    BY <2>1, LenProperties
  <2> QED BY <2>1, <2>2, ElementOfSeq DEF Target
<1>5. bt' = [bt EXCEPT !.slice = tail, !.got[at] = s, !.acted = bt.acted \cup act,
               !.fail = bt.fail \/ ~ok, !.phase = ph, !.code = cd]
  <2>1. /\ (IF reached THEN bt.acted \cup {at} ELSE bt.acted) = bt.acted \cup act
        /\ (IF ok \/ ~bt.strict THEN bt.phase ELSE "done") = ph
        /\ (IF ok \/ ~bt.strict THEN bt.code ELSE Other) = cd
    OBVIOUS
  <2> QED BY <1>1, <2>1
<1>6. (ok <=> s = "success") /\ act \subseteq Guests
  BY <1>3, <1>4
<1>7. ends => bt.strict = TRUE /\ s = "error"
  BY <1>0 DEF Batches
<1>8. ph \in {"turn", "done"} /\ cd \in {0, 2, EXIT_HITL_PENDING} \cup Failures
      /\ (ends => ph = "done" /\ cd = Other) /\ (~ends => ph = "turn" /\ cd = bt.code)
  BY <1>0, Codes DEF Batches
<1> HIDE DEF tail, at, s, act, ends, ph, cd
<1>9. /\ bt'.phase = ph /\ bt'.op = bt.op /\ bt'.strict = bt.strict /\ bt'.plan = bt.plan
      /\ bt'.policy = bt.policy /\ bt'.locked = bt.locked
      /\ bt'.tmpl = bt.tmpl /\ bt'.gated = bt.gated
      /\ bt'.slice = tail /\ bt'.rest = bt.rest /\ bt'.seen = bt.seen
      /\ bt'.fly = bt.fly /\ bt'.got = [bt.got EXCEPT ![at] = s]
      /\ bt'.acted = bt.acted \cup act /\ bt'.fail = (bt.fail \/ ~ok)
      /\ bt'.pend = bt.pend /\ bt'.code = cd
  BY <1>0, <1>5 DEF Batches
<1>10. bt' \in Batches
  <2>1. [bt.got EXCEPT ![at] = s] \in [Guests -> Statuses]
    BY <1>0, <1>3 DEF Batches
  <2>2. bt.acted \cup act \in SUBSET Guests
    BY <1>0, <1>6 DEF Batches
  <2> DEFINE fl == bt.fail \/ ~ok
             ac == bt.acted \cup act
             go == [bt.got EXCEPT ![at] = s]
  <2>3. fl \in BOOLEAN /\ ph \in {"idle", "scan", "turn", "done"}
    BY <1>8
  <2>4. bt' = [bt EXCEPT !.slice = tail, !.got = go, !.acted = ac,
                 !.fail = fl, !.phase = ph, !.code = cd]
    BY <1>5
  <2>5. cd \in {0, 2, EXIT_HITL_PENDING} \cup Failures
    BY <1>8
  <2> HIDE DEF fl, ac, go
  <2>6. ac \in SUBSET Guests /\ go \in [Guests -> Statuses]
    BY <2>1, <2>2 DEF ac, go
  <2> QED BY <1>0, <1>2, <2>3, <2>4, <2>5, <2>6 DEF Batches
<1>11. CASE ~ends
  <2>0. ~(bt.strict /\ s = "error")
    BY <1>6, <1>11 DEF ends
  <2>1. TakesTurn(s, act)
    <3>1. (bt.fail \/ ~ok) = (bt.fail \/ s \in {"error", "rejected"})
      BY <1>3, <1>6
    <3>2. bt.pend = (bt.pend \/ s = "pending")
      BY <1>0, <1>3 DEF Batches
    <3>3. bt'.fly = IF s = "none" THEN bt.fly \cup {Target} ELSE bt.fly
      BY <1>3, <1>9
    <3>4. Advances
      BY <1>9 DEF Advances, tail
    <3>5. bt'.got = [bt.got EXCEPT ![Target] = s]
      BY <1>9 DEF at
    <3>6. bt'.fail = (bt.fail \/ s \in {"error", "rejected"})
      BY <1>9, <3>1
    <3>7. bt'.pend = (bt.pend \/ s = "pending")
      BY <1>9, <3>2
    <3> QED BY <1>8, <1>9, <1>10, <1>11, <3>3, <3>4, <3>5, <3>6, <3>7 DEF TakesTurn
  <2>2. Fits(s, act)
    BY <1>3, <2>0 DEF Fits, at
  <2> QED BY <2>1, <2>2, TurnMade
<1>12. CASE ends
  <2>0. Advances /\ bt'.phase = "done" /\ bt'.code = Other
    BY <1>8, <1>9, <1>12 DEF Advances, tail
  <2>1. /\ TurnsTaken \in Nat /\ TurnsTaken + 1 <= SliceEnd
        /\ \A i \in DOMAIN Targets : Targets[i] = at <=> i = TurnsTaken + 1
    BY <2>0, TurnFacts DEF at
  <2>2. /\ EntryInv /\ TouchInv /\ StrictInv /\ (bt.locked => bt.acted = {})
        /\ bt.fly \subseteq bt.seen
    BY <1>0 DEF BatchInv, BatchTypeOK
  <2>3. PolicyHolds'
    <3>1. \A g : IsRejected(g)' <=> IsRejected(g)
      BY <1>9 DEF IsRejected
    <3>2. \A g \in act : g \notin bt.gated /\ ~IsRejected(g)
      BY <1>3 DEF at
    <3> QED BY <1>9, <2>2, <3>1, <3>2 DEF PolicyHolds, TouchInv
  <2>4. \A i \in DOMAIN Targets : Targets[i] \in bt'.acted => i <= TurnsTaken + 1
    <3>1. \A i \in DOMAIN Targets : Targets[i] \in bt.acted => i <= TurnsTaken
      BY <1>0, ReachedNow DEF Reached
    <3>2. \A i \in DOMAIN Targets : i \in Nat
      BY TargetFacts
    <3>3. \A i \in DOMAIN Targets : Targets[i] \in bt.acted => i <= TurnsTaken + 1
      BY <2>1, <3>1, <3>2
    <3>4. \A i \in DOMAIN Targets : Targets[i] = at => i <= TurnsTaken + 1
      BY <2>1, <3>2
    <3> QED BY <1>3, <1>9, <3>3, <3>4
  <2>5. \A i \in DOMAIN Targets : i < TurnsTaken + 1 => bt'.got[Targets[i]] = bt.got[Targets[i]]
    <3>1. \A i \in DOMAIN Targets : i < TurnsTaken + 1 => Targets[i] # at /\ Targets[i] \in Guests
      BY <2>1, TargetFacts
    <3> QED BY <1>0, <1>9, <3>1 DEF Batches
  <2>6. bt.strict /\ bt.op # "delete_guest" =>
          \A g \in Guests : bt.got[g] = "error" => g \in bt.gated
    BY <2>2 DEF StrictInv
  <2>7. \A i \in DOMAIN Targets : i <= TurnsTaken => i < TurnsTaken + 1
    BY <2>1, TargetFacts
  <2>8. Halts(TurnsTaken + 1)
    BY <1>9, <2>4, <2>5, <2>6, <2>7, TargetFacts DEF Halts
  <2>9. TurnsTaken + 1 \in Nat /\ bt'.code \in Failures
    BY <2>0, <2>1, Codes
  <2>10. bt'.fly \subseteq bt'.seen /\ (bt'.locked => bt'.acted = {})
    BY <1>3, <1>9, <2>2
  <2> QED BY <1>0, <1>10, <2>0, <2>1, <2>3, <2>8, <2>9, <2>10, EndedBadly
<1> QED BY <1>11, <1>12

LEMMA SpawnStep ==
  ASSUME BatchInv, bt.phase = "turn", bt.slice # <<>>, Spawn,
         ~(bt.strict \/ bt.op = "delete_guest"),
         Target \in bt.seen, Target \notin bt.gated, ~IsRejected(Target)
  PROVE  BatchInv'
<1>0. bt \in Batches
  BY DEF BatchInv, BatchTypeOK, Batches
<1> DEFINE tail == Tail(bt.slice)
           at == Target
           fl == bt.fly \cup {at}
<1>1. bt' = [bt EXCEPT !.slice = tail, !.fly = fl]
  BY DEF Spawn
<1>2. tail \in Seq(Guests)
  BY <1>0, TailIsSeq
<1>3. fl \in SUBSET Guests
  BY <1>0 DEF Batches
<1> HIDE DEF tail, at, fl
<1>4. /\ bt'.phase = bt.phase /\ bt'.op = bt.op /\ bt'.strict = bt.strict /\ bt'.plan = bt.plan
      /\ bt'.policy = bt.policy /\ bt'.locked = bt.locked
      /\ bt'.tmpl = bt.tmpl /\ bt'.gated = bt.gated
      /\ bt'.slice = tail /\ bt'.rest = bt.rest /\ bt'.seen = bt.seen
      /\ bt'.fly = fl /\ bt'.got = bt.got /\ bt'.acted = bt.acted /\ bt'.fail = bt.fail
      /\ bt'.pend = bt.pend /\ bt'.code = bt.code
  BY <1>0, <1>1 DEF Batches
<1>5. bt' \in Batches
  BY <1>0, <1>1, <1>2, <1>3 DEF Batches
<1>6. Advances
  BY <1>4 DEF Advances, tail
<1>7. bt.got[Target] = "none" /\ Target \in Guests
  BY <1>6, TurnFacts
<1>8. bt'.got = [bt.got EXCEPT ![Target] = "none"]
  BY <1>0, <1>4, <1>7 DEF Batches
<1>9. bt.fail = (bt.fail \/ "none" \in {"error", "rejected"}) /\ bt.pend = (bt.pend \/ "none" = "pending")
  BY <1>0 DEF Batches
<1>10. TakesTurn("none", {})
  <2>1. bt'.fly = IF "none" = "none" THEN bt.fly \cup {Target} ELSE bt.fly
    BY <1>4 DEF fl, at
  <2>2. bt'.acted = bt.acted \cup {}
    BY <1>4
  <2>3. /\ bt'.fail = (bt.fail \/ "none" \in {"error", "rejected"})
        /\ bt'.pend = (bt.pend \/ "none" = "pending")
    BY <1>4, <1>9
  <2> QED BY <1>4, <1>5, <1>6, <1>8, <2>1, <2>2, <2>3 DEF TakesTurn
<1>11. Fits("none", {})
  BY DEF Fits
<1> QED BY <1>10, <1>11, TurnMade

LEMMA TakeTurnStep ==
  ASSUME BatchInv, TakeTurn
  PROVE  BatchInv'
<1>0. bt.phase = "turn" /\ bt.slice # <<>> /\ bt \in Batches /\ Batching
  BY DEF TakeTurn, BatchInv, BatchTypeOK, Batches, Batching
<1>1. CASE Target \notin bt.seen /\ Turned("error", TRUE)
  <2>1. TakesTurn("error", {})
    BY <1>0, <1>1, TurnedFields
  <2>2. ~(bt.strict /\ bt.op # "delete_guest")
    <3>1. bt.slice \in Seq(Guests) /\ Len(bt.slice) # 0
      BY <1>0, EmptySeq DEF Batches
    <3>2. 1 \in DOMAIN bt.slice
      BY <3>1, LenProperties
    <3> QED BY <1>0, <1>1, <3>2 DEF BatchInv, StrictInv, Target
  <2>3. Fits("error", {})
    BY <2>2 DEF Fits
  <2> QED BY <1>0, <2>1, <2>3, TurnMade
<1>2. CASE Target \in bt.seen /\ IsRejected(Target) /\ Turned("rejected", TRUE)
  <2>1. TakesTurn("rejected", {})
    BY <1>0, <1>2, TurnedFields
  <2>2. Fits("rejected", {})
    BY <1>2 DEF Fits
  <2> QED BY <1>0, <2>1, <2>2, TurnMade
<1>3. CASE Target \in bt.seen /\ ~IsRejected(Target) /\ Target \in bt.gated /\ AskHuman
  BY <1>0, <1>3, AskHumanStep
<1>4. CASE /\ Target \in bt.seen /\ ~IsRejected(Target) /\ Target \notin bt.gated
           /\ IF bt.strict \/ bt.op = "delete_guest" THEN PerformNow ELSE Spawn
  BY <1>0, <1>4, PerformNowStep, SpawnStep
<1> QED BY <1>1, <1>2, <1>3, <1>4, Zenon DEF TakeTurn

\* A spawned operation.
LEMMA PerformStep ==
  ASSUME BatchInv, Perform
  PROVE  BatchInv'
<1>0. bt \in Batches /\ bt.phase = "turn" /\ Batching /\ bt.fly \subseteq bt.seen
  BY DEF Perform, BatchInv, BatchTypeOK, Batches, Batching
<1>1. PICK g \in bt.fly, ok \in BOOLEAN, reached \in BOOLEAN :
        /\ Performs(ok, reached)
        /\ bt' = [bt EXCEPT !.fly = @ \ {g}, !.fail = @ \/ ~ok,
                    !.got[g] = IF ok THEN "success" ELSE "error",
                    !.acted = IF reached THEN @ \cup {g} ELSE @]
  BY DEF Perform
<1> DEFINE s == IF ok THEN "success" ELSE "error"
           ac == IF reached THEN bt.acted \cup {g} ELSE bt.acted
           fl == bt.fail \/ ~ok
           fy == bt.fly \ {g}
           go == [bt.got EXCEPT ![g] = s]
<1>2. bt' = [bt EXCEPT !.fly = fy, !.fail = fl, !.got = go, !.acted = ac]
  BY <1>1
<1>3. g \in Guests /\ g \in bt.fly
  BY <1>0, <1>1 DEF Batches
<1>4. /\ s \in {"success", "error"} /\ (s = "error" <=> ~ok) /\ (s = "success" => g \in ac)
      /\ ac \subseteq bt.acted \cup {g} /\ bt.acted \subseteq ac
      /\ (bt.locked => ac = bt.acted) /\ (fl <=> bt.fail \/ ~ok)
  BY <1>1 DEF Performs
<1>5. /\ fl \in BOOLEAN /\ fy \in SUBSET Guests /\ ac \in SUBSET Guests
      /\ go \in [Guests -> Statuses]
  BY <1>0, <1>3, <1>4, StatusFacts DEF Batches
<1>6. go[g] = s /\ \A h \in Guests : h # g => go[h] = bt.got[h]
  BY <1>0, <1>3 DEF Batches
<1>7. \A h : h \in fy <=> h \in bt.fly /\ h # g
  OBVIOUS
<1> HIDE DEF s, ac, fl, fy, go
<1>8. bt' \in Batches
  BY <1>0, <1>2, <1>5 DEF Batches
<1>9. /\ bt'.phase = bt.phase /\ bt'.op = bt.op /\ bt'.strict = bt.strict /\ bt'.plan = bt.plan
      /\ bt'.policy = bt.policy /\ bt'.locked = bt.locked
      /\ bt'.tmpl = bt.tmpl /\ bt'.gated = bt.gated
      /\ bt'.slice = bt.slice /\ bt'.rest = bt.rest /\ bt'.seen = bt.seen
      /\ bt'.fly = fy /\ bt'.got = go /\ bt'.acted = ac /\ bt'.fail = fl
      /\ bt'.pend = bt.pend /\ bt'.code = bt.code
  BY <1>0, <1>2 DEF Batches
<1>10. /\ PlaceInv /\ EntryInv /\ TouchInv /\ FlagInv /\ StageInv /\ StrictInv
       /\ (bt.locked => bt.acted = {})
  BY <1>0 DEF BatchInv
<1>11. TurnsTaken' = TurnsTaken /\ SliceEnd' = SliceEnd
  BY <1>9 DEF TurnsTaken, SliceEnd
<1>12. PlaceInv'
  BY <1>9, <1>10, <1>11 DEF PlaceInv
<1>13. \A i \in DOMAIN Targets : Targets[i] \in Guests
  BY TargetFacts
<1>14. EntryInv'
  <2> SUFFICES ASSUME NEW i \in DOMAIN Targets
               PROVE  /\ Targets[i] \in fy => i <= TurnsTaken
                      /\ go[Targets[i]] \in IF i > TurnsTaken \/ Targets[i] \in fy THEN {"none"}
                                            ELSE {"success", "error", "rejected", "pending"}
    BY <1>9, <1>11 DEF EntryInv
  <2>1. /\ Targets[i] \in bt.fly => i <= TurnsTaken
        /\ bt.got[Targets[i]] \in IF i > TurnsTaken \/ Targets[i] \in bt.fly THEN {"none"}
                                  ELSE {"success", "error", "rejected", "pending"}
    BY <1>10 DEF EntryInv
  <2>2. CASE Targets[i] = g
    <3>1. i <= TurnsTaken /\ i \in Nat /\ TurnsTaken \in Nat
      BY <1>0, <1>3, <2>1, <2>2, TargetFacts, Places
    <3>2. ~(i > TurnsTaken)
      BY <3>1
    <3> QED BY <1>4, <1>6, <1>7, <2>2, <3>1, <3>2
  <2>3. CASE Targets[i] # g
    BY <1>6, <1>7, <1>13, <2>1, <2>3
  <2> QED BY <2>2, <2>3
<1>15. TouchInv'
  <2>0. \A h : IsRejected(h)' <=> IsRejected(h)
    BY <1>9 DEF IsRejected
  <2>1. \A h \in ac \cup fy : h \notin bt.gated /\ ~IsRejected(h)
    BY <1>3, <1>4, <1>7, <1>10 DEF TouchInv
  <2>2. ASSUME NEW h \in Guests
        PROVE  /\ go[h] = "success" => h \in ac
               /\ h \in ac => go[h] \in {"success", "error"}
               /\ go[h] = "pending" => h \in bt.gated
               /\ go[h] = "rejected" => IsRejected(h)
    <3>1. CASE h = g
      BY <1>4, <1>6, <3>1
    <3>2. CASE h # g
      BY <1>4, <1>6, <1>10, <3>2 DEF TouchInv
    <3> QED BY <3>1, <3>2
  <2>3. bt.op = "delete_guest" => bt.gated = {}
    BY <1>10 DEF TouchInv
  <2> QED BY <1>9, <2>0, <2>1, <2>2, <2>3 DEF TouchInv
<1>16. bt.got[g] = "none"
  <2>1. PICK i \in DOMAIN Targets : g = Targets[i]
    BY <1>3, TargetFacts
  <2> QED BY <1>3, <1>10, <2>1 DEF EntryInv
<1>17. FlagInv'
  <2> SUFFICES ASSUME bt.plan.name # "rolling"
               PROVE  /\ bt.code = 0
                      /\ fl <=> Some({"error", "rejected"})'
                      /\ bt.pend <=> Some({"pending"})'
    BY <1>0, <1>9 DEF FlagInv
  <2>1. bt.code = 0 /\ (bt.fail <=> Some({"error", "rejected"})) /\ (bt.pend <=> Some({"pending"}))
    BY <1>0, <1>10 DEF FlagInv
  <2>2. /\ Some({"error", "rejected"})' <=> Some({"error", "rejected"}) \/ s = "error"
        /\ Some({"pending"})' <=> Some({"pending"})
    BY <1>3, <1>4, <1>6, <1>9, <1>16 DEF Some
  <2> QED BY <1>4, <2>1, <2>2
<1>18. StageInv'
  <2>1. ASSUME NEW m, NEW bad, Passed(m, bad)
        PROVE  /\ m <= TurnsTaken
               /\ \A i \in DOMAIN Targets : i <= m => go[Targets[i]] \notin bad /\ Targets[i] \notin fy
    BY <1>3, <1>6, <1>7, <1>13, <2>1 DEF Passed
  <2>2. ASSUME bt.plan.name = "canary" PROVE CanaryInv'
    <3> DEFINE pilots == PilotCount(Len(Targets), bt.plan.n)
    <3>1. pilots' = pilots
      BY <1>9
    <3>2. CASE bt.policy = bt.plan /\ SliceEnd = pilots
      BY <1>9, <1>11, <3>2 DEF CanaryInv
    <3>3. CASE /\ bt.policy = Full /\ bt.rest = <<>>
               /\ Passed(pilots, {"error", "rejected", "pending"})
      <4>1. /\ pilots <= TurnsTaken
            /\ \A i \in DOMAIN Targets : i <= pilots =>
                 go[Targets[i]] \notin {"error", "rejected", "pending"} /\ Targets[i] \notin fy
        BY <2>1, <3>3
      <4>2. bt'.policy = Full /\ bt'.rest = <<>>
        BY <1>9, <3>3
      <4> HIDE DEF pilots
      <4>3. Passed(pilots, {"error", "rejected", "pending"})'
        BY <1>9, <1>11, <3>1, <4>1 DEF Passed
      <4> QED BY <4>2, <4>3 DEF CanaryInv, pilots
    <3> QED BY <1>10, <2>2, <3>2, <3>3 DEF StageInv, CanaryInv
  <2>3. ASSUME bt.plan.name = "rolling" PROVE RollingInv'
    <3>1. bt.policy = bt.plan
      BY <1>10, <2>3 DEF StageInv, RollingInv
    <3>2. PICK k \in 0..Len(Targets) :
            /\ Passed(k * bt.plan.n, {"error"})
            /\ SliceEnd <= k * bt.plan.n + bt.plan.n
            /\ SliceEnd = k * bt.plan.n + bt.plan.n \/ bt.rest = <<>>
      BY <1>10, <2>3 DEF StageInv, RollingInv
    <3> DEFINE w == k * bt.plan.n
    <3>3. w' = w /\ Passed(w, {"error"})
      BY <1>9, <3>2
    <3> HIDE DEF w
    <3>4. /\ w <= TurnsTaken
          /\ \A i \in DOMAIN Targets : i <= w => go[Targets[i]] \notin {"error"} /\ Targets[i] \notin fy
      BY <2>1, <3>3
    <3>5. Passed(w, {"error"})'
      BY <1>9, <1>11, <3>3, <3>4 DEF Passed
    <3>6. (SliceEnd <= w + bt.plan.n)' /\ (SliceEnd = w + bt.plan.n \/ bt.rest = <<>>)'
      BY <1>9, <1>11, <3>2, <3>3 DEF w
    <3> QED BY <1>9, <3>1, <3>3, <3>5, <3>6 DEF RollingInv, w
  <2>4. bt.plan.name = "full" => bt.policy = bt.plan /\ bt.rest = <<>>
    BY <1>10 DEF StageInv
  <2> QED BY <1>0, <1>9, <2>2, <2>3, <2>4 DEF StageInv
<1>19. StrictInv'
  <2>1. ~(bt.strict /\ bt.op # "delete_guest")
    BY <1>3, <1>10 DEF StrictInv
  <2> QED BY <1>9, <2>1 DEF StrictInv
<1>20. BatchTypeOK' /\ (bt.locked => bt'.acted = {})
  <2>1. bt'.fly \subseteq bt'.seen /\ (bt.locked => bt'.acted = {})
    BY <1>0, <1>4, <1>7, <1>9, <1>10
  <2> QED BY <1>8, <2>1 DEF BatchTypeOK, Batches
<1> QED
  BY <1>0, <1>9, <1>12, <1>14, <1>15, <1>17, <1>18, <1>19, <1>20 DEF BatchInv, Batching, BatchOver

\* A batch that ends with the code of a failure, as it is.
LEMMA ExitsBadly ==
  ASSUME BatchInv, Batching, NEW c \in Failures, BatchExits(c)
  PROVE  BatchInv'
<1>1. /\ bt \in Batches /\ TurnsTaken \in Nat /\ TurnsTaken <= SliceEnd
      /\ bt.fly \subseteq bt.seen /\ (bt.locked => bt.acted = {})
  BY Places DEF BatchInv, BatchTypeOK
<1>2. bt' \in Batches
  BY <1>1 DEF Batches, BatchExits
<1>3. /\ bt'.phase = "done" /\ bt'.code = c /\ bt'.fly = bt.fly /\ bt'.acted = bt.acted
      /\ bt'.op = bt.op /\ bt'.strict = bt.strict /\ bt'.plan = bt.plan /\ bt'.gated = bt.gated
      /\ bt'.got = bt.got /\ bt'.locked = bt.locked /\ bt'.tmpl = bt.tmpl /\ bt'.seen = bt.seen
  BY <1>1 DEF Batches, BatchExits
<1>4. TouchInv /\ StrictInv
  BY DEF BatchInv
<1>5. PolicyHolds'
  <2>1. \A g : IsRejected(g)' <=> IsRejected(g)
    BY <1>3 DEF IsRejected
  <2> QED BY <1>3, <1>4, <2>1 DEF PolicyHolds, TouchInv
<1>6. \A i \in DOMAIN Targets : Targets[i] \in bt'.acted => i <= TurnsTaken
  BY <1>3, ReachedNow DEF Reached
<1>7. bt.strict /\ bt.op # "delete_guest" => \A g \in Guests : bt.got[g] = "error" => g \in bt.gated
  BY <1>4 DEF StrictInv
<1>8. Halts(TurnsTaken)
  BY <1>3, <1>6, <1>7, TargetFacts DEF Halts
<1> QED BY <1>1, <1>2, <1>3, <1>5, <1>8, EndedBadly

\* The scan is over and the turns begin.
LEMMA TurnsBegin ==
  ASSUME BatchInv, bt.phase = "scan", NEW seen \in SUBSET Guests, NEW part \in BOOLEAN,
         bt' = [bt EXCEPT !.phase = "turn", !.seen = seen, !.partial = part,
                  !.fail = FALSE, !.pend = FALSE],
         bt.strict /\ bt.op # "delete_guest" => ~Unseen(seen)
  PROVE  BatchInv'
<1>0. bt \in Batches /\ Batching
  BY DEF BatchInv, BatchTypeOK, Batches, Batching
<1>1. bt' \in Batches
  BY <1>0 DEF Batches
<1>2. /\ bt'.phase = "turn" /\ bt'.op = bt.op /\ bt'.strict = bt.strict /\ bt'.plan = bt.plan
      /\ bt'.policy = bt.policy /\ bt'.locked = bt.locked
      /\ bt'.tmpl = bt.tmpl /\ bt'.gated = bt.gated
      /\ bt'.slice = bt.slice /\ bt'.rest = bt.rest /\ bt'.seen = seen
      /\ bt'.fly = bt.fly /\ bt'.got = bt.got /\ bt'.acted = bt.acted /\ bt'.fail = FALSE
      /\ bt'.pend = FALSE /\ bt'.code = bt.code
  BY <1>0 DEF Batches
<1>3. /\ PlaceInv /\ EntryInv /\ TouchInv /\ FlagInv /\ StageInv /\ StrictInv
      /\ (bt.locked => bt.acted = {}) /\ bt.fly = {}
  BY <1>0 DEF BatchInv, StageInv
<1>4. TurnsTaken' = TurnsTaken /\ SliceEnd' = SliceEnd
  BY <1>2 DEF TurnsTaken, SliceEnd
<1>5. PlaceInv' /\ EntryInv'
  BY <1>2, <1>3, <1>4 DEF PlaceInv, EntryInv
<1>6. TouchInv'
  BY <1>2, <1>3 DEF TouchInv, IsRejected
<1>7. FlagInv'
  <2>1. bt.plan.name # "rolling" => bt.code = 0 /\ ~Some({"error", "rejected", "pending"})
    BY <1>3 DEF FlagInv
  <2>2. bt.plan.name # "rolling" => ~Some({"error", "rejected"})' /\ ~Some({"pending"})'
    BY <1>2, <2>1 DEF Some
  <2>3. bt.plan.name # "rolling" => /\ bt'.fail <=> Some({"error", "rejected"})'
                                    /\ bt'.pend <=> Some({"pending"})'
    BY <1>2, <2>2
  <2> QED BY <1>2, <2>1, <2>3 DEF FlagInv
<1>8. StageInv'
  <2>1. \A m, bad : Passed(m, bad)' <=> m <= TurnsTaken /\ \A i \in DOMAIN Targets : i <= m =>
                                          bt.got[Targets[i]] \notin bad /\ Targets[i] \notin bt.fly
    BY <1>2, <1>4 DEF Passed
  <2>2. bt.plan.name = "canary" => CanaryInv'
    BY <1>2, <1>3, <1>4 DEF StageInv, CanaryInv, Passed
  <2>3. bt.plan.name = "rolling" => RollingInv'
    BY <1>2, <1>3, <1>4 DEF StageInv, RollingInv, Passed
  <2> QED BY <1>2, <1>3, <2>2, <2>3 DEF StageInv
<1>9. StrictInv'
  BY <1>2, <1>3 DEF StrictInv, Unseen
<1>10. BatchTypeOK'
  <2>1. bt'.fly \subseteq bt'.seen
    BY <1>2, <1>3
  <2> QED BY <1>1, <2>1 DEF BatchTypeOK, Batches
<1> QED
  BY <1>2, <1>3, <1>5, <1>6, <1>7, <1>8, <1>9, <1>10 DEF BatchInv, Batching, BatchOver

LEMMA GuestsFinite == IsFiniteSet(Guests)
<1>1. IsFiniteSet(1..Len(Targets))
  BY TargetFacts, FS_Interval
<1> DEFINE f == [i \in 1..Len(Targets) |-> Targets[i]]
<1>2. f \in Surjection(1..Len(Targets), Guests)
  BY TargetFacts DEF Surjection
<1> QED BY <1>1, <1>2, FS_Surjection

LEMMA ScanStep ==
  ASSUME BatchInv, Scan, faults \in 0..MaxFaults, moves \in 0..MaxMoves
  PROVE  BatchInv' /\ faults' \in 0..MaxFaults /\ moves' \in 0..MaxMoves
<1>0. bt.phase = "scan" /\ Batching /\ bt \in Batches
  BY DEF Scan, Batching, BatchInv, BatchTypeOK, Batches
<1>1. CASE \E c \in Failures : ClusterFails(c) /\ BatchExits(c) /\ UNCHANGED moves
  BY <1>0, <1>1, ClusterFailsCounts, ExitsBadly
<1>2. CASE bt.asks /\ Fault(Other) /\ BatchExits(Other) /\ UNCHANGED moves
  BY <1>0, <1>2, FaultCounts, ExitsBadly
<1>3. CASE \E unread \in SUBSET Nodes, missed \in SUBSET Guests :
          LET seen == {g \in Guests : bt.where[g] \in Nodes \ unread} \ missed
          IN  /\ Nodes \ up \subseteq unread
              /\ faults' = faults + Cardinality(unread \cap up)
              /\ moves' = moves + Cardinality(missed)
              /\ faults' <= MaxFaults /\ moves' <= MaxMoves
              /\ LET stops == IF bt.op = "delete_guest" THEN execute_delete(unread, seen)
                                ELSE execute_others(unread, seen)
                 IN IF stops # {} THEN \E c \in stops : BatchExits(c)
                 ELSE bt' = [bt EXCEPT !.phase = "turn", !.seen = seen,
                               !.partial = unread # {}, !.fail = FALSE, !.pend = FALSE]
  <2>1. PICK unread \in SUBSET Nodes, missed \in SUBSET Guests :
          LET seen == {g \in Guests : bt.where[g] \in Nodes \ unread} \ missed
          IN  /\ faults' = faults + Cardinality(unread \cap up)
              /\ moves' = moves + Cardinality(missed)
              /\ faults' <= MaxFaults /\ moves' <= MaxMoves
              /\ LET stops == IF bt.op = "delete_guest" THEN execute_delete(unread, seen)
                                ELSE execute_others(unread, seen)
                 IN IF stops # {} THEN \E c \in stops : BatchExits(c)
                 ELSE bt' = [bt EXCEPT !.phase = "turn", !.seen = seen,
                               !.partial = unread # {}, !.fail = FALSE, !.pend = FALSE]
    BY <1>3
  <2> DEFINE seen == {g \in Guests : bt.where[g] \in Nodes \ unread} \ missed
             stops == IF bt.op = "delete_guest" THEN execute_delete(unread, seen)
                      ELSE execute_others(unread, seen)
  <2>2. Cardinality(unread \cap up) \in Nat /\ Cardinality(missed) \in Nat
    <3>1. IsFiniteSet(unread \cap up)
      <4>1. unread \cap up \subseteq Nodes /\ IsFiniteSet(Nodes)
        BY LookupAssumption
      <4> QED BY <4>1, FS_Subset
    <3>2. IsFiniteSet(missed)
      BY GuestsFinite, FS_Subset
    <3> QED BY <3>1, <3>2, FS_CardinalityType
  <2>3. faults' \in 0..MaxFaults /\ moves' \in 0..MaxMoves
    <3>1. faults' \in Nat /\ moves' \in Nat
      BY <2>1, <2>2, LookupAssumption
    <3> QED BY <2>1, <3>1, LookupAssumption
  <2>4. seen \in SUBSET Guests
    OBVIOUS
  <2>5. stops \subseteq Failures
    BY Codes DEF execute_delete, execute_others
  <2>6. bt.strict /\ bt.op # "delete_guest" /\ stops = {} => ~Unseen(seen)
    BY DEF execute_others
  <2>7. CASE stops # {}
    <3>1. PICK c \in stops : BatchExits(c)
      BY <2>1, <2>7
    <3> HIDE DEF stops
    <3> QED BY <1>0, <2>3, <2>5, <3>1, ExitsBadly
  <2>8. CASE stops = {}
    <3> DEFINE part == unread # {}
    <3>1. bt' = [bt EXCEPT !.phase = "turn", !.seen = seen, !.partial = part,
                   !.fail = FALSE, !.pend = FALSE]
      BY <2>1, <2>8
    <3>2. part \in BOOLEAN /\ (bt.strict /\ bt.op # "delete_guest" => ~Unseen(seen))
      BY <2>6, <2>8
    <3> HIDE DEF seen, stops, part
    <3> QED BY <1>0, <2>3, <2>4, <3>1, <3>2, TurnsBegin
  <2> QED BY <2>7, <2>8
<1> QED BY <1>1, <1>2, <1>3 DEF Scan

(***************************************************************************)
(* The end of a slice.                                                     *)
(***************************************************************************)
AtSliceEnd == bt.phase = "turn" /\ bt.slice = <<>> /\ bt.fly = {}

LEMMA SliceFacts ==
  ASSUME BatchInv, AtSliceEnd
  PROVE  /\ bt \in Batches /\ TurnsTaken = SliceEnd /\ SliceEnd \in Nat
         /\ SliceEnd = Len(Targets) - Len(bt.rest) /\ Len(bt.rest) \in Nat
         /\ \A i \in DOMAIN Targets :
              /\ i <= SliceEnd => bt.got[Targets[i]] \in {"success", "error", "rejected", "pending"}
              /\ i > SliceEnd => bt.got[Targets[i]] = "none" /\ Targets[i] \notin bt.acted
              /\ (\E j \in DOMAIN bt.rest : bt.rest[j] = Targets[i]) <=> i > SliceEnd
<1>0. Batching /\ bt.slice = <<>> /\ bt.fly = {} /\ bt.phase = "turn"
  BY DEF Batching, AtSliceEnd
<1>1. /\ bt \in Batches /\ TurnsTaken \in Nat /\ SliceEnd \in Nat /\ SliceEnd <= Len(Targets)
      /\ SliceEnd = TurnsTaken + Len(bt.slice) /\ Len(bt.rest) \in Nat
      /\ SliceEnd = Len(Targets) - Len(bt.rest) /\ DOMAIN bt.rest = 1..Len(bt.rest)
  BY <1>0, Places
<1>2. Len(bt.slice) = 0
  BY <1>0
<1>3. TurnsTaken = SliceEnd
  BY <1>1, <1>2
<1>4. EntryInv /\ TouchInv /\ PlaceInv
  BY <1>0 DEF BatchInv
<1>5. ASSUME NEW i \in DOMAIN Targets
      PROVE  /\ i <= SliceEnd => bt.got[Targets[i]] \in {"success", "error", "rejected", "pending"}
             /\ i > SliceEnd => bt.got[Targets[i]] = "none" /\ Targets[i] \notin bt.acted
             /\ (\E j \in DOMAIN bt.rest : bt.rest[j] = Targets[i]) <=> i > SliceEnd
  <2>0. i \in 1..Len(Targets) /\ Len(Targets) \in Nat /\ Targets[i] \in Guests
    BY TargetFacts
  <2> DEFINE e == SliceEnd
             n == Len(Targets)
             r == Len(bt.rest)
  <2>6. e \in Nat /\ n \in Nat /\ r \in Nat /\ e = n - r /\ i \in 1..n /\ i \in Nat
    <3>1. e \in Nat /\ r \in Nat /\ e = n - r
      BY <1>1
    <3>2. n \in Nat /\ i \in 1..n /\ i \in Nat
      BY <2>0
    <3> QED BY <3>1, <3>2
  <2>1. i <= SliceEnd => ~(i > TurnsTaken)
    <3> HIDE DEF e, n, r
    <3>1. i <= e => ~(i > e)
      BY <2>6
    <3> QED BY <1>3, <3>1 DEF e
  <2>2. /\ ~(i > TurnsTaken) => bt.got[Targets[i]] \in {"success", "error", "rejected", "pending"}
        /\ i > TurnsTaken => bt.got[Targets[i]] = "none"
    BY <1>0, <1>4 DEF EntryInv
  <2>3. bt.got[Targets[i]] = "none" => Targets[i] \notin bt.acted
    BY <1>4, <2>0 DEF TouchInv
  <2>4. ASSUME i > SliceEnd PROVE \E j \in DOMAIN bt.rest : bt.rest[j] = Targets[i]
    <3>1. i - SliceEnd \in DOMAIN bt.rest /\ SliceEnd + (i - SliceEnd) = i
      <4> HIDE DEF e, n, r
      <4>1. i > e
        BY <2>4 DEF e
      <4>2. i - e \in 1..r /\ e + (i - e) = i
        BY <2>6, <4>1
      <4> QED BY <1>1, <4>2 DEF e, r
    <3>2. bt.rest[i - SliceEnd] = Targets[SliceEnd + (i - SliceEnd)]
      BY <1>4, <3>1 DEF PlaceInv
    <3> QED BY <3>1, <3>2
  <2>5. ASSUME NEW j \in DOMAIN bt.rest, bt.rest[j] = Targets[i] PROVE i > SliceEnd
    <3>1. bt.rest[j] = Targets[SliceEnd + j]
      BY <1>4 DEF PlaceInv
    <3>2. j \in 1..Len(bt.rest)
      BY <1>1
    <3>3. SliceEnd + j \in 1..Len(Targets)
      BY <1>1, <2>0, <3>2
    <3>4. i = SliceEnd + j
      BY <2>5, <3>1, <3>3, TargetFacts
    <3> QED BY <1>1, <3>2, <3>4
  <2> QED BY <1>3, <2>1, <2>2, <2>3, <2>4, <2>5
<1> QED BY <1>1, <1>3, <1>5

\* A batch that ends with its last slice, or skips the others.
LEMMA Concludes ==
  ASSUME BatchInv, AtSliceEnd, bt' \in Batches, bt'.phase = "done",
         bt'.op = bt.op, bt'.strict = bt.strict, bt'.plan = bt.plan, bt'.gated = bt.gated,
         bt'.tmpl = bt.tmpl, bt'.acted = bt.acted, bt'.locked = bt.locked,
         bt'.fly = bt.fly, bt'.seen = bt.seen,
         \A i \in DOMAIN Targets :
           /\ i <= SliceEnd => bt'.got[Targets[i]] = bt.got[Targets[i]]
           /\ i > SliceEnd => bt'.got[Targets[i]] = "skipped",
         bt.plan.name # "rolling" => CodeFits'
  PROVE  BatchInv'
<1>0. /\ bt \in Batches /\ TurnsTaken = SliceEnd /\ SliceEnd \in Nat
      /\ \A i \in DOMAIN Targets :
           /\ i <= SliceEnd => bt.got[Targets[i]] \in {"success", "error", "rejected", "pending"}
           /\ i > SliceEnd => bt.got[Targets[i]] = "none" /\ Targets[i] \notin bt.acted
  BY SliceFacts
<1>1. Batching /\ bt.fly = {}
  BY DEF Batching, AtSliceEnd
<1>2. TouchInv /\ StrictInv /\ (bt.locked => bt.acted = {}) /\ bt.fly \subseteq bt.seen
  BY <1>1 DEF BatchInv, BatchTypeOK
<1>3. PolicyHolds'
  <2>1. \A g : IsRejected(g)' <=> IsRejected(g)
    BY DEF IsRejected
  <2> QED BY <1>2, <2>1 DEF PolicyHolds, TouchInv
<1>4. \A i \in DOMAIN Targets : i <= SliceEnd \/ i > SliceEnd
  BY <1>0, TargetFacts
<1>5. EveryTargetReported'
  <2> SUFFICES ASSUME NEW g \in Guests
               PROVE  /\ bt'.got[g] # "none"
                      /\ bt'.got[g] = "success" => g \in bt.acted
                      /\ g \in bt.acted => bt'.got[g] \in {"success", "error"}
    BY DEF EveryTargetReported
  <2>1. PICK i \in DOMAIN Targets : g = Targets[i]
    BY TargetFacts
  <2>2. CASE i <= SliceEnd
    BY <1>0, <1>2, <2>1, <2>2 DEF TouchInv
  <2>3. CASE i > SliceEnd
    BY <1>0, <2>1, <2>3
  <2> QED BY <1>4, <2>2, <2>3
<1>6. BatchExitIsTrue'
  BY DEF BatchExitIsTrue
<1>7. Halts(SliceEnd)
  <2>1. \A i \in DOMAIN Targets : Targets[i] \in bt.acted => i <= SliceEnd
    BY <1>0, <1>4
  <2>2. bt.strict /\ bt.op # "delete_guest" => \A g \in Guests : bt.got[g] = "error" => g \in bt.gated
    BY <1>2 DEF StrictInv
  <2>3. bt.strict /\ bt.op # "delete_guest" => \A i \in DOMAIN Targets :
          bt'.got[Targets[i]] = "error" => Targets[i] \in bt.gated
    BY <1>4, <2>2, TargetFacts
  <2> QED BY <1>0, <2>1, <2>3 DEF Halts
<1>8. \E q \in 0..Len(Targets) : Reached(q)'
  <2>1. SliceEnd <= SliceEnd
    BY <1>0
  <2> QED BY <1>0, <1>1, <1>7, <2>1, HaltsReached
<1>9. BatchTypeOK'
  <2>1. bt'.fly \subseteq bt'.seen
    BY <1>2
  <2> QED BY <2>1 DEF BatchTypeOK, Batches
<1> QED BY <1>2, <1>3, <1>5, <1>6, <1>8, <1>9 DEF BatchInv, Batching, BatchOver

\* The code of a slice (the LET of SliceEnds).
SliceCode ==
  IF bt.op = "delete_guest" THEN (IF bt.fail THEN Other ELSE 0)
  ELSE batch_exit_code(bt.fail, bt.pend)

LEMMA SliceCodeFacts ==
  ASSUME BatchInv, AtSliceEnd
  PROVE  /\ SliceCode \in {0, 1, 2, 9} /\ bt.code \in {0, 1, 2, 4, 5, 7, 9}
         /\ bt.plan.name # "rolling" =>
              /\ bt.code = 0
              /\ SliceCode = 0 <=> ~Some({"error", "rejected", "pending"})
              /\ SliceCode = 2 => Some({"error", "rejected"})
              /\ SliceCode = 9 => Some({"pending"}) /\ ~Some({"error", "rejected"})
              /\ SliceCode = 1 => Errored
<1>0. bt \in Batches /\ Batching /\ bt.phase = "turn"
  BY SliceFacts DEF Batching, AtSliceEnd
<1>1. bt.fail \in BOOLEAN /\ bt.pend \in BOOLEAN /\ bt.code \in {0, 1, 2, 4, 5, 7, 9}
  BY <1>0, Codes, StatusFacts DEF Batches
<1>2. /\ SliceCode \in {0, 1, 2, 9}
      /\ SliceCode = 1 <=> bt.op = "delete_guest" /\ bt.fail
      /\ SliceCode = 2 <=> bt.op # "delete_guest" /\ bt.fail
      /\ SliceCode = 9 <=> bt.op # "delete_guest" /\ ~bt.fail /\ bt.pend
      /\ SliceCode = 0 <=> IF bt.op = "delete_guest" THEN ~bt.fail ELSE ~bt.fail /\ ~bt.pend
  BY <1>1, Codes, StatusFacts DEF SliceCode, batch_exit_code
<1>3. ASSUME bt.plan.name # "rolling"
      PROVE  /\ bt.code = 0 /\ (bt.fail <=> Some({"error", "rejected"}))
             /\ (bt.pend <=> Some({"pending"}))
  BY <1>0, <1>3 DEF BatchInv, FlagInv
<1>4. bt.op = "delete_guest" => ~Some({"pending"}) /\ ~Some({"rejected"})
  BY <1>0 DEF BatchInv, TouchInv, Some, IsRejected
<1>5. /\ Some({"error", "rejected", "pending"}) <=> Some({"error", "rejected"}) \/ Some({"pending"})
      /\ Some({"error", "rejected"}) <=> Errored \/ Some({"rejected"})
  BY DEF Some, Errored
<1> QED BY <1>1, <1>2, <1>3, <1>4, <1>5

LEMMA MaxCodeFacts ==
  ASSUME NEW a \in {0, 1, 2, 4, 5, 7, 9}, NEW b \in {0, 1, 2, 9}
  PROVE  MaxCode(a, b) \in {0, 1, 2, 4, 5, 7, 9} /\ MaxCode(0, b) = b
BY DEF MaxCode

LEMMA SkipRestStep ==
  ASSUME BatchInv, AtSliceEnd, NEW c \in {0, 1, 2, 4, 5, 7, 9}, SkipRest(c),
         bt.plan.name # "rolling" =>
           /\ c = 2
           /\ Some({"error", "rejected"}) \/ (bt.plan.name = "canary" /\ Some({"pending"}))
  PROVE  BatchInv'
<1>0. /\ bt \in Batches /\ SliceEnd \in Nat
      /\ \A i \in DOMAIN Targets :
           /\ i > SliceEnd => bt.got[Targets[i]] = "none"
           /\ (\E j \in DOMAIN bt.rest : bt.rest[j] = Targets[i]) <=> i > SliceEnd
  BY SliceFacts
<1> DEFINE go == [g \in Guests |-> IF \E i \in DOMAIN bt.rest : bt.rest[i] = g
                                   THEN "skipped" ELSE bt.got[g]]
<1>1. bt' = [bt EXCEPT !.phase = "done", !.code = c, !.rest = <<>>, !.got = go]
  BY DEF SkipRest
<1>2. go \in [Guests -> Statuses]
  BY <1>0, StatusFacts DEF Batches
<1>3. /\ \A i \in DOMAIN Targets :
           /\ i <= SliceEnd => go[Targets[i]] = bt.got[Targets[i]]
           /\ i > SliceEnd => go[Targets[i]] = "skipped"
  <2> SUFFICES ASSUME NEW i \in DOMAIN Targets
               PROVE  /\ i <= SliceEnd => go[Targets[i]] = bt.got[Targets[i]]
                      /\ i > SliceEnd => go[Targets[i]] = "skipped"
    OBVIOUS
  <2>1. Targets[i] \in Guests /\ (i <= SliceEnd => ~(i > SliceEnd))
    BY <1>0, TargetFacts
  <2> QED BY <1>0, <2>1
<1> HIDE DEF go
<1>4. c \in {0, 2, EXIT_HITL_PENDING} \cup Failures /\ <<>> \in Seq(Guests)
  BY Codes, StatusFacts, EmptySeq
<1>5. bt' \in Batches
  BY <1>0, <1>1, <1>2, <1>4 DEF Batches
<1>6. /\ bt'.phase = "done" /\ bt'.code = c /\ bt'.got = go
      /\ bt'.op = bt.op /\ bt'.strict = bt.strict /\ bt'.plan = bt.plan /\ bt'.gated = bt.gated
      /\ bt'.tmpl = bt.tmpl /\ bt'.acted = bt.acted /\ bt'.locked = bt.locked
      /\ bt'.fly = bt.fly /\ bt'.seen = bt.seen
  BY <1>0, <1>1 DEF Batches
<1>7. \A i \in DOMAIN Targets : i <= SliceEnd \/ i > SliceEnd
  BY <1>0, TargetFacts
<1>8. \A g \in Guests : bt.got[g] \in {"error", "rejected", "pending"} => go[g] = bt.got[g]
  <2> SUFFICES ASSUME NEW g \in Guests, bt.got[g] \in {"error", "rejected", "pending"}
               PROVE  go[g] = bt.got[g]
    OBVIOUS
  <2>1. PICK i \in DOMAIN Targets : g = Targets[i]
    BY TargetFacts
  <2>2. i <= SliceEnd
    BY <1>0, <1>7, <2>1
  <2> QED BY <1>3, <2>1, <2>2
<1>9. ASSUME bt.plan.name # "rolling" PROVE CodeFits'
  <2>1. c = 2 /\ (Some({"error", "rejected"}) \/ (bt.plan.name = "canary" /\ Some({"pending"})))
    BY <1>9
  <2>2. /\ Some({"error", "rejected"}) => Some({"error", "rejected"})'
        /\ Some({"pending"}) => Some({"pending"})'
    BY <1>6, <1>8 DEF Some
  <2> QED BY <1>6, <2>1, <2>2, StatusFacts DEF CodeFits
<1> QED BY <1>3, <1>5, <1>6, <1>9, Concludes

LEMMA BatchExitsStep ==
  ASSUME BatchInv, AtSliceEnd, bt.rest = <<>>, BatchExits(MaxCode(bt.code, SliceCode))
  PROVE  BatchInv'
<1> DEFINE c == MaxCode(bt.code, SliceCode)
<1>0. /\ bt \in Batches /\ SliceEnd \in Nat /\ SliceEnd = Len(Targets) - Len(bt.rest)
      /\ \A i \in DOMAIN Targets : i <= SliceEnd =>
            bt.got[Targets[i]] \in {"success", "error", "rejected", "pending"}
  BY SliceFacts
<1>1. Len(bt.rest) = 0 /\ Len(Targets) \in Nat
  BY TargetFacts
<1>2. \A i \in DOMAIN Targets : i <= SliceEnd /\ ~(i > SliceEnd)
  BY <1>0, <1>1, TargetFacts
<1>3. c \in {0, 1, 2, 4, 5, 7, 9}
  BY SliceCodeFacts, MaxCodeFacts
<1>4. c \in {0, 2, EXIT_HITL_PENDING} \cup Failures
  BY <1>3, Codes, StatusFacts
<1>5. bt' = [bt EXCEPT !.phase = "done", !.code = c]
  BY DEF BatchExits
<1> HIDE DEF c
<1>6. bt' \in Batches
  BY <1>0, <1>4, <1>5 DEF Batches
<1>7. /\ bt'.phase = "done" /\ bt'.code = c /\ bt'.got = bt.got
      /\ bt'.op = bt.op /\ bt'.strict = bt.strict /\ bt'.plan = bt.plan /\ bt'.gated = bt.gated
      /\ bt'.tmpl = bt.tmpl /\ bt'.acted = bt.acted /\ bt'.locked = bt.locked
      /\ bt'.fly = bt.fly /\ bt'.seen = bt.seen
  BY <1>0, <1>5 DEF Batches
<1>8. ASSUME bt.plan.name # "rolling" PROVE CodeFits'
  <2>1. /\ c = SliceCode
        /\ SliceCode = 0 <=> ~Some({"error", "rejected", "pending"})
        /\ SliceCode = 2 => Some({"error", "rejected"})
        /\ SliceCode = 9 => Some({"pending"}) /\ ~Some({"error", "rejected"})
    BY <1>8, SliceCodeFacts, MaxCodeFacts DEF c
  <2>2. ~Some({"skipped"})
    BY <1>0, <1>2, TargetFacts DEF Some
  <2>3. SliceCode = 0 => ~Some({"error", "rejected", "pending", "skipped"})
    BY <2>1, <2>2 DEF Some
  <2>4. \A S : Some(S)' <=> Some(S)
    BY <1>7 DEF Some
  <2> QED BY <1>7, <2>1, <2>3, <2>4, StatusFacts DEF CodeFits
<1> QED BY <1>2, <1>6, <1>7, <1>8, Concludes

\* The next slice begins where the turns are.
LEMMA SlicePlace ==
  ASSUME NEW policy \in Policies, NEW e \in Nat, NEW ts \in Seq(Guests), Len(ts) > 0,
         e + Len(ts) = Len(Targets), \A i \in DOMAIN ts : ts[i] = Targets[e + i],
         bt'.slice = Sliced(policy, ts).slice, bt'.rest = Sliced(policy, ts).rest
  PROVE  /\ TurnsTaken' = e /\ SliceEnd' = e + SliceSize(policy, Len(ts)) /\ PlaceInv'
         /\ SliceSize(policy, Len(ts)) \in 1..Len(ts)
         /\ bt'.slice \in Seq(Guests) /\ bt'.rest \in Seq(Guests)
         /\ SliceSize(policy, Len(ts)) = Len(ts) => bt'.rest = <<>>
<1> DEFINE k == SliceSize(policy, Len(ts))
           l == Len(ts)
           s == bt'.slice
           r == bt'.rest
<1>1. /\ k \in 1..l /\ s \in Seq(Guests) /\ r \in Seq(Guests)
      /\ Len(s) = k /\ Len(r) = l - k
      /\ \A i \in 1..k : s[i] = ts[i]
      /\ \A i \in 1..(l - k) : r[i] = ts[k + i]
  <2> DEFINE sl == Sliced(policy, ts).slice
             rs == Sliced(policy, ts).rest
  <2>1. /\ k \in 1..l /\ sl \in Seq(Guests) /\ rs \in Seq(Guests)
        /\ Len(sl) = k /\ Len(rs) = l - k
        /\ \A i \in 1..k : sl[i] = ts[i]
        /\ \A i \in 1..(l - k) : rs[i] = ts[k + i]
    BY SlicedParts, Zenon
  <2>2. s = sl /\ r = rs
    OBVIOUS
  <2> HIDE DEF k, l, s, r, sl, rs
  <2> QED BY <2>1, <2>2
<1>2. l \in Nat /\ DOMAIN ts = 1..l /\ Len(Targets) \in Nat
  BY TargetFacts, LenProperties
<1>3. DOMAIN s = 1..k /\ DOMAIN r = 1..(l - k)
  BY <1>1, LenProperties
<1>4. /\ TurnsTaken' = Len(Targets) - Len(s) - Len(r)
      /\ SliceEnd' = Len(Targets) - Len(r)
  BY DEF TurnsTaken, SliceEnd
<1>5. e + l = Len(Targets) /\ \A i \in 1..l : ts[i] = Targets[e + i]
  BY <1>2
<1>6. l - k = 0 => r = <<>>
  BY <1>1, EmptySeq
<1> HIDE DEF k, l, s, r
<1>7. TurnsTaken' = e /\ SliceEnd' = e + k
  <2>1. TurnsTaken' = Len(Targets) - k - (l - k) /\ SliceEnd' = Len(Targets) - (l - k)
    BY <1>1, <1>4
  <2>2. (e + l) - k - (l - k) = e /\ (e + l) - (l - k) = e + k
    BY <1>1, <1>2
  <2> QED BY <1>5, <2>1, <2>2
<1>8. \A i \in 1..k : s[i] = Targets[e + i]
  BY <1>1, <1>2, <1>5
<1>9. ASSUME NEW i \in 1..(l - k) PROVE r[i] = Targets[(e + k) + i]
  <2>1. k + i \in 1..l /\ e + (k + i) = (e + k) + i
    BY <1>1, <1>2
  <2> QED BY <1>1, <1>5, <2>1
<1>10. PlaceInv'
  <2>1. (\A i \in DOMAIN s : s[i] = Targets[TurnsTaken' + i])
    BY <1>3, <1>7, <1>8
  <2>2. (\A i \in DOMAIN r : r[i] = Targets[SliceEnd' + i])
    BY <1>3, <1>7, <1>9
  <2>3. TurnsTaken' >= 0
    BY <1>7
  <2> QED BY <2>1, <2>2, <2>3 DEF PlaceInv, s, r
<1>11. k = l => r = <<>>
  BY <1>1, <1>2, <1>6
<1> QED BY <1>1, <1>7, <1>10, <1>11 DEF k, l, s, r

LEMMA NextSliceStep ==
  ASSUME BatchInv, AtSliceEnd, bt.rest # <<>>, NEW policy \in Policies,
         NEW c \in {0, 1, 2, 4, 5, 7, 9}, NextSlice(policy, c),
         \/ /\ bt.plan.name = "canary" /\ bt.policy = bt.plan /\ policy = Full /\ c = 0
            /\ ~Some({"error", "rejected", "pending"})
         \/ bt.plan.name = "rolling" /\ policy = bt.policy /\ ~Errored
  PROVE  BatchInv'
<1>0. /\ bt \in Batches /\ TurnsTaken = SliceEnd /\ SliceEnd \in Nat
      /\ SliceEnd = Len(Targets) - Len(bt.rest) /\ Len(bt.rest) \in Nat
      /\ Batching /\ bt.fly = {}
  BY SliceFacts DEF Batching, AtSliceEnd
<1>1. /\ PlaceInv /\ EntryInv /\ TouchInv /\ StageInv /\ StrictInv /\ (bt.locked => bt.acted = {})
      /\ bt.fly \subseteq bt.seen
  BY <1>0 DEF BatchInv, BatchTypeOK
<1> DEFINE sl == Sliced(policy, bt.rest).slice
           rs == Sliced(policy, bt.rest).rest
           e == SliceEnd
           z == SliceSize(policy, Len(bt.rest))
<1>2. bt' = [bt EXCEPT !.phase = "scan", !.policy = policy, !.code = c, !.slice = sl, !.rest = rs]
  BY DEF NextSlice
<1>3. bt.rest \in Seq(Guests) /\ Len(bt.rest) # 0 /\ Len(Targets) \in Nat
  BY <1>0, EmptySeq, TargetFacts DEF Batches
<1>4. Len(bt.rest) > 0 /\ e + Len(bt.rest) = Len(Targets)
  <2> DEFINE n == Len(Targets)
             r == Len(bt.rest)
  <2>1. n \in Nat /\ r \in Nat /\ r # 0 /\ e \in Nat /\ e = n - r
    <3>1. n \in Nat /\ r # 0
      BY <1>3
    <3>2. r \in Nat /\ e \in Nat /\ e = n - r
      BY <1>0
    <3> QED BY <3>1, <3>2
  <2> HIDE DEF n, r, e
  <2>2. r > 0 /\ e + r = n
    BY <2>1
  <2> QED BY <2>2 DEF n, r
<1> HIDE DEF sl, rs
<1>5. /\ bt'.phase = "scan" /\ bt'.op = bt.op /\ bt'.strict = bt.strict /\ bt'.plan = bt.plan
      /\ bt'.policy = policy /\ bt'.locked = bt.locked
      /\ bt'.tmpl = bt.tmpl /\ bt'.gated = bt.gated
      /\ bt'.slice = sl /\ bt'.rest = rs /\ bt'.seen = bt.seen
      /\ bt'.fly = bt.fly /\ bt'.got = bt.got /\ bt'.acted = bt.acted /\ bt'.code = c
  BY <1>0, <1>2 DEF Batches
<1>6. /\ TurnsTaken' = e /\ SliceEnd' = e + z /\ PlaceInv'
      /\ z \in 1..Len(bt.rest) /\ sl \in Seq(Guests) /\ rs \in Seq(Guests)
      /\ z = Len(bt.rest) => rs = <<>>
  <2>1. \A i \in DOMAIN bt.rest : bt.rest[i] = Targets[e + i]
    BY <1>1 DEF PlaceInv
  <2>2. bt'.slice = Sliced(policy, bt.rest).slice /\ bt'.rest = Sliced(policy, bt.rest).rest
    BY <1>5 DEF sl, rs
  <2>3. e \in Nat
    BY <1>0
  <2> HIDE DEF e
  <2>4. /\ TurnsTaken' = e /\ SliceEnd' = e + z /\ PlaceInv'
        /\ z \in 1..Len(bt.rest) /\ bt'.slice \in Seq(Guests) /\ bt'.rest \in Seq(Guests)
        /\ z = Len(bt.rest) => bt'.rest = <<>>
    BY <1>3, <1>4, <2>1, <2>2, <2>3, SlicePlace
  <2> QED BY <1>5, <2>4
<1>7. bt' \in Batches
  <2>1. c \in {0, 2, EXIT_HITL_PENDING} \cup Failures
    BY Codes, StatusFacts
  <2>2. sl \in Seq(Guests) /\ rs \in Seq(Guests)
    BY <1>6
  <2> QED BY <1>0, <1>2, <2>1, <2>2 DEF Batches
<1>8. EntryInv' /\ TouchInv'
  <2>1. TurnsTaken' = TurnsTaken
    BY <1>0, <1>6
  <2> QED BY <1>1, <1>5, <2>1 DEF EntryInv, TouchInv, IsRejected
<1>9. FlagInv'
  <2>1. bt.plan.name # "rolling" => c = 0 /\ ~Some({"error", "rejected", "pending"})
    OBVIOUS
  <2> QED BY <1>5, <2>1 DEF FlagInv, Some
<1>10. StrictInv'
  BY <1>1, <1>5 DEF StrictInv
<1>11. StageInv'
  <2>1. CASE /\ bt.plan.name = "canary" /\ bt.policy = bt.plan /\ policy = Full
             /\ ~Some({"error", "rejected", "pending"})
    <3> DEFINE pilots == PilotCount(Len(Targets), bt.plan.n)
    <3>0. bt.plan # Full
      BY <2>1, FullFacts
    <3>1. SliceEnd = pilots /\ pilots' = pilots
      BY <1>1, <1>5, <2>1, <3>0 DEF StageInv, CanaryInv
    <3>2. z = Len(bt.rest)
      BY <2>1, FullFacts DEF SliceSize
    <3>3. \A i \in DOMAIN Targets : bt.got[Targets[i]] \notin {"error", "rejected", "pending"}
      BY <2>1, TargetFacts DEF Some
    <3>4. bt'.policy = Full /\ bt'.rest = <<>>
      BY <1>5, <1>6, <2>1, <3>2
    <3>5. pilots <= TurnsTaken'
      BY <1>0, <1>6, <3>1
    <3> HIDE DEF pilots
    <3>6. Passed(pilots, {"error", "rejected", "pending"})'
      BY <1>0, <1>5, <3>1, <3>3, <3>5 DEF Passed
    <3>7. CanaryInv'
      BY <3>4, <3>6 DEF CanaryInv, pilots
    <3> QED BY <1>0, <1>5, <2>1, <3>7 DEF StageInv
  <2>2. CASE bt.plan.name = "rolling" /\ policy = bt.policy /\ ~Errored
    <3> DEFINE n == bt.plan.n
    <3>1. n \in Nat \ {0}
      BY <1>0, <2>2, PolicyFacts DEF Batches
    <3>2. bt.policy = bt.plan
      BY <1>1, <2>2 DEF StageInv, RollingInv
    <3>3. PICK k \in 0..Len(Targets) : e = k * n + n
      BY <1>1, <2>2 DEF StageInv, RollingInv
    <3>4. k \in Nat /\ Len(Targets) \in Nat /\ e \in Nat /\ e <= Len(Targets)
      <4>1. k \in Nat /\ Len(Targets) \in Nat
        BY TargetFacts
      <4>2. e \in Nat /\ e <= Len(Targets)
        BY <1>0, Places
      <4> QED BY <4>1, <4>2
    <3>5. z <= n /\ (z = n \/ z = Len(bt.rest))
      <4>0. policy.name = "rolling" /\ policy.n = n
        BY <2>2, <3>2
      <4>1. z = IF n < Len(bt.rest) THEN n ELSE Len(bt.rest)
        BY <4>0 DEF SliceSize
      <4>2. Len(bt.rest) \in Nat
        BY <1>0
      <4> HIDE DEF z, n
      <4> QED BY <3>1, <4>1, <4>2
    <3>6. z \in Nat
      BY <1>0, <1>6
    <3>7. \A i \in DOMAIN Targets : bt.got[Targets[i]] # "error"
      BY <2>2, TargetFacts DEF Errored
    <3>8. bt'.rest = rs /\ (z = Len(bt.rest) => rs = <<>>) /\ bt'.plan.n = n /\ TurnsTaken' = e
          /\ SliceEnd' = e + z
      BY <1>5, <1>6
    <3> DEFINE w == (k + 1) * n
    <3> HIDE DEF e, z, n
    <3>9. w = e /\ k + 1 <= e
      <4>1. w = k * n + n
        BY <3>1, <3>4 DEF w
      <4>2. k * n >= k
        BY <3>1, <3>4
      <4>3. k * n \in Nat
        BY <3>1, <3>4
      <4> QED BY <3>1, <3>3, <3>4, <4>1, <4>2, <4>3
    <3>10. k + 1 \in 0..Len(Targets)
      BY <3>4, <3>9
    <3>11. w <= TurnsTaken' /\ SliceEnd' <= w + n /\ (SliceEnd' = w + n \/ bt'.rest = <<>>)
      <4> HIDE DEF w
      <4> QED BY <3>1, <3>4, <3>5, <3>6, <3>8, <3>9
    <3>12. /\ w <= TurnsTaken'
           /\ \A i \in DOMAIN Targets : i <= w =>
                bt'.got[Targets[i]] \notin {"error"} /\ Targets[i] \notin bt'.fly
      BY <1>0, <1>5, <3>7, <3>11
    <3>13. bt'.policy = bt'.plan
      BY <1>5, <2>2, <3>2
    <3>14. RollingInv'
      <4>1. w = (k + 1) * bt'.plan.n /\ bt'.plan.n = n
        BY <3>8 DEF w
      <4> HIDE DEF w
      <4>2. /\ TurnsTaken' >= (k + 1) * bt'.plan.n
            /\ (k + 1) * bt'.plan.n <= TurnsTaken'
            /\ SliceEnd' <= (k + 1) * bt'.plan.n + bt'.plan.n
            /\ SliceEnd' = (k + 1) * bt'.plan.n + bt'.plan.n \/ bt'.rest = <<>>
            /\ \A i \in DOMAIN Targets : i <= (k + 1) * bt'.plan.n =>
                bt'.got[Targets[i]] \notin {"error"} /\ Targets[i] \notin bt'.fly
        BY <3>11, <3>12, <4>1
      <4> QED BY <3>10, <3>13, <4>2 DEF RollingInv, Passed
    <3> QED BY <1>0, <1>5, <2>2, <3>14 DEF StageInv
  <2> QED BY <2>1, <2>2
<1>12. BatchTypeOK'
  <2>1. bt'.fly \subseteq bt'.seen
    BY <1>1, <1>5
  <2> QED BY <1>7, <2>1 DEF BatchTypeOK, Batches
<1> QED
  BY <1>1, <1>5, <1>6, <1>8, <1>9, <1>10, <1>11, <1>12 DEF BatchInv, Batching, BatchOver

LEMMA SliceEndsStep ==
  ASSUME BatchInv, SliceEnds
  PROVE  BatchInv'
<1>0. AtSliceEnd /\ Batching
  BY DEF SliceEnds, AtSliceEnd, Batching
<1>1. bt \in Batches /\ StageInv
  BY <1>0, SliceFacts DEF BatchInv
<1>2. /\ SliceCode \in {0, 1, 2, 9} /\ bt.code \in {0, 1, 2, 4, 5, 7, 9}
      /\ bt.plan.name # "rolling" =>
           /\ SliceCode = 0 <=> ~Some({"error", "rejected", "pending"})
           /\ SliceCode = 2 => Some({"error", "rejected"})
           /\ SliceCode = 9 => Some({"pending"})
           /\ SliceCode = 1 => Errored
  BY <1>0, SliceCodeFacts
<1>3. MaxCode(bt.code, SliceCode) \in {0, 1, 2, 4, 5, 7, 9}
  BY <1>2, MaxCodeFacts
<1>4. /\ bt.policy.name = "canary" => bt.plan.name = "canary" /\ bt.policy = bt.plan
      /\ bt.policy.name = "rolling" => bt.plan.name = "rolling"
      /\ bt.policy.name = "full" => bt.rest = <<>>
      /\ bt.policy.name \in {"full", "canary", "rolling"}
      /\ bt.policy \in Policies
  <2>1. bt.plan \in Policies /\ bt.policy \in Policies
    BY <1>1 DEF Batches
  <2>2. /\ bt.plan.name \in {"full", "canary", "rolling"}
        /\ bt.policy.name \in {"full", "canary", "rolling"} /\ Full.name = "full"
    BY <2>1, PolicyFacts, FullFacts
  <2>3. \/ bt.policy = bt.plan /\ (bt.plan.name = "full" => bt.rest = <<>>)
        \/ bt.policy = Full /\ bt.rest = <<>>
    BY <1>1, <2>2 DEF StageInv, CanaryInv, RollingInv
  <2> QED BY <2>1, <2>2, <2>3
<1>5. CASE bt.policy.name = "canary" /\ (Errored \/ SliceCode >= 2) /\ SkipRest(2)
  <2>1. Some({"error", "rejected"}) \/ Some({"pending"})
    <3>1. Errored => Some({"error", "rejected"})
      BY DEF Errored, Some
    <3>2. SliceCode >= 2 => SliceCode \in {2, 9}
      BY <1>2
    <3> QED BY <1>2, <1>4, <1>5, <3>1, <3>2
  <2>2. SkipRest(2) /\ bt.plan.name = "canary" /\ 2 \in {0, 1, 2, 4, 5, 7, 9}
    BY <1>4, <1>5, Zenon
  <2>3. bt.plan.name # "rolling" =>
          2 = 2 /\ (Some({"error", "rejected"}) \/ (bt.plan.name = "canary" /\ Some({"pending"})))
    BY <2>1, <2>2
  <2> QED BY <1>0, <2>2, <2>3, SkipRestStep
<1>6. CASE /\ bt.policy.name = "canary" /\ ~(Errored \/ SliceCode >= 2) /\ bt.rest # <<>>
           /\ NextSlice(Full, SliceCode)
  <2>1. SliceCode = 0
    BY <1>2, <1>4, <1>6
  <2>2. ~Some({"error", "rejected", "pending"})
    BY <1>2, <1>4, <1>6, <2>1
  <2>3. NextSlice(Full, 0)
    BY <1>6, <2>1
  <2> QED BY <1>0, <1>4, <1>6, <2>2, <2>3, FullFacts, NextSliceStep
<1>7. CASE bt.policy.name = "rolling" /\ Errored /\ SkipRest(MaxCode(bt.code, SliceCode))
  BY <1>0, <1>3, <1>4, <1>7, SkipRestStep
<1>8. CASE /\ bt.policy.name = "rolling" /\ ~Errored /\ bt.rest # <<>>
           /\ NextSlice(bt.policy, MaxCode(bt.code, SliceCode))
  BY <1>0, <1>3, <1>4, <1>8, NextSliceStep
<1>9. CASE bt.rest = <<>> /\ BatchExits(MaxCode(bt.code, SliceCode))
  BY <1>0, <1>9, BatchExitsStep
<1>10. CASE bt.policy.name = "canary"
  BY <1>5, <1>6, <1>9, <1>10 DEF SliceEnds, SliceCode
<1>11. CASE bt.policy.name = "rolling"
  BY <1>7, <1>8, <1>9, <1>11 DEF SliceEnds, SliceCode
<1>12. CASE bt.policy.name = "full"
  BY <1>4, <1>9, <1>12 DEF SliceEnds, SliceCode
<1> QED BY <1>4, <1>10, <1>11, <1>12

\* A batch begins with everything still to do.
LEMMA BatchStartsStep ==
  ASSUME NEW op \in BatchOps, NEW strict \in BOOLEAN, NEW policy \in Policies,
         NEW locked \in BOOLEAN, BatchStarts(op, strict, policy, locked)
  PROVE  /\ BatchInv' /\ bt'.phase = "scan" /\ bt'.op = op /\ bt'.locked = locked
         /\ bt'.acted = {}
<1>1. PICK f \in Fleets, asks \in BOOLEAN :
        bt' = [NoBatch EXCEPT
                 !.phase = "scan", !.op = op, !.strict = strict,
                 !.plan = policy, !.policy = policy,
                 !.where = f.where, !.tmpl = f.tmpl, !.asks = asks, !.locked = locked,
                 !.gated = IF op = "delete_guest" THEN {} ELSE f.gated,
                 !.slice = Sliced(policy, Targets).slice,
                 !.rest = Sliced(policy, Targets).rest]
  BY DEF BatchStarts
<1> DEFINE sl == Sliced(policy, Targets).slice
           rs == Sliced(policy, Targets).rest
           ga == IF op = "delete_guest" THEN {} ELSE f.gated
           go == [g \in Guests |-> "none"]
           wh == f.where
           tm == f.tmpl
           z == SliceSize(policy, Len(Targets))
<1>2. /\ f \in [where : [Guests -> Nodes \cup {Absent}], tmpl : SUBSET Guests,
                gated : SUBSET Guests]
  BY BatchAssumption
<1>3. /\ ga \in SUBSET Guests /\ (op = "delete_guest" => ga = {}) /\ go \in [Guests -> Statuses]
      /\ wh \in [Guests -> Nodes \cup {Absent}] /\ tm \in SUBSET Guests
      /\ \A g \in Guests : go[g] = "none"
  BY <1>2, StatusFacts
<1>4. bt' = [phase |-> "scan", op |-> op, strict |-> strict, plan |-> policy, policy |-> policy,
             asks |-> asks, locked |-> locked, where |-> wh, tmpl |-> tm, gated |-> ga,
             slice |-> sl, rest |-> rs, seen |-> {}, partial |-> FALSE, fly |-> {},
             got |-> go, acted |-> {}, fail |-> FALSE, pend |-> FALSE, code |-> 0]
  BY <1>1 DEF NoBatch
<1> HIDE DEF sl, rs, ga, go, wh, tm, z
<1>5. /\ bt'.phase = "scan" /\ bt'.op = op /\ bt'.strict = strict /\ bt'.plan = policy
      /\ bt'.policy = policy /\ bt'.locked = locked /\ bt'.tmpl = tm /\ bt'.gated = ga
      /\ bt'.slice = sl /\ bt'.rest = rs /\ bt'.seen = {} /\ bt'.fly = {} /\ bt'.got = go
      /\ bt'.acted = {} /\ bt'.code = 0
  BY <1>4
<1>6. /\ TurnsTaken' = 0 /\ SliceEnd' = z /\ PlaceInv' /\ z \in 1..Len(Targets)
      /\ sl \in Seq(Guests) /\ rs \in Seq(Guests) /\ (z = Len(Targets) => rs = <<>>)
  <2>1. bt'.slice = Sliced(policy, Targets).slice /\ bt'.rest = Sliced(policy, Targets).rest
    BY <1>5 DEF sl, rs
  <2>2. /\ Targets \in Seq(Guests) /\ Len(Targets) > 0 /\ 0 \in Nat
        /\ 0 + Len(Targets) = Len(Targets) /\ \A i \in DOMAIN Targets : Targets[i] = Targets[0 + i]
    BY TargetFacts
  <2>3. /\ TurnsTaken' = 0 /\ SliceEnd' = 0 + z /\ PlaceInv' /\ z \in 1..Len(Targets)
        /\ bt'.slice \in Seq(Guests) /\ bt'.rest \in Seq(Guests)
        /\ z = Len(Targets) => bt'.rest = <<>>
    BY <2>1, <2>2, SlicePlace DEF z
  <2>4. 0 + z = z
    <3>1. Len(Targets) \in Nat
      BY TargetFacts
    <3>2. z \in 1..Len(Targets)
      BY <2>3
    <3>3. z \in Nat
      BY <3>1, <3>2
    <3> QED BY <3>3
  <2> QED BY <1>5, <2>3, <2>4
<1>7. bt' \in Batches
  <2>1. sl \in Seq(Guests) /\ rs \in Seq(Guests)
    BY <1>6
  <2>2. /\ {} \in SUBSET Guests /\ 0 \in {0, 2, EXIT_HITL_PENDING} \cup Failures
        /\ ga \in SUBSET Guests /\ go \in [Guests -> Statuses]
        /\ wh \in [Guests -> Nodes \cup {Absent}] /\ tm \in SUBSET Guests
    BY <1>3
  <2> QED BY <1>4, <2>1, <2>2 DEF Batches
<1>8. \A i \in DOMAIN Targets : i > 0 /\ ~(i <= 0) /\ go[Targets[i]] = "none"
  BY <1>3, TargetFacts
<1>9. EntryInv'
  BY <1>5, <1>6, <1>8 DEF EntryInv
<1>10. TouchInv' /\ FlagInv' /\ StrictInv'
  <2>1. TouchInv'
    BY <1>3, <1>5 DEF TouchInv
  <2>2. ~Some({"error", "rejected", "pending"})'
    BY <1>3, <1>5 DEF Some
  <2>3. FlagInv'
    BY <1>5, <2>2 DEF FlagInv
  <2>4. StrictInv'
    BY <1>3, <1>5 DEF StrictInv
  <2> QED BY <2>1, <2>3, <2>4
<1>11. StageInv'
  <2>1. policy.name = "full" => rs = <<>>
    BY <1>6 DEF SliceSize, z
  <2>2. policy.name = "canary" => CanaryInv'
    BY <1>5, <1>6 DEF SliceSize, z, CanaryInv
  <2>3. ASSUME policy.name = "rolling" PROVE RollingInv'
    <3>1. policy.n \in Nat \ {0} /\ Len(Targets) \in Nat
      BY <2>3, PolicyFacts, TargetFacts
    <3>2. z = IF policy.n < Len(Targets) THEN policy.n ELSE Len(Targets)
      BY <2>3 DEF z, SliceSize
    <3>3. 0 * policy.n = 0 /\ 0 * policy.n + policy.n = policy.n
      BY <3>1
    <3>4. z <= policy.n /\ (z = policy.n \/ rs = <<>>)
      BY <1>6, <3>1, <3>2
    <3>5. /\ 0 <= TurnsTaken'
          /\ \A i \in DOMAIN Targets : i <= 0 =>
               bt'.got[Targets[i]] \notin {"error"} /\ Targets[i] \notin bt'.fly
      BY <1>6, <1>8
    <3>6. 0 \in 0..Len(Targets)
      BY <3>1
    <3>7. /\ Passed(0 * bt.plan.n, {"error"})'
          /\ (SliceEnd <= 0 * bt.plan.n + bt.plan.n)'
          /\ (SliceEnd = 0 * bt.plan.n + bt.plan.n)' \/ bt'.rest = <<>>
      BY <1>5, <1>6, <3>3, <3>4, <3>5 DEF Passed
    <3> QED BY <1>5, <3>6, <3>7 DEF RollingInv
  <2> QED BY <1>5, <2>1, <2>2, <2>3 DEF StageInv
<1>12. BatchTypeOK'
  <2>1. bt'.fly \subseteq bt'.seen
    BY <1>5
  <2> QED BY <1>7, <2>1 DEF BatchTypeOK, Batches
<1>13. BatchInv'
  BY <1>5, <1>6, <1>9, <1>10, <1>11, <1>12 DEF BatchInv, Batching, BatchOver
<1> QED BY <1>5, <1>13

LEMMA NoBatchType == NoBatch \in Batches
<1> DEFINE go == [g \in Guests |-> "none"]
           wh == [g \in Guests |-> Absent]
           es == <<>>
           op == "none"
           no == {}
           codes == {0, 2, EXIT_HITL_PENDING} \cup Failures
<1>1. NoBatch =
           [phase |-> "idle", op |-> op, strict |-> FALSE, plan |-> Full, policy |-> Full,
            asks |-> FALSE, locked |-> FALSE, where |-> wh, tmpl |-> no, gated |-> no,
            slice |-> es, rest |-> es, seen |-> no, partial |-> FALSE, fly |-> no,
            got |-> go, acted |-> no, fail |-> FALSE, pend |-> FALSE, code |-> 0]
  BY DEF NoBatch
<1>2. /\ go \in [Guests -> Statuses] /\ wh \in [Guests -> Nodes \cup {Absent}]
      /\ no \in SUBSET Guests /\ 0 \in codes
  BY StatusFacts
<1>3. es \in Seq(Guests) /\ Full \in Policies
  BY FullFacts, EmptySeq
<1>4. Batches = [phase : {"idle", "scan", "turn", "done"}, op : BatchOps \cup {"none"}, strict : BOOLEAN,
                 plan : Policies, policy : Policies, asks : BOOLEAN, locked : BOOLEAN,
                 where : [Guests -> Nodes \cup {Absent}], tmpl : SUBSET Guests,
                 gated : SUBSET Guests, slice : Seq(Guests), rest : Seq(Guests),
                 seen : SUBSET Guests, partial : BOOLEAN, fly : SUBSET Guests,
                 got : [Guests -> Statuses], acted : SUBSET Guests, fail : BOOLEAN,
                 pend : BOOLEAN, code : codes]
  BY DEF Batches
<1>5. op \in BatchOps \cup {"none"}
  OBVIOUS
<1> HIDE DEF go, wh, es, no, codes, op
<1> QED BY <1>1, <1>2, <1>3, <1>4, <1>5

LEMMA NoBatchInv ==
  ASSUME bt = NoBatch
  PROVE  BatchInv
<1>1. bt \in Batches
  BY NoBatchType
<1>2. bt.phase = "idle" /\ bt.fly = {} /\ bt.acted = {} /\ bt.seen = {}
  BY DEF NoBatch
<1>3. BatchTypeOK
  BY <1>1, <1>2 DEF BatchTypeOK, Batches
<1> QED BY <1>2, <1>3 DEF BatchInv, Batching, BatchOver

LEMMA BatchSteps ==
  ASSUME BatchInv, BatchNext, faults \in 0..MaxFaults, moves \in 0..MaxMoves
  PROVE  /\ BatchInv' /\ faults' \in 0..MaxFaults /\ moves' \in 0..MaxMoves
         /\ UNCHANGED <<host, up, kind, look>>
<1>1. CASE Scan
  BY <1>1, ScanStep DEF Scan
<1>2. CASE TakeTurn
  <2>1. faults' \in 0..MaxFaults
    <3>1. UNCHANGED faults \/ Fault(Other)
      BY <1>2 DEF TakeTurn, AskHuman, PerformNow, Performs, Spawn
    <3> QED BY <3>1, FaultCounts
  <2> QED BY <1>2, <2>1, TakeTurnStep DEF TakeTurn, worldvars
<1>3. CASE Perform
  <2>1. faults' \in 0..MaxFaults
    <3>1. UNCHANGED faults \/ Fault(Other)
      BY <1>3 DEF Perform, Performs
    <3> QED BY <3>1, FaultCounts
  <2> QED BY <1>3, <2>1, PerformStep DEF Perform, worldvars
<1>4. CASE SliceEnds
  BY <1>4, SliceEndsStep DEF SliceEnds, worldvars
<1> QED BY <1>1, <1>2, <1>3, <1>4 DEF BatchNext

(***************************************************************************)
(* The command itself.                                                     *)
(***************************************************************************)
Runs ==
  [cmd : DOMAIN Programs, flags : SUBSET UNION {Flags[c] : c \in DOMAIN Flags},
   policy : Policies, secure : BOOLEAN, locked : BOOLEAN]

Sendable == {o \in DOMAIN Verb : Mutates(o)}

Outs ==
  [sent : SUBSET Sendable, marked : BOOLEAN, waited : BOOLEAN, refused : BOOLEAN,
   exit : Running..EXIT_HITL_PENDING]

\* The part of the invariant that the parts of a command do not keep themselves.
CmdInv ==
  /\ run \in Runs /\ run.flags \subseteq Flags[run.cmd] /\ todo \in Seq(Steps)
  /\ task \in {"none", "running", "ok", "failed"} /\ out \in Outs
  /\ ProgramInv /\ PartsInv /\ RefusedMeansUntouched /\ SecureSparesCluster
  /\ out.waited /\ out.exit \in {Running, 0} => task = "ok"
  /\ out.exit = 0 => ~out.marked
  /\ out.refused => ~Going

LEMMA CliParts == CliInv <=> LookupInv /\ BatchInv /\ PatchInv /\ CmdInv
<1>1. LookupInv => LookupTypeOK
  BY DEF LookupInv
<1>2. BatchInv => BatchTypeOK
  BY DEF BatchInv
<1>3. PatchInv => PatchTypeOK
  BY DEF PatchInv
<1> QED BY <1>1, <1>2, <1>3 DEF CliInv, CmdInv, TypeOK, Runs, Outs, Sendable

\* The steps of a command, from the tables.
LEMMA ProgramFacts ==
  ASSUME NEW c \in DOMAIN Programs, NEW p \in Programs[c]
  PROVE  /\ p \in Seq(Steps) /\ Len(p) \in Nat /\ DOMAIN p = 1..Len(p)
         /\ \A i \in DOMAIN p :
              /\ p[i] \in Steps
              /\ p[i].do = "batch" => p[i].op \in BatchOps /\ p[i].op \in Sendable
              /\ p[i].do = "call" => p[i].op \in DOMAIN Verb
              /\ p[i].do = "follow" => \A j \in DOMAIN p : j > i => p[j].do = "await"
              /\ Writes(p[i]) => p[i].op \in Sendable
         /\ Does(p, {"mark"}) =>
              /\ p[Len(p)].do = "judge"
              /\ \A i \in DOMAIN p : p[i].do \notin {"follow", "batch", "rollout"}
<1>1. /\ p \in Seq(Steps)
      /\ \A i \in DOMAIN p :
           /\ p[i].do = "batch" => p[i].op \in BatchOps \cap DOMAIN Verb /\ Mutates(p[i].op)
           /\ p[i].do = "follow" => \A j \in DOMAIN p : j > i => p[j].do = "await"
  BY ProgramsAreSteps
<1>2. \A i \in DOMAIN p : p[i].do = "call" => p[i].op \in DOMAIN Verb
  BY GrammarAgrees
<1>3. Len(p) \in Nat /\ DOMAIN p = 1..Len(p)
  BY <1>1, LenProperties
<1>4. \A i \in DOMAIN p : p[i] \in Steps
  BY <1>1, <1>3, ElementOfSeq
<1>5. \A i \in DOMAIN p : Writes(p[i]) => p[i].op \in Sendable
  BY <1>1, <1>2 DEF Writes, Sendable
<1>6. Does(p, {"mark"}) =>
        /\ p[Len(p)].do = "judge"
        /\ \A i \in DOMAIN p : p[i].do \notin {"follow", "batch", "rollout"}
  BY MarksAreJudged DEF Does
<1>7. \A i \in DOMAIN p : p[i].do = "batch" => p[i].op \in BatchOps /\ p[i].op \in Sendable
  BY <1>1 DEF Sendable
<1> QED BY <1>1, <1>2, <1>3, <1>4, <1>5, <1>6, <1>7

LEMMA CallsSent == "create_qemu" \in Sendable /\ AgentExec \subseteq Sendable
BY ProgramsAreSteps DEF Sendable

\* Where the command is in its program.
LEMMA AtFacts ==
  ASSUME CmdInv, todo # <<>>
  PROVE  \E p \in Programs[run.cmd] : \E k \in 0..Len(p) :
           /\ At(p, k) /\ k + 1 \in DOMAIN p /\ k \in Nat /\ todo[1] = p[k + 1]
           /\ run.cmd \in DOMAIN Programs /\ Len(todo) \in Nat /\ Len(todo) > 0
<1>1. run.cmd \in DOMAIN Programs /\ todo \in Seq(Steps)
  BY DEF CmdInv, Runs
<1>2. PICK p \in Programs[run.cmd] : \E k \in 0..Len(p) : At(p, k)
  BY DEF CmdInv, ProgramInv
<1>3. PICK k \in 0..Len(p) : At(p, k)
  BY <1>2
<1>4. Len(p) \in Nat /\ DOMAIN p = 1..Len(p)
  BY <1>1, ProgramFacts
<1>5. Len(todo) \in Nat /\ Len(todo) # 0 /\ DOMAIN todo = 1..Len(todo)
  BY <1>1, EmptySeq, LenProperties
<1>6. Len(todo) = Len(p) - k /\ \A i \in DOMAIN todo : todo[i] = p[k + i]
  BY <1>3 DEF At
<1> DEFINE n == Len(p)
           l == Len(todo)
<1>7. n \in Nat /\ l \in Nat /\ l # 0 /\ l = n - k /\ k \in 0..n
  BY <1>4, <1>5, <1>6
<1>8. DOMAIN p = 1..n /\ DOMAIN todo = 1..l
  BY <1>4, <1>5
<1> HIDE DEF n, l
<1>9. k + 1 \in 1..n /\ k \in Nat /\ 1 \in 1..l /\ l > 0
  BY <1>7
<1>10. todo[1] = p[k + 1]
  BY <1>6, <1>8, <1>9
<1> QED BY <1>1, <1>3, <1>7, <1>8, <1>9, <1>10 DEF l

\* A step that may refuse comes before every step that writes.
LEMMA NothingSent ==
  ASSUME CmdInv, Going, todo # <<>>, MayRefuse(todo[1]), run.cmd # "clone"
  PROVE  out.sent = {}
<1>1. PICK p \in Programs[run.cmd] : \E k \in 0..Len(p) :
        /\ At(p, k) /\ k + 1 \in DOMAIN p /\ k \in Nat /\ todo[1] = p[k + 1]
        /\ run.cmd \in DOMAIN Programs
  BY AtFacts
<1>2. PICK k \in 0..Len(p) :
        /\ At(p, k) /\ k + 1 \in DOMAIN p /\ k \in Nat /\ todo[1] = p[k + 1]
        /\ run.cmd \in DOMAIN Programs
  BY <1>1
<1>3. out.sent \subseteq SentBy(p, k)
  BY <1>2 DEF At
<1>4. DOMAIN p = 1..Len(p) /\ Len(p) \in Nat
  BY <1>2, ProgramFacts
<1>5. \A i \in 1..k : i \in DOMAIN p /\ i < k + 1
  BY <1>2, <1>4
<1>6. \A i \in 1..k : ~Writes(p[i])
  BY <1>2, <1>5, RefusalsFirst
<1> QED BY <1>3, <1>6 DEF SentBy

\* What --secure lets through is harmless, or follows the creation of the guest.
LEMMA SecureStep ==
  ASSUME CmdInv, Going, todo # <<>>, Writes(todo[1]), ~(run.secure /\ SecureRefuses(run.cmd))
  PROVE  /\ run.secure => Harmless(todo[1].op) \/ "create_qemu" \in out.sent
         /\ todo[1].op \in Sendable
<1>1. PICK p \in Programs[run.cmd] : \E k \in 0..Len(p) :
        /\ At(p, k) /\ k + 1 \in DOMAIN p /\ k \in Nat /\ todo[1] = p[k + 1]
        /\ run.cmd \in DOMAIN Programs
  BY AtFacts
<1>2. PICK k \in 0..Len(p) :
        /\ At(p, k) /\ k + 1 \in DOMAIN p /\ k \in Nat /\ todo[1] = p[k + 1]
        /\ run.cmd \in DOMAIN Programs
  BY <1>1
<1>3. (\E i \in 1..k : p[i] = CreateQemu) => "create_qemu" \in out.sent
  BY <1>2 DEF At
<1>4. DOMAIN p = 1..Len(p) /\ Len(p) \in Nat /\ p[k + 1].op \in Sendable
  BY <1>2, ProgramFacts
<1>5. \A i \in DOMAIN p : i < k + 1 => i \in 1..k
  BY <1>2, <1>4
<1>6. run.secure => Harmless(p[k + 1].op) \/ \E i \in DOMAIN p : i < k + 1 /\ p[i] = CreateQemu
  BY <1>2, SecureCovers
<1> QED BY <1>2, <1>3, <1>4, <1>5, <1>6

\* The first step is done and the next one comes.
Proceeds ==
  /\ Going /\ todo # <<>> /\ todo' = Tail(todo) /\ run' = run
  /\ out' \in Outs /\ out'.exit = Running /\ out'.refused = out.refused
  /\ out.sent \subseteq out'.sent
  /\ \A o \in out'.sent \ out.sent : Writes(todo[1]) /\ o = todo[1].op
  /\ todo[1] = CreateQemu => "create_qemu" \in out'.sent
  /\ out'.marked => out.marked \/ todo[1].do = "mark"
  /\ todo[1].do # "judge"

LEMMA Proceeding ==
  ASSUME CmdInv, Proceeds
  PROVE  ProgramInv' /\ todo' \in Seq(Steps)
<1>0. todo # <<>> /\ Going /\ todo[1].do # "judge" /\ run' = run
  BY DEF Proceeds
<1>1. PICK p \in Programs[run.cmd] : \E k \in 0..Len(p) :
        /\ At(p, k) /\ k + 1 \in DOMAIN p /\ k \in Nat /\ todo[1] = p[k + 1]
        /\ run.cmd \in DOMAIN Programs /\ Len(todo) \in Nat /\ Len(todo) > 0
  BY <1>0, AtFacts
<1>2. PICK k \in 0..Len(p) :
        /\ At(p, k) /\ k + 1 \in DOMAIN p /\ k \in Nat /\ todo[1] = p[k + 1]
        /\ run.cmd \in DOMAIN Programs /\ Len(todo) \in Nat /\ Len(todo) > 0
  BY <1>1
<1>3. /\ Len(p) \in Nat /\ DOMAIN p = 1..Len(p)
      /\ Does(p, {"mark"}) => p[Len(p)].do = "judge"
  BY <1>2, ProgramFacts
<1>4. /\ Len(todo) = Len(p) - k /\ (\A i \in DOMAIN todo : todo[i] = p[k + i])
      /\ out.sent \subseteq SentBy(p, k)
      /\ (\E i \in 1..k : p[i] = CreateQemu) => "create_qemu" \in out.sent
      /\ out.marked => Does(p, {"mark"})
  BY <1>0, <1>2 DEF At
<1>5. /\ todo' \in Seq(Steps) /\ Len(todo') = Len(todo) - 1
      /\ \A i \in 1..Len(todo') : todo'[i] = todo[i + 1]
  <2>1. todo \in Seq(Steps) /\ todo' = Tail(todo)
    BY DEF CmdInv, Proceeds
  <2> QED BY <1>0, <2>1, HeadTailProperties
<1>6. DOMAIN todo' = 1..Len(todo') /\ DOMAIN todo = 1..Len(todo) /\ (Len(todo') # 0 => todo' # <<>>)
  <2>1. todo \in Seq(Steps)
    BY DEF CmdInv
  <2> QED BY <1>5, <2>1, LenProperties
<1> DEFINE n == Len(p)
           l == Len(todo)
           m == Len(todo')
<1>7. n \in Nat /\ k \in Nat /\ l = n - k /\ m = l - 1 /\ k + 1 \in 1..n /\ l \in Nat
  BY <1>2, <1>3, <1>4, <1>5
<1>8. /\ DOMAIN p = 1..n /\ DOMAIN todo = 1..l /\ DOMAIN todo' = 1..m
      /\ (\A i \in 1..m : todo'[i] = todo[i + 1]) /\ (\A i \in 1..l : todo[i] = p[k + i])
      /\ (Does(p, {"mark"}) => p[n].do = "judge") /\ (m # 0 => todo' # <<>>)
  BY <1>3, <1>4, <1>5, <1>6
<1> HIDE DEF n, l, m
<1>9. m = n - (k + 1) /\ k + 1 \in 0..n /\ k + 1 \in Nat /\ (m = 0 => k + 1 = n)
  BY <1>7
<1>10. \A i \in 1..m : todo'[i] = p[(k + 1) + i]
  <2> SUFFICES ASSUME NEW i \in 1..m PROVE todo'[i] = p[(k + 1) + i]
    OBVIOUS
  <2>1. i + 1 \in 1..l /\ k + (i + 1) = (k + 1) + i
    BY <1>7
  <2> QED BY <1>8, <2>1
<1>11. \A i \in 1..(k + 1) : i \in 1..k \/ i = k + 1
  BY <1>7
<1>12. out'.sent \subseteq SentBy(p, k + 1)
  <2>1. SentBy(p, k) \subseteq SentBy(p, k + 1)
    <3>1. \A i \in 1..k : i \in 1..(k + 1)
      BY <1>7
    <3> QED BY <3>1 DEF SentBy
  <2>2. Writes(p[k + 1]) => p[k + 1].op \in SentBy(p, k + 1)
    <3>1. k + 1 \in 1..(k + 1)
      BY <1>7
    <3> QED BY <3>1 DEF SentBy
  <2>3. \A o \in out'.sent \ out.sent : Writes(todo[1]) /\ o = todo[1].op
    BY DEF Proceeds
  <2> QED BY <1>2, <1>4, <2>1, <2>2, <2>3
<1>13. (\E i \in 1..(k + 1) : p[i] = CreateQemu) => "create_qemu" \in out'.sent
  <2>1. out.sent \subseteq out'.sent /\ (todo[1] = CreateQemu => "create_qemu" \in out'.sent)
    BY DEF Proceeds
  <2> QED BY <1>2, <1>4, <1>11, <2>1
<1>14. out'.marked => Does(p, {"mark"}) /\ todo' # <<>>
  <2> SUFFICES ASSUME out'.marked PROVE Does(p, {"mark"}) /\ todo' # <<>>
    OBVIOUS
  <2>1. out.marked \/ todo[1].do = "mark"
    BY DEF Proceeds
  <2>2. Does(p, {"mark"})
    BY <1>2, <1>4, <2>1 DEF Does
  <2>3. k + 1 # n
    BY <1>0, <1>2, <1>8, <2>2
  <2> QED BY <1>8, <1>9, <2>2, <2>3
<1>15. At(p, k + 1)'
  BY <1>8, <1>9, <1>10, <1>12, <1>13, <1>14 DEF At, n, m
<1>16. k + 1 \in 0..Len(p)
  BY <1>9 DEF n
<1> QED BY <1>0, <1>5, <1>15, <1>16 DEF ProgramInv

\* A step that is done keeps the invariant.
LEMMA StepDone ==
  ASSUME CmdInv, Proceeds, bt.phase = "idle", pt.phase = "idle", bt' = bt, pt' = pt,
         look'.phase = "idle", task' \in {"none", "running", "ok", "failed"},
         out'.waited => task' = "ok",
         run.locked => out'.sent = out.sent,
         out'.sent = out.sent \/ ~(run.secure /\ SecureRefuses(run.cmd))
  PROVE  CmdInv'
<1>0. /\ todo # <<>> /\ Going /\ run' = run /\ out' \in Outs /\ out'.exit = Running
      /\ out'.refused = out.refused /\ out.sent \subseteq out'.sent
      /\ \A o \in out'.sent \ out.sent : Writes(todo[1]) /\ o = todo[1].op
  BY DEF Proceeds
<1>1. ProgramInv' /\ todo' \in Seq(Steps)
  BY Proceeding
<1>2. /\ run \in Runs /\ run.flags \subseteq Flags[run.cmd] /\ ~out.refused
      /\ PartsInv /\ RefusedMeansUntouched /\ SecureSparesCluster
  BY <1>0 DEF CmdInv
<1>3. PartsInv'
  BY <1>0, <1>2 DEF PartsInv
<1>4. RefusedMeansUntouched'
  BY <1>0, <1>2 DEF RefusedMeansUntouched
<1>5. SecureSparesCluster'
  <2> SUFFICES ASSUME run.secure, "create_qemu" \notin out'.sent, NEW o \in out'.sent
               PROVE  Harmless(o)
    BY <1>0 DEF SecureSparesCluster, Harmless
  <2>1. CASE o \in out.sent
    BY <1>0, <1>2, <2>1 DEF SecureSparesCluster, Harmless
  <2>2. CASE o \notin out.sent
    <3>1. Writes(todo[1]) /\ o = todo[1].op /\ ~(run.secure /\ SecureRefuses(run.cmd))
      BY <1>0, <2>2
    <3>2. Harmless(todo[1].op) \/ "create_qemu" \in out.sent
      BY <1>0, <3>1, SecureStep
    <3> QED BY <1>0, <3>1, <3>2
  <2> QED BY <2>1, <2>2
<1>6. out'.exit # 0
  BY <1>0 DEF Running
<1> QED BY <1>0, <1>1, <1>2, <1>3, <1>4, <1>5, <1>6 DEF CmdInv

\* The command exits in its present step.
Leaves ==
  /\ Going /\ run' = run /\ todo' = todo /\ out' \in Outs /\ out'.exit # Running
  /\ bt' = bt /\ pt' = pt /\ out.sent \subseteq out'.sent
  /\ \A o \in out'.sent \ out.sent : todo # <<>> /\ Writes(todo[1]) /\ o = todo[1].op
  /\ out'.sent = out.sent \/ ~(run.secure /\ SecureRefuses(run.cmd))
  /\ run.locked => out'.sent = out.sent
  /\ out'.refused /\ run.cmd # "clone" => out'.sent = {} /\ bt.acted = {}
  /\ bt.phase # "idle" => ~out'.refused

LEMMA StepLeaves ==
  ASSUME CmdInv, Leaves, look'.phase = "idle" \/ look' = look,
         task' \in {"none", "running", "ok", "failed"},
         out'.waited /\ out'.exit = 0 => task' = "ok",
         out'.exit = 0 => ~out'.marked
  PROVE  CmdInv'
<1>0. /\ Going /\ run' = run /\ todo' = todo /\ out' \in Outs /\ out'.exit # Running
      /\ bt' = bt /\ pt' = pt /\ out.sent \subseteq out'.sent
      /\ \A o \in out'.sent \ out.sent : todo # <<>> /\ Writes(todo[1]) /\ o = todo[1].op
      /\ out'.sent = out.sent \/ ~(run.secure /\ SecureRefuses(run.cmd))
      /\ run.locked => out'.sent = out.sent
      /\ out'.refused /\ run.cmd # "clone" => out'.sent = {} /\ bt.acted = {}
      /\ bt.phase # "idle" => ~out'.refused
  BY DEF Leaves
<1>1. /\ run \in Runs /\ run.flags \subseteq Flags[run.cmd] /\ todo \in Seq(Steps)
      /\ ProgramInv /\ PartsInv /\ RefusedMeansUntouched /\ SecureSparesCluster
  BY DEF CmdInv
<1>2. ProgramInv'
  BY <1>0, <1>1 DEF ProgramInv, At, Going
<1>3. PartsInv'
  BY <1>0, <1>1 DEF PartsInv
<1>4. RefusedMeansUntouched'
  BY <1>0, <1>1 DEF RefusedMeansUntouched
<1>5. SecureSparesCluster'
  <2> SUFFICES ASSUME run.secure, "create_qemu" \notin out'.sent, NEW o \in out'.sent
               PROVE  Harmless(o)
    BY <1>0 DEF SecureSparesCluster, Harmless
  <2>1. CASE o \in out.sent
    BY <1>0, <1>1, <2>1 DEF SecureSparesCluster, Harmless
  <2>2. CASE o \notin out.sent
    <3>1. todo # <<>> /\ Writes(todo[1]) /\ o = todo[1].op /\ ~(run.secure /\ SecureRefuses(run.cmd))
      BY <1>0, <2>2
    <3>2. Harmless(todo[1].op) \/ "create_qemu" \in out.sent
      BY <1>0, <3>1, SecureStep
    <3> QED BY <1>0, <3>1, <3>2
  <2> QED BY <2>1, <2>2
<1>6. ~Going'
  BY <1>0 DEF Going
<1>7. out'.exit \in {Running, 0} => out'.exit = 0
  BY <1>0
<1> QED BY <1>0, <1>1, <1>2, <1>3, <1>4, <1>5, <1>6, <1>7 DEF CmdInv

(***************************************************************************)
(* The steps of a command, one by one.                                     *)
(***************************************************************************)
LEMMA OutFields ==
  ASSUME out \in Outs
  PROVE  /\ out.sent \subseteq Sendable /\ out.marked \in BOOLEAN /\ out.waited \in BOOLEAN
         /\ out.refused \in BOOLEAN /\ out.exit \in Running..EXIT_HITL_PENDING
BY DEF Outs

LEMMA ExitCodes == 0..9 \subseteq Running..EXIT_HITL_PENDING /\ Running = -1
BY DEF Running, EXIT_HITL_PENDING

LEMMA NextFacts ==
  ASSUME CmdInv, BatchInv, NEW what, Next1(what)
  PROVE  /\ Going /\ todo # <<>> /\ todo[1].do \in what /\ look.phase = "idle"
         /\ bt.phase = "idle" /\ pt.phase = "idle" /\ ~(run.secure /\ SecureRefuses(run.cmd))
         /\ out \in Outs /\ bt.acted = {} /\ ~out.refused
         /\ task \in {"none", "running", "ok", "failed"}
         /\ out.waited => task = "ok"
<1>1. /\ Going /\ todo # <<>> /\ todo[1].do \in what /\ look.phase = "idle"
      /\ bt.phase = "idle" /\ pt.phase = "idle" /\ ~(run.secure /\ SecureRefuses(run.cmd))
  BY DEF Next1
<1>2. bt = NoBatch
  BY <1>1 DEF BatchInv
<1>3. bt.acted = {}
  BY <1>2 DEF NoBatch
<1>4. /\ out \in Outs /\ task \in {"none", "running", "ok", "failed"}
      /\ out.waited /\ out.exit \in {Running, 0} => task = "ok"
      /\ out.refused => ~Going
  BY DEF CmdInv
<1>5. out.waited => task = "ok"
  BY <1>1, <1>4 DEF Going
<1> QED BY <1>1, <1>3, <1>4, <1>5

\* A step that only goes on.
LEMMA GoesOn ==
  ASSUME CmdInv, BatchInv, NEW what, Next1(what), GoOn, Still, what \cap {"call", "judge"} = {}
  PROVE  CmdInv'
<1>1. /\ Going /\ todo # <<>> /\ todo[1].do \in what /\ look.phase = "idle"
      /\ bt.phase = "idle" /\ pt.phase = "idle" /\ out \in Outs
      /\ task \in {"none", "running", "ok", "failed"} /\ (out.waited => task = "ok")
  BY NextFacts
<1>2. /\ run' = run /\ look' = look /\ bt' = bt /\ pt' = pt /\ todo' = Tail(todo)
      /\ task' = task /\ out' = out
  BY DEF Still, GoOn
<1>3. todo[1].do \notin {"call", "judge"}
  BY <1>1
<1>4. todo[1] # CreateQemu
  BY <1>3 DEF CreateQemu, Call, Step
<1>5. Proceeds
  BY <1>1, <1>2, <1>3, <1>4 DEF Proceeds, Going
<1> QED BY <1>1, <1>2, <1>5, StepDone

\* A step that exits with a failure.
LEMMA ExitsThere ==
  ASSUME CmdInv, BatchInv, NEW what, Next1(what), NEW c \in 1..9, Exits(c), Still
  PROVE  CmdInv'
<1>1. /\ Going /\ todo # <<>> /\ look.phase = "idle" /\ bt.phase = "idle" /\ out \in Outs
      /\ task \in {"none", "running", "ok", "failed"} /\ ~out.refused
  BY NextFacts
<1>2. /\ run' = run /\ look' = look /\ bt' = bt /\ pt' = pt /\ todo' = todo /\ task' = task
      /\ out' = [out EXCEPT !.exit = c]
  BY DEF Still, Exits
<1>3. c \in Running..EXIT_HITL_PENDING /\ c # Running /\ c # 0
  BY ExitCodes
<1>4. out' \in Outs /\ out'.exit = c /\ out'.sent = out.sent /\ out'.refused = out.refused
  BY <1>1, <1>2, <1>3 DEF Outs
<1>5. Leaves
  BY <1>1, <1>2, <1>3, <1>4 DEF Leaves
<1> QED BY <1>1, <1>2, <1>3, <1>4, <1>5, StepLeaves

\* A step that refuses, when nothing was sent.
LEMMA RefusesThere ==
  ASSUME CmdInv, BatchInv, NEW what, Next1(what), NEW c \in 1..9, Refuses(c), Still,
         run.cmd # "clone" => out.sent = {}
  PROVE  CmdInv'
<1>1. /\ Going /\ todo # <<>> /\ look.phase = "idle" /\ bt.phase = "idle" /\ out \in Outs
      /\ task \in {"none", "running", "ok", "failed"} /\ bt.acted = {}
  BY NextFacts
<1>2. /\ run' = run /\ look' = look /\ bt' = bt /\ pt' = pt /\ todo' = todo /\ task' = task
      /\ out' = [out EXCEPT !.exit = c, !.refused = TRUE]
  BY DEF Still, Refuses
<1>3. c \in Running..EXIT_HITL_PENDING /\ c # Running /\ c # 0
  BY ExitCodes
<1>4. out' \in Outs /\ out'.exit = c /\ out'.sent = out.sent
  BY <1>1, <1>2, <1>3 DEF Outs
<1>5. Leaves
  BY <1>1, <1>2, <1>3, <1>4 DEF Leaves
<1> QED BY <1>1, <1>2, <1>3, <1>4, <1>5, StepLeaves

LEMMA SecureGateStep ==
  ASSUME CmdInv, BatchInv, SecureGate
  PROVE  CmdInv'
<1>1. /\ Going /\ run.secure /\ SecureRefuses(run.cmd)
      /\ run' = run /\ look' = look /\ bt' = bt /\ pt' = pt /\ todo' = todo /\ task' = task
      /\ out' = [out EXCEPT !.exit = 8, !.refused = TRUE]
  BY DEF SecureGate, Refuses, Still
<1>2. out.sent = {} /\ bt.phase = "idle"
  BY <1>1 DEF CmdInv, PartsInv
<1>3. bt = NoBatch
  BY <1>2 DEF BatchInv
<1>4. bt.acted = {}
  BY <1>3 DEF NoBatch
<1>5. out \in Outs /\ task \in {"none", "running", "ok", "failed"}
  BY DEF CmdInv
<1>6. 8 \in Running..EXIT_HITL_PENDING /\ 8 # Running /\ 8 # 0
  BY ExitCodes
<1>7. out' \in Outs /\ out'.exit = 8 /\ out'.sent = out.sent
  BY <1>1, <1>5, <1>6 DEF Outs
<1>8. Leaves
  BY <1>1, <1>2, <1>4, <1>6, <1>7 DEF Leaves
<1> QED BY <1>1, <1>5, <1>6, <1>7, <1>8, StepLeaves

\* The questions a command asks itself before it does anything.
Gates ==
  {"ask", "ask_forced", "check", "config", "support", "listed", "qemu", "lxc", "risk"}

LEMMA GateStep ==
  ASSUME CmdInv, BatchInv, Gate
  PROVE  CmdInv'
<1>0. Still
  BY DEF Gate
<1>1. Next1(Gates) /\ (GoOn \/ \E c \in 1..9 : Refuses(c))
  <2>1. CASE Confirmed
    BY <2>1 DEF Confirmed, Next1, Gates
  <2>2. CASE Validated
    BY <2>2 DEF Validated, Next1, Gates, NotFound
  <2>3. CASE RiskTaken
    BY <2>3 DEF RiskTaken, Next1, Gates
  <2> QED BY <2>1, <2>2, <2>3 DEF Gate
<1>2. CASE GoOn
  <2>1. Gates \cap {"call", "judge"} = {}
    BY DEF Gates
  <2> QED BY <1>0, <1>1, <1>2, <2>1, GoesOn
<1>3. CASE \E c \in 1..9 : Refuses(c)
  <2>1. PICK c \in 1..9 : Refuses(c)
    BY <1>3
  <2>2. Going /\ todo # <<>> /\ MayRefuse(todo[1])
    BY <1>1 DEF Next1, Gates, MayRefuse
  <2>3. run.cmd # "clone" => out.sent = {}
    BY <2>2, NothingSent
  <2> QED BY <1>0, <1>1, <2>1, <2>3, RefusesThere
<1> QED BY <1>1, <1>2, <1>3

\* The call of a step, and what it may send.
LEMMA CallFacts ==
  ASSUME CmdInv, BatchInv, Next1({"call"})
  PROVE  /\ todo[1].do = "call" /\ (Mutates(todo[1].op) => Writes(todo[1]))
         /\ Mutates(todo[1].op) => todo[1].op \in Sendable
         /\ todo[1] = CreateQemu => todo[1].op = "create_qemu" /\ Mutates(todo[1].op)
<1>1. Going /\ todo # <<>> /\ todo[1].do = "call" /\ ~(run.secure /\ SecureRefuses(run.cmd))
  BY NextFacts
<1>2. Mutates(todo[1].op) => Writes(todo[1])
  BY <1>1 DEF Writes
<1>3. Mutates(todo[1].op) => todo[1].op \in Sendable
  BY <1>1, <1>2, SecureStep
<1>4. todo[1] = CreateQemu => todo[1].op = "create_qemu"
  BY DEF CreateQemu, Call, Step
<1>5. Mutates("create_qemu")
  BY CallsSent DEF Sendable
<1> QED BY <1>1, <1>2, <1>3, <1>4, <1>5

\* What a call adds to the writes is the call, and nothing under a lock.
Added(op, s) ==
  /\ out.sent \subseteq s /\ s \subseteq out.sent \cup {op}
  /\ s # out.sent => Mutates(op) /\ ~run.locked

LEMMA AnsweredStep ==
  ASSUME CmdInv, BatchInv, Next1({"call"}), Still, Answered(todo[1].op)
  PROVE  CmdInv'
<1> DEFINE op == todo[1].op
           s == IF Mutates(op) THEN out.sent \cup {op} ELSE out.sent
           w == out.waited /\ AnswerOf[op] \notin {"task", "maybe"}
<1>1. /\ Going /\ todo # <<>> /\ todo[1].do = "call" /\ look.phase = "idle"
      /\ bt.phase = "idle" /\ pt.phase = "idle" /\ out \in Outs
      /\ task \in {"none", "running", "ok", "failed"} /\ (out.waited => task = "ok")
      /\ ~(run.secure /\ SecureRefuses(run.cmd))
  BY NextFacts
<1>2. /\ Mutates(op) => Writes(todo[1])
      /\ Mutates(op) => op \in Sendable
      /\ todo[1] = CreateQemu => op = "create_qemu" /\ Mutates(op)
  BY CallFacts
<1>3. /\ ~(Mutates(op) /\ run.locked) /\ todo' = Tail(todo)
      /\ out' = [out EXCEPT !.sent = s, !.waited = w]
  BY DEF Answered, Sends
<1>4. /\ task' \in {"none", "running", "ok", "failed"}
      /\ AnswerOf[op] \notin {"task", "maybe"} => task' = task
  <2>1. task' \in CASE AnswerOf[op] = "task" -> {"running"}
                    [] AnswerOf[op] = "maybe" -> {"running", "none"}
                    [] OTHER -> {task}
    BY DEF Answered
  <2>2. CASE AnswerOf[op] = "task"
    BY <2>1, <2>2
  <2>3. CASE AnswerOf[op] = "maybe"
    BY <2>1, <2>3
  <2>4. CASE AnswerOf[op] \notin {"task", "maybe"}
    BY <1>1, <2>1, <2>4
  <2> QED BY <2>2, <2>3, <2>4
<1>5. run' = run /\ look' = look /\ bt' = bt /\ pt' = pt
  BY DEF Still
<1>6. /\ s \in SUBSET Sendable /\ out.sent \subseteq s
      /\ \A o \in s \ out.sent : Mutates(op) /\ o = op
      /\ todo[1] = CreateQemu => "create_qemu" \in s
      /\ run.locked => s = out.sent
  BY <1>1, <1>2, <1>3, OutFields
<1>7. w \in BOOLEAN /\ (w => out.waited /\ AnswerOf[op] \notin {"task", "maybe"})
  BY <1>1, OutFields
<1> HIDE DEF s, w
<1>8. /\ out' \in Outs /\ out'.sent = s /\ out'.waited = w /\ out'.exit = out.exit
      /\ out'.refused = out.refused /\ out'.marked = out.marked
  BY <1>1, <1>3, <1>6, <1>7 DEF Outs
<1>9. Proceeds
  BY <1>1, <1>2, <1>3, <1>5, <1>6, <1>8 DEF Proceeds, Going
<1>10. out'.waited => task' = "ok"
  BY <1>1, <1>4, <1>7, <1>8
<1> QED BY <1>1, <1>4, <1>5, <1>6, <1>8, <1>9, <1>10, StepDone

\* A call that ends the command, sent or not.
LEMMA CallFails ==
  ASSUME CmdInv, BatchInv, Next1({"call"}), Still, UNCHANGED <<todo, task>>,
         NEW c \in 1..9, NEW s, Added(todo[1].op, s),
         out' = [out EXCEPT !.exit = c, !.sent = s]
  PROVE  CmdInv'
<1>1. /\ Going /\ todo # <<>> /\ todo[1].do = "call" /\ look.phase = "idle"
      /\ bt.phase = "idle" /\ pt.phase = "idle" /\ out \in Outs
      /\ task \in {"none", "running", "ok", "failed"} /\ ~out.refused
      /\ ~(run.secure /\ SecureRefuses(run.cmd))
  BY NextFacts
<1>2. /\ Mutates(todo[1].op) => Writes(todo[1])
      /\ Mutates(todo[1].op) => todo[1].op \in Sendable
  BY CallFacts
<1>3. run' = run /\ look' = look /\ bt' = bt /\ pt' = pt /\ todo' = todo /\ task' = task
  BY DEF Still
<1>4. c \in Running..EXIT_HITL_PENDING /\ c # Running /\ c # 0
  BY ExitCodes
<1>5. /\ s \in SUBSET Sendable /\ out.sent \subseteq s
      /\ \A o \in s \ out.sent : Writes(todo[1]) /\ o = todo[1].op
      /\ run.locked => s = out.sent
  BY <1>1, <1>2, OutFields DEF Added
<1>6. out' \in Outs /\ out'.exit = c /\ out'.sent = s /\ out'.refused = out.refused
  BY <1>1, <1>4, <1>5 DEF Outs
<1>7. Leaves
  BY <1>1, <1>3, <1>4, <1>5, <1>6 DEF Leaves
<1> QED BY <1>1, <1>3, <1>4, <1>6, <1>7, StepLeaves

LEMMA DoCallStep ==
  ASSUME CmdInv, BatchInv, DoCall
  PROVE  CmdInv'
<1> DEFINE op == todo[1].op
<1>0. Next1({"call"}) /\ Still
  BY DEF DoCall
<1>1. /\ Going /\ todo # <<>> /\ todo[1].do = "call" /\ out \in Outs
  BY <1>0, NextFacts
<1>2. CASE Answered(op)
  BY <1>0, <1>2, AnsweredStep
<1>3. CASE LockRefuses(op)
  <2>1. run.locked /\ Refuses(8)
    BY <1>3 DEF LockRefuses
  <2>2. out.sent = {}
    BY <2>1 DEF CmdInv, RefusedMeansUntouched
  <2>3. 8 \in 1..9
    OBVIOUS
  <2> QED BY <1>0, <2>1, <2>2, <2>3, RefusesThere
<1>4. CASE Unfit(op)
  <2>1. op \in RechecksStopped \cup AgentExec /\ Refuses(1)
    BY <1>4 DEF Unfit
  <2>2. MayRefuse(todo[1])
    BY <1>1, <2>1 DEF MayRefuse
  <2>3. run.cmd # "clone" => out.sent = {}
    BY <1>1, <2>2, NothingSent
  <2>4. 1 \in 1..9
    OBVIOUS
  <2> QED BY <1>0, <2>1, <2>3, <2>4, RefusesThere
<1>5. CASE Abandons(op)
  <2> DEFINE s == out.sent \cup {op}
  <2>1. /\ op \in AgentExec /\ ~run.locked /\ UNCHANGED <<todo, task>>
        /\ out' = [out EXCEPT !.exit = 1, !.sent = s]
    BY <1>5 DEF Abandons
  <2>2. Mutates(op)
    BY <2>1, CallsSent DEF Sendable
  <2>3. Added(op, s)
    BY <2>1, <2>2 DEF Added
  <2>4. 1 \in 1..9
    OBVIOUS
  <2> HIDE DEF s
  <2> QED BY <1>0, <2>1, <2>3, <2>4, CallFails
<1>6. CASE \E c \in Failures : FailedCall(op, c)
  <2>1. PICK c \in Failures : FailedCall(op, c)
    BY <1>6
  <2>2. PICK reached \in (IF Mutates(op) THEN {{}, {op}} ELSE {{}}) :
          out' = [out EXCEPT !.exit = c, !.sent = @ \cup reached]
    BY <2>1 DEF FailedCall
  <2> DEFINE s == out.sent \cup reached
  <2>3. out' = [out EXCEPT !.exit = c, !.sent = s]
    BY <2>2
  <2>4. ~(Mutates(op) /\ run.locked) /\ UNCHANGED <<todo, task>>
    BY <2>1 DEF FailedCall
  <2>5. Added(op, s)
    <3>1. reached = {} \/ (reached = {op} /\ Mutates(op))
      BY <2>2
    <3> QED BY <2>4, <3>1 DEF Added
  <2>6. c \in 1..9
    BY Codes
  <2> HIDE DEF s
  <2> QED BY <1>0, <2>3, <2>4, <2>5, <2>6, CallFails
<1> QED BY <1>2, <1>3, <1>4, <1>5, <1>6 DEF DoCall

LEMMA DoTellStep ==
  ASSUME CmdInv, BatchInv, DoTell
  PROVE  CmdInv'
<1> DEFINE what == {"tell", "mark", "hush"}
           m == out.marked \/ todo[1].do = "mark"
<1>0. Next1(what) /\ Still
  BY DEF DoTell
<1>1. CASE GoOn
  BY <1>0, <1>1, GoesOn
<1>2. CASE todo' = Tail(todo) /\ UNCHANGED task /\ out' = [out EXCEPT !.marked = m]
  <2>1. /\ Going /\ todo # <<>> /\ todo[1].do \in what /\ look.phase = "idle"
        /\ bt.phase = "idle" /\ pt.phase = "idle" /\ out \in Outs
        /\ task \in {"none", "running", "ok", "failed"} /\ (out.waited => task = "ok")
    BY <1>0, NextFacts
  <2>2. run' = run /\ look' = look /\ bt' = bt /\ pt' = pt
    BY <1>0 DEF Still
  <2>3. m \in BOOLEAN /\ (m => out.marked \/ todo[1].do = "mark")
    BY <2>1, OutFields
  <2> HIDE DEF m
  <2>4. /\ out' \in Outs /\ out'.sent = out.sent /\ out'.waited = out.waited
        /\ out'.exit = out.exit /\ out'.refused = out.refused /\ out'.marked = m
    BY <1>2, <2>1, <2>3 DEF Outs
  <2>5. todo[1].do \notin {"call", "judge"}
    BY <2>1
  <2>6. todo[1] # CreateQemu
    BY <2>5 DEF CreateQemu, Call, Step
  <2>7. Proceeds
    BY <1>2, <2>1, <2>2, <2>3, <2>4, <2>5, <2>6 DEF Proceeds, Going
  <2> QED BY <1>2, <2>1, <2>2, <2>4, <2>7, StepDone
<1> QED BY <1>1, <1>2 DEF DoTell

LEMMA DoTryStep ==
  ASSUME CmdInv, BatchInv, DoTry
  PROVE  CmdInv'
<1>0. Next1({"try_qemu", "try_lxc"}) /\ Still /\ (GoOn \/ Exits(Other))
  BY DEF DoTry
<1>1. CASE GoOn
  BY <1>0, <1>1, GoesOn
<1>2. CASE Exits(Other)
  <2>1. Other \in 1..9
    BY Codes
  <2> QED BY <1>0, <1>2, <2>1, ExitsThere
<1> QED BY <1>0, <1>1, <1>2

LEMMA DoRemoteStep ==
  ASSUME CmdInv, BatchInv, DoRemote
  PROVE  CmdInv'
<1>0. Next1({"remote"}) /\ Still /\ (GoOn \/ Exits(Other))
  BY DEF DoRemote
<1>1. CASE GoOn
  BY <1>0, <1>1, GoesOn
<1>2. CASE Exits(Other)
  <2>1. Other \in 1..9
    BY Codes
  <2> QED BY <1>0, <1>2, <2>1, ExitsThere
<1> QED BY <1>0, <1>1, <1>2

\* The end of the log that --stream follows ends the command: only waits come after.
LEMMA FollowedPlace ==
  ASSUME CmdInv, Going, todo # <<>>, todo[1].do = "follow", todo' = <<>>, run' = run,
         out'.sent = out.sent, out'.marked = out.marked
  PROVE  ProgramInv' /\ todo' \in Seq(Steps) /\ ~out.marked
<1>1. PICK p \in Programs[run.cmd] : \E k \in 0..Len(p) :
        /\ At(p, k) /\ k + 1 \in DOMAIN p /\ k \in Nat /\ todo[1] = p[k + 1]
        /\ run.cmd \in DOMAIN Programs
  BY AtFacts
<1>2. PICK k \in 0..Len(p) :
        /\ At(p, k) /\ k + 1 \in DOMAIN p /\ k \in Nat /\ todo[1] = p[k + 1]
        /\ run.cmd \in DOMAIN Programs
  BY <1>1
<1>3. /\ Len(p) \in Nat /\ DOMAIN p = 1..Len(p)
      /\ \A j \in DOMAIN p : j > k + 1 => p[j].do = "await"
      /\ ~Does(p, {"mark"})
  BY <1>2, ProgramFacts
<1>4. /\ out.sent \subseteq SentBy(p, k)
      /\ (\E i \in 1..k : p[i] = CreateQemu) => "create_qemu" \in out.sent
      /\ out.marked => Does(p, {"mark"})
  BY <1>2 DEF At
<1> DEFINE n == Len(p)
<1>5. n \in Nat /\ k \in Nat /\ k + 1 \in 1..n /\ DOMAIN p = 1..n
  BY <1>2, <1>3
<1>6. \A j \in DOMAIN p : j > k + 1 => p[j].do = "await"
  BY <1>3
<1>7. Len(todo') = 0 /\ DOMAIN todo' = {} /\ todo' \in Seq(Steps)
  BY EmptySeq
<1> HIDE DEF n
<1>8. n \in 0..n /\ 0 = n - n
  BY <1>5
<1>9. SentBy(p, k) \subseteq SentBy(p, n)
  <2>1. \A i \in 1..k : i \in 1..n
    BY <1>5
  <2> QED BY <2>1 DEF SentBy
<1>10. \A i \in 1..n : i \in 1..k \/ p[i].do # "call"
  <2> SUFFICES ASSUME NEW i \in 1..n PROVE i \in 1..k \/ p[i].do # "call"
    OBVIOUS
  <2>1. i \in 1..k \/ i = k + 1 \/ i > k + 1
    BY <1>5
  <2> QED BY <1>2, <1>5, <1>6, <2>1
<1>11. CreateQemu.do = "call"
  BY DEF CreateQemu, Call, Step
<1>12. (\E i \in 1..n : p[i] = CreateQemu) => "create_qemu" \in out.sent
  BY <1>4, <1>10, <1>11
<1>13. ~out.marked
  BY <1>3, <1>4
<1>14. At(p, n)'
  <2>1. Len(todo') = Len(p) - n
    BY <1>7, <1>8 DEF n
  <2> QED BY <1>4, <1>7, <1>9, <1>12, <1>13, <2>1 DEF At
<1> QED BY <1>7, <1>8, <1>13, <1>14 DEF ProgramInv, n

LEMMA EndSeenStep ==
  ASSUME CmdInv, BatchInv, Next1({"await", "follow", "must", "poll"}), EndSeen, Still
  PROVE  CmdInv'
<1> DEFINE what == {"await", "follow", "must", "poll"}
           w == todo[1].do # "poll"
<1>1. /\ Going /\ todo # <<>> /\ todo[1].do \in what /\ look.phase = "idle"
      /\ bt.phase = "idle" /\ pt.phase = "idle" /\ out \in Outs /\ ~out.refused
      /\ task \in {"ok", "failed"} /\ task' = task
  BY NextFacts DEF EndSeen
<1>2. run' = run /\ look' = look /\ bt' = bt /\ pt' = pt
  BY DEF Still
<1>3. CASE task = "failed" /\ todo[1].do # "poll"
  <2>1. out' = [out EXCEPT !.waited = TRUE, !.exit = 1] /\ todo' = todo
    BY <1>3 DEF EndSeen
  <2>2. 1 \in Running..EXIT_HITL_PENDING /\ 1 # Running
    BY ExitCodes
  <2>3. out' \in Outs /\ out'.exit = 1 /\ out'.sent = out.sent /\ out'.refused = out.refused
    BY <1>1, <2>1, <2>2 DEF Outs
  <2>4. Leaves
    BY <1>1, <1>2, <2>1, <2>2, <2>3 DEF Leaves
  <2> QED BY <1>1, <1>2, <2>3, <2>4, StepLeaves
<1>4. CASE ~(task = "failed" /\ todo[1].do # "poll")
  <2>1. /\ out' = [out EXCEPT !.waited = w]
        /\ todo' = IF todo[1].do = "follow" THEN <<>> ELSE Tail(todo)
    BY <1>4 DEF EndSeen
  <2>2. w \in BOOLEAN /\ (w => task = "ok")
    BY <1>1, <1>4
  <2> HIDE DEF w
  <2>3. /\ out' \in Outs /\ out'.waited = w /\ out'.sent = out.sent /\ out'.exit = out.exit
        /\ out'.refused = out.refused /\ out'.marked = out.marked
    BY <1>1, <2>1, <2>2 DEF Outs
  <2>4. CASE todo[1].do = "follow"
    <3>1. todo' = <<>>
      BY <2>1, <2>4
    <3>2. ProgramInv' /\ todo' \in Seq(Steps)
      BY <1>1, <1>2, <2>3, <2>4, <3>1, FollowedPlace
    <3>3. /\ run \in Runs /\ run.flags \subseteq Flags[run.cmd]
          /\ PartsInv /\ RefusedMeansUntouched /\ SecureSparesCluster
      BY DEF CmdInv
    <3>4. PartsInv'
      BY <1>1, <1>2, <2>3, <3>3 DEF PartsInv
    <3>5. RefusedMeansUntouched' /\ SecureSparesCluster'
      BY <1>1, <1>2, <2>3, <3>3 DEF RefusedMeansUntouched, SecureSparesCluster
    <3>6. out'.exit # 0
      BY <1>1, <2>3 DEF Going, Running
    <3> QED BY <1>1, <1>2, <2>2, <2>3, <3>2, <3>3, <3>4, <3>5, <3>6 DEF CmdInv
  <2>5. CASE todo[1].do # "follow"
    <3>1. todo' = Tail(todo)
      BY <2>1, <2>5
    <3>2. todo[1].do \notin {"call", "judge"}
      BY <1>1
    <3>3. todo[1] # CreateQemu
      BY <3>2 DEF CreateQemu, Call, Step
    <3>4. Proceeds
      BY <1>1, <1>2, <2>3, <3>1, <3>2, <3>3 DEF Proceeds, Going
    <3> QED BY <1>1, <1>2, <2>2, <2>3, <3>4, StepDone
  <2> QED BY <2>4, <2>5
<1> QED BY <1>3, <1>4

LEMMA DoWaitStep ==
  ASSUME CmdInv, BatchInv, DoWait
  PROVE  CmdInv'
<1> DEFINE what == {"await", "follow", "must", "poll"}
<1>0. Next1(what) /\ Still /\ (EndSeen \/ GoOn \/ \E c \in 1..9 : Exits(c))
  BY Codes DEF DoWait, GivesUp
<1>1. CASE EndSeen
  BY <1>0, <1>1, EndSeenStep
<1>2. CASE GoOn
  BY <1>0, <1>2, GoesOn
<1>3. CASE \E c \in 1..9 : Exits(c)
  BY <1>0, <1>3, ExitsThere
<1> QED BY <1>0, <1>1, <1>2, <1>3

\* A command at its normal end has no failed part left to judge.
LEMMA EndsStep ==
  ASSUME CmdInv, BatchInv, Ends, Still
  PROVE  CmdInv'
<1>1. run' = run /\ look' = look /\ bt' = bt /\ pt' = pt
  BY DEF Still
<1>2. CASE Next1({"judge"}) /\ Exits(1)
  <2>1. 1 \in 1..9
    OBVIOUS
  <2> QED BY <1>2, <2>1, ExitsThere
<1>3. CASE Going /\ Exits(0) /\ bt.phase = "idle" /\ ~out.marked
  <2>1. /\ out \in Outs /\ task \in {"none", "running", "ok", "failed"}
        /\ (out.waited => task = "ok") /\ ~out.refused
    BY <1>3 DEF CmdInv, Going
  <2>2. out' = [out EXCEPT !.exit = 0] /\ todo' = todo /\ task' = task
    BY <1>3 DEF Exits
  <2>3. 0 \in Running..EXIT_HITL_PENDING /\ 0 # Running
    BY ExitCodes
  <2>4. /\ out' \in Outs /\ out'.exit = 0 /\ out'.sent = out.sent /\ out'.refused = out.refused
        /\ out'.marked = out.marked /\ out'.waited = out.waited
    BY <2>1, <2>2, <2>3 DEF Outs
  <2>5. Leaves
    BY <1>1, <1>3, <2>1, <2>2, <2>3, <2>4 DEF Leaves
  <2> QED BY <1>1, <1>3, <2>1, <2>2, <2>4, <2>5, StepLeaves
<1>4. CASE Next1({"judge"}) /\ ~out.marked /\ Exits(0)
  BY <1>3, <1>4 DEF Next1
<1>5. CASE Going /\ todo = <<>> /\ bt.phase = "idle" /\ Exits(0)
  <2>1. ~out.marked
    BY <1>5 DEF CmdInv, ProgramInv, At
  <2> QED BY <1>3, <1>5, <2>1
<1> QED BY <1>2, <1>4, <1>5 DEF Ends

\* A batch or a rollout as a step of a command.
LEMMA WholeStep ==
  ASSUME CmdInv, todo # <<>>, todo[1].do \in {"batch", "rollout"}
  PROVE  /\ todo[1].do = "batch" =>
              todo[1].op \in BatchOps /\ Writes(todo[1]) /\ todo[1].op \in Sendable
         /\ Going => ~out.marked
<1>1. PICK p \in Programs[run.cmd] : \E k \in 0..Len(p) :
        /\ At(p, k) /\ k + 1 \in DOMAIN p /\ k \in Nat /\ todo[1] = p[k + 1]
        /\ run.cmd \in DOMAIN Programs
  BY AtFacts
<1>2. PICK k \in 0..Len(p) :
        /\ At(p, k) /\ k + 1 \in DOMAIN p /\ k \in Nat /\ todo[1] = p[k + 1]
        /\ run.cmd \in DOMAIN Programs
  BY <1>1
<1>3. /\ todo[1].do = "batch" => todo[1].op \in BatchOps /\ todo[1].op \in Sendable
      /\ ~Does(p, {"mark"})
  BY <1>2, ProgramFacts
<1>4. Going /\ out.marked => Does(p, {"mark"})
  BY <1>2 DEF At
<1>5. todo[1].do = "batch" => Writes(todo[1])
  BY <1>3 DEF Writes, Sendable
<1> QED BY <1>3, <1>4, <1>5

\* A step that leaves the command itself alone.
LEMMA CmdKept ==
  ASSUME CmdInv, UNCHANGED cmdvars, PartsInv', RefusedMeansUntouched'
  PROVE  CmdInv'
<1>1. run' = run /\ todo' = todo /\ task' = task /\ out' = out
  BY DEF cmdvars
<1>2. ProgramInv /\ SecureSparesCluster
  BY DEF CmdInv
<1>3. ProgramInv'
  BY <1>1, <1>2 DEF ProgramInv, At, Going
<1>4. SecureSparesCluster'
  BY <1>1, <1>2 DEF SecureSparesCluster
<1> QED BY <1>1, <1>3, <1>4 DEF CmdInv, Going

LEMMA StartBatchStep ==
  ASSUME CmdInv, BatchInv, StartBatch
  PROVE  CmdInv' /\ BatchInv'
<1> DEFINE st == "strict" \in run.flags
           lk == run.locked
           op == todo[1].op
           pol == run.policy
<1>1. /\ Next1({"batch"}) /\ UNCHANGED cmdvars /\ look' = look /\ pt' = pt
      /\ BatchStarts(op, st, pol, lk)
  BY DEF StartBatch
<1>2. /\ Going /\ todo # <<>> /\ todo[1].do = "batch" /\ look.phase = "idle"
      /\ pt.phase = "idle" /\ ~(run.secure /\ SecureRefuses(run.cmd)) /\ ~out.refused
  BY <1>1, NextFacts
<1>3. op \in BatchOps
  BY <1>2, WholeStep
<1>4. st \in BOOLEAN /\ lk \in BOOLEAN /\ pol \in Policies
  BY DEF CmdInv, Runs
<1> HIDE DEF st, lk, op, pol
<1>5. BatchInv' /\ bt'.phase = "scan" /\ bt'.op = op /\ bt'.locked = lk /\ bt'.acted = {}
  BY <1>1, <1>3, <1>4, BatchStartsStep
<1>6. PartsInv /\ RefusedMeansUntouched /\ run' = run /\ todo' = todo /\ out' = out
  BY <1>1 DEF CmdInv, cmdvars
<1>7. PartsInv'
  BY <1>1, <1>2, <1>5, <1>6 DEF PartsInv, lk, op
<1>8. RefusedMeansUntouched'
  BY <1>2, <1>5, <1>6 DEF RefusedMeansUntouched
<1> QED BY <1>1, <1>5, <1>7, <1>8, CmdKept

LEMMA StartRolloutStep ==
  ASSUME CmdInv, BatchInv, StartRollout
  PROVE  CmdInv' /\ PatchInv'
<1> DEFINE ap == todo[1].op = "apply"
           dr == "dry_run" \in run.flags
           lk == run.locked
<1>1. /\ Next1({"rollout"}) /\ UNCHANGED cmdvars /\ look' = look /\ bt' = bt
      /\ PatchStarts(ap, dr, lk)
  BY DEF StartRollout
<1>2. /\ Going /\ todo # <<>> /\ todo[1].do = "rollout" /\ look.phase = "idle"
      /\ bt.phase = "idle"
  BY <1>1, NextFacts
<1>3. ap \in BOOLEAN /\ dr \in BOOLEAN /\ lk \in BOOLEAN
  BY DEF CmdInv, Runs
<1> HIDE DEF ap, dr, lk
<1>4. PatchInv' /\ pt'.phase = "list"
  BY <1>1, <1>3, PatchStartsStep
<1>5. PartsInv /\ RefusedMeansUntouched /\ run' = run /\ todo' = todo /\ out' = out
  BY <1>1 DEF CmdInv, cmdvars
<1>6. PartsInv'
  BY <1>1, <1>2, <1>5 DEF PartsInv
<1>7. RefusedMeansUntouched'
  BY <1>1, <1>5 DEF RefusedMeansUntouched
<1> QED BY <1>1, <1>4, <1>6, <1>7, CmdKept

LEMMA BatchEndsStep ==
  ASSUME CmdInv, BatchInv, BatchEnds
  PROVE  CmdInv'
<1> DEFINE c == bt.code
           s == IF bt.acted # {} THEN out.sent \cup {bt.op} ELSE out.sent
<1>1. /\ Going /\ bt.phase = "done" /\ run' = run /\ todo' = todo /\ task' = task
      /\ look' = look /\ bt' = bt /\ pt' = pt
      /\ out' = [out EXCEPT !.exit = c, !.sent = s]
  BY DEF BatchEnds, BatchOver
<1>2. /\ bt.locked = run.locked /\ todo # <<>> /\ todo[1].do = "batch"
      /\ todo[1].op = bt.op /\ ~(run.secure /\ SecureRefuses(run.cmd))
  BY <1>1 DEF CmdInv, PartsInv
<1>3. bt.op \in Sendable /\ Writes(todo[1]) /\ ~out.marked
  BY <1>1, <1>2, WholeStep
<1>4. /\ out \in Outs /\ task \in {"none", "running", "ok", "failed"} /\ ~out.refused
      /\ out.waited => task = "ok"
  BY <1>1 DEF CmdInv, Going
<1>5. c \in Running..EXIT_HITL_PENDING /\ c # Running
  <2>1. c \in {0, 2, EXIT_HITL_PENDING} \cup Failures
    BY DEF BatchInv, BatchTypeOK
  <2> QED BY <2>1, Codes, ExitCodes, StatusFacts
<1>6. run.locked => bt.acted = {}
  BY <1>2 DEF BatchInv
<1>7. /\ s \in SUBSET Sendable /\ out.sent \subseteq s
      /\ \A o \in s \ out.sent : o = todo[1].op
      /\ run.locked => s = out.sent
  BY <1>2, <1>3, <1>4, <1>6, OutFields
<1> HIDE DEF s, c
<1>8. /\ out' \in Outs /\ out'.exit = c /\ out'.sent = s /\ out'.refused = out.refused
      /\ out'.waited = out.waited /\ out'.marked = out.marked
  BY <1>1, <1>4, <1>5, <1>7 DEF Outs
<1>9. Leaves
  BY <1>1, <1>2, <1>3, <1>4, <1>5, <1>7, <1>8 DEF Leaves
<1> QED BY <1>1, <1>3, <1>4, <1>8, <1>9, StepLeaves

LEMMA RolloutEndsStep ==
  ASSUME CmdInv, PatchInv, RolloutEnds
  PROVE  CmdInv'
<1> DEFINE c == pt.code
<1>1. /\ Going /\ pt.phase = "done" /\ run' = run /\ todo' = todo /\ task' = task
      /\ look' = look /\ bt' = bt /\ pt' = pt
      /\ out' = [out EXCEPT !.exit = c]
  BY DEF RolloutEnds, PatchOver, Exits
<1>2. todo # <<>> /\ todo[1].do = "rollout"
  BY <1>1 DEF CmdInv, PartsInv
<1>3. ~out.marked
  BY <1>1, <1>2, WholeStep
<1>4. /\ out \in Outs /\ task \in {"none", "running", "ok", "failed"} /\ ~out.refused
      /\ out.waited => task = "ok"
  BY <1>1 DEF CmdInv, Going
<1>5. c \in Running..EXIT_HITL_PENDING /\ c # Running
  <2>1. c \in {0, 8} \cup Failures
    BY DEF PatchInv, PatchTypeOK
  <2> QED BY <2>1, Codes, ExitCodes
<1> HIDE DEF c
<1>6. /\ out' \in Outs /\ out'.exit = c /\ out'.sent = out.sent /\ out'.refused = out.refused
      /\ out'.waited = out.waited /\ out'.marked = out.marked
  BY <1>1, <1>4, <1>5 DEF Outs
<1>7. Leaves
  BY <1>1, <1>4, <1>5, <1>6 DEF Leaves
<1> QED BY <1>1, <1>3, <1>4, <1>6, <1>7, StepLeaves

\* A lookup that begins, and one that is over.
LEMMA SeekStep ==
  ASSUME CmdInv, BatchInv, LookupInv, Seek
  PROVE  CmdInv' /\ LookupInv'
<1> DEFINE f == todo[1].do = "find_full"
           ph == IF todo[1].do = "sweep" THEN "sweep_nodes" ELSE "resources"
<1>1. /\ Next1(Lookups) /\ UNCHANGED cmdvars /\ bt' = bt /\ pt' = pt
      /\ UNCHANGED worldvars /\ UNCHANGED faults
      /\ look' = [NoLook EXCEPT !.full = f, !.phase = ph]
  BY DEF Seek
<1>2. /\ todo # <<>> /\ todo[1].do \in Lookups /\ pt.phase = "idle" /\ bt.phase = "idle"
  BY <1>1, NextFacts
<1>3. f \in BOOLEAN /\ ph \in {"sweep_nodes", "resources"}
  OBVIOUS
<1> HIDE DEF f, ph
<1>4. NoLook \in Looks /\ NoLook.typed = 0
  BY DEF NoLook, Looks, Phases
<1>5. look' \in Looks /\ look'.phase = ph /\ look'.typed = 0
  BY <1>1, <1>3, <1>4 DEF Looks, Phases
<1>6. faults \in 0..MaxFaults
  BY LookupFacts
<1>7. 0 # NotFound
  BY Codes
<1>8. LookupInv'
  BY <1>1, <1>3, <1>5, <1>6, <1>7, LookupGoesOn
<1>9. PartsInv /\ RefusedMeansUntouched /\ run' = run /\ todo' = todo /\ out' = out
  BY <1>1 DEF CmdInv, cmdvars
<1>10. PartsInv'
  BY <1>1, <1>2, <1>9 DEF PartsInv
<1>11. RefusedMeansUntouched'
  BY <1>1, <1>9 DEF RefusedMeansUntouched
<1> QED BY <1>1, <1>8, <1>10, <1>11, CmdKept

LEMMA NoLookInv ==
  ASSUME LookupInv, UNCHANGED worldvars, faults' \in 0..MaxFaults, look' = NoLook
  PROVE  LookupInv'
<1>1. /\ look' \in Looks /\ look'.phase = "idle" /\ look'.typed = 0
  BY DEF NoLook, Looks, Phases
<1>2. 0 # NotFound
  BY Codes
<1> QED BY <1>1, <1>2, LookupGoesOn

LEMMA SoughtStep ==
  ASSUME CmdInv, BatchInv, LookupInv, Sought
  PROVE  CmdInv' /\ LookupInv'
<1>1. /\ Going /\ look.phase = "done" /\ look' = NoLook /\ run' = run /\ bt' = bt /\ pt' = pt
      /\ UNCHANGED worldvars /\ UNCHANGED faults
  BY DEF Sought
<1>2. faults \in 0..MaxFaults /\ look.code \in {0} \cup Failures
  BY LookupFacts DEF Looks
<1>3. LookupInv'
  BY <1>1, <1>2, NoLookInv
<1>4. look'.phase = "idle"
  BY <1>1 DEF NoLook
<1>5. /\ todo # <<>> /\ todo[1].do \in Lookups /\ pt.phase = "idle" /\ bt.phase = "idle"
  BY <1>1 DEF CmdInv, PartsInv, Lookups
<1>6. /\ out \in Outs /\ task \in {"none", "running", "ok", "failed"} /\ ~out.refused
      /\ out.waited => task = "ok"
  BY <1>1 DEF CmdInv, Going
<1>7. GoOn \/ \E c \in 1..9 : Exits(c)
  BY <1>2, Codes DEF Sought
<1>8. CASE GoOn
  <2>1. todo' = Tail(todo) /\ task' = task /\ out' = out
    BY <1>8 DEF GoOn
  <2>2. todo[1].do \notin {"call", "judge", "mark"}
    BY <1>5 DEF Lookups
  <2>3. todo[1] # CreateQemu
    BY <2>2 DEF CreateQemu, Call, Step
  <2>4. Proceeds
    BY <1>1, <1>5, <1>6, <2>1, <2>2, <2>3 DEF Proceeds, Going
  <2>5. CmdInv'
    BY <1>1, <1>4, <1>5, <1>6, <2>1, <2>4, StepDone
  <2> QED BY <1>3, <2>5
<1>9. CASE \E c \in 1..9 : Exits(c)
  <2>1. PICK c \in 1..9 : Exits(c)
    BY <1>9
  <2>2. out' = [out EXCEPT !.exit = c] /\ todo' = todo /\ task' = task
    BY <2>1 DEF Exits
  <2>3. c \in Running..EXIT_HITL_PENDING /\ c # Running /\ c # 0
    BY ExitCodes
  <2>4. out' \in Outs /\ out'.exit = c /\ out'.sent = out.sent /\ out'.refused = out.refused
    BY <1>6, <2>2, <2>3 DEF Outs
  <2>5. Leaves
    BY <1>1, <1>6, <2>2, <2>3, <2>4 DEF Leaves
  <2>6. CmdInv'
    BY <1>4, <1>6, <2>2, <2>3, <2>4, <2>5, StepLeaves
  <2> QED BY <1>3, <2>6
<1> QED BY <1>7, <1>8, <1>9

LEMMA TaskEndsStep ==
  ASSUME CmdInv, TaskEnds
  PROVE  CmdInv'
<1>1. /\ Going /\ task = "running" /\ task' \in {"ok", "failed"} /\ run' = run /\ todo' = todo
      /\ out' = out /\ look' = look /\ bt' = bt /\ pt' = pt
  BY DEF TaskEnds
<1>2. ProgramInv /\ PartsInv /\ RefusedMeansUntouched /\ SecureSparesCluster
  BY DEF CmdInv
<1>3. ~out.waited
  BY <1>1 DEF CmdInv, Going
<1>4. ProgramInv'
  BY <1>1, <1>2 DEF ProgramInv, At, Going
<1>5. PartsInv' /\ RefusedMeansUntouched' /\ SecureSparesCluster'
  BY <1>1, <1>2 DEF PartsInv, RefusedMeansUntouched, SecureSparesCluster
<1> QED BY <1>1, <1>3, <1>4, <1>5 DEF CmdInv, Going

\* Steps of a lookup, of the cluster, of a batch, of a rollout.
LEMMA LookupKeeps ==
  ASSUME CmdInv, UNCHANGED <<cmdvars, bt, pt>>, look.phase # "idle"
  PROVE  CmdInv' /\ pt.phase = "idle"
<1>1. PartsInv /\ RefusedMeansUntouched
  BY DEF CmdInv
<1>2. run' = run /\ todo' = todo /\ out' = out /\ bt' = bt /\ pt' = pt /\ UNCHANGED cmdvars
  BY DEF cmdvars
<1>3. PartsInv' /\ pt.phase = "idle"
  BY <1>1, <1>2 DEF PartsInv
<1>4. RefusedMeansUntouched'
  BY <1>1, <1>2 DEF RefusedMeansUntouched
<1> QED BY <1>2, <1>3, <1>4, CmdKept

LEMMA BatchKeeps ==
  ASSUME BatchInv, BatchNext
  PROVE  bt.phase # "idle" /\ bt'.op = bt.op /\ bt'.locked = bt.locked
<1>1. bt \in Batches
  BY DEF BatchInv, BatchTypeOK, Batches
<1>2. CASE Scan
  BY <1>1, <1>2 DEF Scan, BatchExits, Batches
<1>3. CASE TakeTurn
  <2>1. bt.phase = "turn"
    BY <1>3 DEF TakeTurn
  <2>2. CASE AskHuman
    BY <1>1, <2>1, <2>2 DEF AskHuman, Turned, Batches
  <2>3. CASE PerformNow
    BY <1>1, <2>1, <2>3 DEF PerformNow, Batches
  <2>4. CASE Spawn
    BY <1>1, <2>1, <2>4 DEF Spawn, Batches
  <2>5. CASE Turned("error", TRUE) \/ Turned("rejected", TRUE)
    BY <1>1, <2>1, <2>5 DEF Turned, Batches
  <2> QED BY <1>3, <2>2, <2>3, <2>4, <2>5 DEF TakeTurn
<1>4. CASE Perform
  BY <1>1, <1>4 DEF Perform, Batches
<1>5. CASE SliceEnds
  <2>1. bt.phase = "turn"
    BY <1>5 DEF SliceEnds
  <2>2. \/ \E c : SkipRest(c)
        \/ \E p, c : NextSlice(p, c)
        \/ \E c : BatchExits(c)
    BY <1>5 DEF SliceEnds
  <2>3. CASE \E c : SkipRest(c)
    BY <1>1, <2>1, <2>3 DEF SkipRest, Batches
  <2>4. CASE \E p, c : NextSlice(p, c)
    BY <1>1, <2>1, <2>4 DEF NextSlice, Batches
  <2>5. CASE \E c : BatchExits(c)
    BY <1>1, <2>1, <2>5 DEF BatchExits, Batches
  <2> QED BY <2>2, <2>3, <2>4, <2>5
<1> QED BY <1>2, <1>3, <1>4, <1>5 DEF BatchNext

LEMMA BatchNextStep ==
  ASSUME CmdInv, BatchInv, BatchInv', BatchNext, look' = look, UNCHANGED <<cmdvars, pt>>
  PROVE  CmdInv'
<1>1. PartsInv /\ RefusedMeansUntouched
  BY DEF CmdInv
<1>2. run' = run /\ todo' = todo /\ out' = out /\ pt' = pt /\ UNCHANGED cmdvars
  BY DEF cmdvars
<1>3. bt.phase # "idle" /\ bt'.op = bt.op /\ bt'.locked = bt.locked
  BY BatchKeeps
<1>4. PartsInv'
  BY <1>1, <1>2, <1>3 DEF PartsInv
<1>5. bt'.locked => bt'.acted = {}
  BY DEF BatchInv
<1>6. RefusedMeansUntouched'
  BY <1>1, <1>2, <1>3, <1>5 DEF RefusedMeansUntouched, PartsInv
<1> QED BY <1>2, <1>4, <1>6, CmdKept

LEMMA RolloutKeeps ==
  ASSUME CmdInv, look' = look, UNCHANGED <<cmdvars, bt>>, pt.phase # "idle"
  PROVE  CmdInv'
<1>1. PartsInv /\ RefusedMeansUntouched
  BY DEF CmdInv
<1>2. run' = run /\ todo' = todo /\ out' = out /\ bt' = bt /\ UNCHANGED cmdvars
  BY DEF cmdvars
<1>3. PartsInv'
  BY <1>1, <1>2 DEF PartsInv
<1>4. RefusedMeansUntouched'
  BY <1>1, <1>2 DEF RefusedMeansUntouched
<1> QED BY <1>2, <1>3, <1>4, CmdKept

LEMMA PatchWorld ==
  ASSUME PatchNext, faults \in 0..MaxFaults
  PROVE  /\ faults' \in 0..MaxFaults /\ UNCHANGED worldvars /\ look' = look
         /\ pt.phase # "idle"
<1>1. /\ UNCHANGED worldvars /\ look' = look /\ pt.phase # "idle"
  BY DEF PatchNext, ListOnline, PlanNode, Planned, TakeNode, RunUpgrade, RunReboot, PollNode,
         ReadDetail, WaitEnds, ApplyEnds, worldvars
<1>2. UNCHANGED faults \/ \E c \in Failures : Fault(c)
  <2>1. Other \in Failures
    BY Codes
  <2> QED BY <2>1 DEF PatchNext, ListOnline, PlanNode, Planned, TakeNode, RunUpgrade,
         RunReboot, PollNode, ReadDetail, WaitEnds, ApplyEnds, ClusterFails, NodeFails,
         MayFail
<1>3. faults' \in 0..MaxFaults
  BY <1>2, FaultCounts
<1> QED BY <1>1, <1>3

(***************************************************************************)
(* The whole run.                                                          *)
(***************************************************************************)
LEMMA LookupKept ==
  ASSUME LookupInv, UNCHANGED <<host, up, kind, look>>, moves' \in 0..MaxMoves,
         faults' \in 0..MaxFaults
  PROVE  LookupInv'
BY DEF LookupInv, LookupTypeOK, NotFoundIsTrue

LEMMA BatchKept ==
  ASSUME BatchInv, bt' = bt
  PROVE  BatchInv'
<1>1. /\ BatchTypeOK' = BatchTypeOK /\ Batching' = Batching /\ BatchOver' = BatchOver
  BY DEF BatchTypeOK, Batching, BatchOver
<1>2. PlaceInv' = PlaceInv /\ StrictInv' = StrictInv
  BY DEF PlaceInv, StrictInv, TurnsTaken, SliceEnd
<1>3. EntryInv' = EntryInv
  BY DEF EntryInv, TurnsTaken
<1>4. TouchInv' = TouchInv
  BY DEF TouchInv, IsRejected
<1>5. FlagInv' = FlagInv
  BY DEF FlagInv, Some
<1>6. StageInv' = StageInv
  BY DEF StageInv, CanaryInv, RollingInv, Passed, SliceEnd, TurnsTaken
<1>7. PolicyHolds' = PolicyHolds
  BY DEF PolicyHolds, IsRejected
<1>8. EveryTargetReported' = EveryTargetReported
  BY DEF EveryTargetReported, BatchOver
<1>9. BatchExitIsTrue' = BatchExitIsTrue
  BY DEF BatchExitIsTrue, BatchOver, CodeFits, Some
<1>10. (\E m \in 0..Len(Targets) : Reached(m))' = (\E m \in 0..Len(Targets) : Reached(m))
  BY DEF Reached, Pilot
<1> QED BY <1>1, <1>2, <1>3, <1>4, <1>5, <1>6, <1>7, <1>8, <1>9, <1>10 DEF BatchInv

LEMMA PatchKept ==
  ASSUME PatchInv, pt' = pt, up' = up
  PROVE  PatchInv'
<1>1. PatchTypeOK' = PatchTypeOK /\ PatchExitIsTrue' = PatchExitIsTrue
  BY DEF PatchTypeOK, PatchExitIsTrue, PatchOver
<1>2. UntouchedInv' = UntouchedInv
  BY DEF UntouchedInv, Rebooting
<1>3. NodeInv' = NodeInv
  BY DEF NodeInv, Patching, Rebooting
<1>4. RebootInv' = RebootInv
  BY DEF RebootInv, Rebooting
<1> QED BY <1>1, <1>2, <1>3, <1>4 DEF PatchInv, Rebooting

\* Of a rollout that is not under way the cluster may change as it likes.
LEMMA IdleKept ==
  ASSUME PatchInv, pt.phase = "idle", pt' = pt
  PROVE  PatchInv'
<1>1. pt' = NoRollout
  BY DEF PatchInv
<1>2. pt' \in Rollouts
  BY <1>1 DEF NoRollout, Rollouts
<1>3. /\ pt'.phase = "idle" /\ pt'.apply = FALSE /\ pt'.dry = FALSE /\ pt'.locked = FALSE
      /\ pt'.left = {} /\ pt'.st = [n \in Nodes |-> "out"] /\ pt'.offline = FALSE
      /\ pt'.recorded = {} /\ pt'.started = {} /\ pt'.upgraded = {} /\ pt'.told = {}
      /\ pt'.down = {}
  BY <1>1 DEF NoRollout
<1>4. PatchTypeOK'
  BY <1>2, <1>3 DEF PatchTypeOK, Rollouts
<1>5. UntouchedInv' /\ NodeInv' /\ RebootInv' /\ PatchExitIsTrue'
  BY <1>3 DEF UntouchedInv, NodeInv, RebootInv, Rebooting, Patching, PatchExitIsTrue, PatchOver
<1> QED BY <1>1, <1>3, <1>4, <1>5 DEF PatchInv, Rebooting

\* A step of the command that leaves the three parts where they are.
LEMMA PartsKept ==
  ASSUME LookupInv, BatchInv, PatchInv, Still, UNCHANGED faults \/ \E c \in Failures : Fault(c)
  PROVE  LookupInv' /\ BatchInv' /\ PatchInv'
<1>1. /\ UNCHANGED <<host, up, kind, look>> /\ bt' = bt /\ pt' = pt /\ up' = up /\ moves' = moves
  BY DEF Still, worldvars
<1>2. faults \in 0..MaxFaults /\ moves \in 0..MaxMoves
  BY DEF LookupInv, LookupTypeOK
<1>3. faults' \in 0..MaxFaults
  BY <1>2, FaultCounts
<1> QED BY <1>1, <1>2, <1>3, LookupKept, BatchKept, PatchKept

LEMMA CliPartsNext ==
  ASSUME LookupInv', BatchInv', PatchInv', CmdInv'
  PROVE  CliInv'
<1>1. LookupTypeOK' /\ BatchTypeOK' /\ PatchTypeOK'
  BY DEF LookupInv, BatchInv, PatchInv
<1> QED BY <1>1 DEF CliInv, CmdInv, TypeOK, Runs, Outs, Sendable

LEMMA StillSteps ==
  ASSUME CliInv, SecureGate \/ Gate \/ DoCall \/ DoTell \/ DoTry \/ DoRemote \/ DoWait
                 \/ (Ends /\ Still /\ UNCHANGED faults)
  PROVE  CliInv'
<1>0. LookupInv /\ BatchInv /\ PatchInv /\ CmdInv
  BY CliParts
<1>1. CmdInv'
  BY <1>0, SecureGateStep, GateStep, DoCallStep, DoTellStep, DoTryStep, DoRemoteStep,
     DoWaitStep, EndsStep
<1>2. Still
  BY DEF SecureGate, Gate, DoCall, DoTell, DoTry, DoRemote, DoWait
<1>3. UNCHANGED faults \/ \E c \in Failures : Fault(c)
  <2>1. Other \in Failures
    BY Codes
  <2>2. CASE DoCall
    BY <2>2 DEF DoCall, Answered, LockRefuses, Unfit, Abandons, FailedCall
  <2>3. CASE DoTell \/ DoTry \/ DoRemote
    BY <2>1, <2>3 DEF DoTell, DoTry, DoRemote
  <2>4. CASE DoWait
    BY <2>4 DEF DoWait, EndSeen, GivesUp
  <2>5. CASE SecureGate \/ Gate \/ (Ends /\ Still /\ UNCHANGED faults)
    BY <2>5 DEF SecureGate, Gate
  <2> QED BY <2>2, <2>3, <2>4, <2>5
<1>4. LookupInv' /\ BatchInv' /\ PatchInv'
  BY <1>0, <1>2, <1>3, PartsKept
<1> QED BY <1>1, <1>4, CliPartsNext

LEMMA LookupMoves ==
  ASSUME CliInv, UNCHANGED <<cmdvars, bt, pt>>, LookupNext \/ (Looking /\ (GuestMoves \/ NodeTurns))
  PROVE  CliInv'
<1>0. LookupInv /\ BatchInv /\ PatchInv /\ CmdInv
  BY CliParts
<1>1. look.phase # "idle"
  BY DEF LookupNext, ReadResources, Confirm, WalkNodes, WalkNode, WalkEnds, SweepNodes,
         SweepNode, SweepEnds, SweepListed, Looking
<1>2. CmdInv' /\ pt.phase = "idle"
  BY <1>0, <1>1, LookupKeeps
<1>3. LookupInv'
  BY <1>0, LookupSteps, LookupWorld
<1>4. BatchInv' /\ PatchInv'
  BY <1>0, <1>2, BatchKept, IdleKept
<1> QED BY <1>2, <1>3, <1>4, CliPartsNext

LEMMA BatchMoves ==
  ASSUME CliInv, BatchNext, UNCHANGED <<cmdvars, pt>>
  PROVE  CliInv'
<1>0. LookupInv /\ BatchInv /\ PatchInv /\ CmdInv
  BY CliParts
<1>1. faults \in 0..MaxFaults /\ moves \in 0..MaxMoves
  BY <1>0 DEF LookupInv, LookupTypeOK
<1>2. /\ BatchInv' /\ faults' \in 0..MaxFaults /\ moves' \in 0..MaxMoves
      /\ UNCHANGED <<host, up, kind, look>>
  BY <1>0, <1>1, BatchSteps
<1>3. LookupInv' /\ PatchInv'
  BY <1>0, <1>2, LookupKept, PatchKept
<1>4. CmdInv'
  BY <1>0, <1>2, BatchNextStep
<1> QED BY <1>2, <1>3, <1>4, CliPartsNext

LEMMA PatchMoves ==
  ASSUME CliInv, PatchNext, UNCHANGED <<cmdvars, bt>>
  PROVE  CliInv'
<1>0. LookupInv /\ BatchInv /\ PatchInv /\ CmdInv
  BY CliParts
<1>1. faults \in 0..MaxFaults /\ moves \in 0..MaxMoves /\ up \subseteq Nodes
  BY <1>0 DEF LookupInv, LookupTypeOK
<1>2. /\ faults' \in 0..MaxFaults /\ UNCHANGED worldvars /\ look' = look /\ pt.phase # "idle"
  BY <1>1, PatchWorld
<1>3. LookupInv' /\ BatchInv'
  BY <1>0, <1>1, <1>2, LookupKept, BatchKept DEF worldvars
<1>4. PatchInv'
  BY <1>0, <1>1, PatchSteps
<1>5. CmdInv'
  BY <1>0, <1>2, RolloutKeeps
<1> QED BY <1>3, <1>4, <1>5, CliPartsNext

LEMMA RebootMoves ==
  ASSUME CliInv, NodeReboots, UNCHANGED <<cmdvars, bt>>
  PROVE  CliInv'
<1>0. LookupInv /\ BatchInv /\ PatchInv /\ CmdInv
  BY CliParts
<1>1. pt.phase # "idle"
  <2>1. pt.told # {} \/ pt.down # {}
    BY DEF NodeReboots
  <2>2. NoRollout.told = {} /\ NoRollout.down = {}
    BY DEF NoRollout
  <2> QED BY <1>0, <2>1, <2>2 DEF PatchInv
<1>2. pt.told \subseteq Nodes /\ pt.down \subseteq Nodes
  BY <1>0 DEF PatchInv, PatchTypeOK
<1>3. up' \subseteq Nodes /\ UNCHANGED <<host, kind, moves, faults, look>>
  BY <1>0, <1>2 DEF NodeReboots, LookupInv, LookupTypeOK
<1>4. LookupInv'
  BY <1>0, <1>3 DEF LookupInv, LookupTypeOK, NotFoundIsTrue
<1>5. PatchInv' /\ BatchInv'
  BY <1>0, NodeRebootsStep, BatchKept
<1>6. CmdInv'
  BY <1>0, <1>1, <1>3, RolloutKeeps
<1> QED BY <1>4, <1>5, <1>6, CliPartsNext

LEMMA FlickerMoves ==
  ASSUME CliInv, NodeFlickers, UNCHANGED <<cmdvars, bt>>
  PROVE  CliInv'
<1>0. LookupInv /\ BatchInv /\ PatchInv /\ CmdInv
  BY CliParts
<1>1. pt.phase # "idle" /\ NodeTurns
  BY DEF NodeFlickers
<1>2. moves' \in 0..MaxMoves /\ up' \subseteq Nodes /\ UNCHANGED <<host, kind, faults, look>>
  BY <1>0, <1>1, LookupAssumption DEF NodeTurns, LookupInv, LookupTypeOK
<1>3. LookupInv'
  BY <1>0, <1>2 DEF LookupInv, LookupTypeOK, NotFoundIsTrue
<1>4. PatchInv' /\ BatchInv'
  BY <1>0, NodeFlickersStep, BatchKept
<1>5. CmdInv'
  BY <1>0, <1>1, <1>2, RolloutKeeps
<1> QED BY <1>3, <1>4, <1>5, CliPartsNext

LEMMA PartSteps ==
  ASSUME CliInv, Seek \/ Sought \/ StartBatch \/ BatchEnds \/ StartRollout \/ RolloutEnds \/ TaskEnds
  PROVE  CliInv'
<1>0. LookupInv /\ BatchInv /\ PatchInv /\ CmdInv
  BY CliParts
<1>1. faults \in 0..MaxFaults /\ moves \in 0..MaxMoves
  BY <1>0 DEF LookupInv, LookupTypeOK
<1>2. CASE Seek \/ Sought
  <2>1. CmdInv' /\ LookupInv'
    BY <1>0, <1>2, SeekStep, SoughtStep
  <2>2. bt' = bt /\ pt' = pt /\ up' = up
    BY <1>2 DEF Seek, Sought, worldvars
  <2> QED BY <1>0, <2>1, <2>2, BatchKept, PatchKept, CliPartsNext
<1>3. CASE StartBatch
  <2>1. CmdInv' /\ BatchInv'
    BY <1>0, <1>3, StartBatchStep
  <2>2. /\ UNCHANGED <<host, up, kind, look>> /\ moves' = moves /\ faults' = faults
        /\ pt' = pt /\ up' = up
    BY <1>3 DEF StartBatch, worldvars
  <2> QED BY <1>0, <1>1, <2>1, <2>2, LookupKept, PatchKept, CliPartsNext
<1>4. CASE StartRollout
  <2>1. CmdInv' /\ PatchInv'
    BY <1>0, <1>4, StartRolloutStep
  <2>2. /\ UNCHANGED <<host, up, kind, look>> /\ moves' = moves /\ faults' = faults /\ bt' = bt
    BY <1>4 DEF StartRollout, worldvars
  <2> QED BY <1>0, <1>1, <2>1, <2>2, LookupKept, BatchKept, CliPartsNext
<1>5. CASE BatchEnds \/ RolloutEnds \/ TaskEnds
  <2>1. CmdInv'
    BY <1>0, <1>5, BatchEndsStep, RolloutEndsStep, TaskEndsStep
  <2>2. /\ UNCHANGED <<host, up, kind, look>> /\ moves' = moves /\ faults' = faults
        /\ bt' = bt /\ pt' = pt /\ up' = up
    BY <1>5 DEF BatchEnds, RolloutEnds, TaskEnds, worldvars
  <2> QED BY <1>0, <1>1, <2>1, <2>2, LookupKept, BatchKept, PatchKept, CliPartsNext
<1> QED BY <1>2, <1>3, <1>4, <1>5

LEMMA StutterMoves ==
  ASSUME CliInv, UNCHANGED vars
  PROVE  CliInv'
<1>0. LookupInv /\ BatchInv /\ PatchInv /\ CmdInv
  BY CliParts
<1>1. /\ UNCHANGED <<host, up, kind, look>> /\ moves' = moves /\ faults' = faults
      /\ bt' = bt /\ pt' = pt /\ up' = up /\ run' = run /\ out' = out /\ todo' = todo
      /\ UNCHANGED cmdvars /\ look' = look
  BY DEF vars, cmdvars
<1>2. faults \in 0..MaxFaults /\ moves \in 0..MaxMoves
  BY <1>0 DEF LookupInv, LookupTypeOK
<1>3. LookupInv' /\ BatchInv' /\ PatchInv'
  BY <1>0, <1>1, <1>2, LookupKept, BatchKept, PatchKept
<1>4. PartsInv' /\ RefusedMeansUntouched'
  BY <1>0, <1>1 DEF CmdInv, PartsInv, RefusedMeansUntouched
<1> QED BY <1>0, <1>1, <1>3, <1>4, CmdKept, CliPartsNext

LEMMA CliStarts == Init => CliInv
<1> SUFFICES ASSUME Init PROVE CliInv
  OBVIOUS
<1>1. PICK c \in DOMAIN Programs : \E p \in Programs[c] :
        /\ run \in [cmd : {c}, flags : SUBSET (Flags[c] \ {"policy"}),
                    policy : IF "policy" \in Flags[c] THEN Policies ELSE {Full},
                    secure : BOOLEAN, locked : BOOLEAN]
        /\ todo = p
        /\ host \in IF Does(p, Lookups) THEN Nodes \cup {Absent} ELSE {Absent}
        /\ up \in IF Does(p, Lookups \cup {"batch", "rollout"}) THEN SUBSET Nodes ELSE {Nodes}
        /\ kind \in IF Does(p, {"qemu", "lxc", "try_qemu"}) THEN {"qemu", "lxc"} ELSE {"qemu"}
  BY DEF Init
<1>2. PICK p \in Programs[c] :
        /\ run \in [cmd : {c}, flags : SUBSET (Flags[c] \ {"policy"}),
                    policy : IF "policy" \in Flags[c] THEN Policies ELSE {Full},
                    secure : BOOLEAN, locked : BOOLEAN]
        /\ todo = p
        /\ host \in IF Does(p, Lookups) THEN Nodes \cup {Absent} ELSE {Absent}
        /\ up \in IF Does(p, Lookups \cup {"batch", "rollout"}) THEN SUBSET Nodes ELSE {Nodes}
        /\ kind \in IF Does(p, {"qemu", "lxc", "try_qemu"}) THEN {"qemu", "lxc"} ELSE {"qemu"}
  BY <1>1
<1>3. /\ task = "none" /\ out = NoOutput /\ look = NoLook /\ bt = NoBatch /\ pt = NoRollout
      /\ moves = 0 /\ faults = 0
  BY DEF Init
<1>4. BatchInv /\ PatchInv
  BY <1>3, NoBatchInv, NoRolloutInv
<1>5. LookupInv
  <2>1. host \in Nodes \cup {Absent} /\ up \subseteq Nodes /\ kind \in {"qemu", "lxc"}
    BY <1>2
  <2>2. look \in Looks /\ look.phase = "idle" /\ look.typed = 0
    BY <1>3 DEF NoLook, Looks, Phases
  <2>3. 0 \in 0..MaxMoves /\ 0 \in 0..MaxFaults /\ 0 # NotFound
    BY LookupAssumption, Codes
  <2> QED BY <1>3, <2>1, <2>2, <2>3 DEF LookupInv, LookupTypeOK, NotFoundIsTrue, Looks
<1>6. run \in Runs /\ run.flags \subseteq Flags[run.cmd] /\ run.cmd = c
  <2>1. Flags[c] \subseteq UNION {Flags[x] : x \in DOMAIN Flags}
    <3>1. DOMAIN Flags = DOMAIN Programs
      BY GrammarAgrees
    <3> QED BY <3>1
  <2>2. Full \in Policies
    BY FullFacts
  <2> QED BY <1>2, <2>1, <2>2 DEF Runs
<1>7. /\ out.sent = {} /\ out.marked = FALSE /\ out.waited = FALSE /\ out.refused = FALSE
      /\ out.exit = Running /\ out \in Outs
  <2>1. Running \in Running..EXIT_HITL_PENDING
    BY DEF Running, EXIT_HITL_PENDING
  <2> QED BY <1>3, <2>1 DEF NoOutput, Outs
<1>8. todo \in Seq(Steps) /\ Len(todo) \in Nat /\ DOMAIN todo = 1..Len(todo)
  BY <1>2, ProgramFacts
<1>9. At(todo, 0)
  <2> DEFINE n == Len(todo)
  <2>1. n \in Nat /\ DOMAIN todo = 1..n
    BY <1>8
  <2> HIDE DEF n
  <2>2. n = n - 0 /\ \A i \in 1..n : 0 + i = i
    BY <2>1
  <2>3. Len(todo) = Len(todo) - 0 /\ \A i \in DOMAIN todo : todo[i] = todo[0 + i]
    BY <2>1, <2>2 DEF n
  <2>4. 1..0 = {}
    OBVIOUS
  <2> QED BY <1>7, <2>3, <2>4 DEF At
<1>10. ProgramInv
  <2>1. 0 \in 0..Len(todo)
    BY <1>8
  <2> QED BY <1>2, <1>6, <1>9, <2>1 DEF ProgramInv
<1>11. look.phase = "idle" /\ bt.phase = "idle" /\ pt.phase = "idle" /\ bt.acted = {}
  BY <1>3 DEF NoLook, NoBatch, NoRollout
<1>12. PartsInv /\ RefusedMeansUntouched /\ SecureSparesCluster
  BY <1>7, <1>11 DEF PartsInv, RefusedMeansUntouched, SecureSparesCluster
<1>13. Running # 0
  BY DEF Running
<1>14. CmdInv
  BY <1>3, <1>6, <1>7, <1>8, <1>10, <1>12, <1>13 DEF CmdInv
<1> QED BY <1>4, <1>5, <1>14, CliParts

LEMMA CliSteps == CliInv /\ [Next]_vars => CliInv'
<1> SUFFICES ASSUME CliInv, [Next]_vars PROVE CliInv'
  OBVIOUS
<1>1. CASE CliNext
  <2>1. CASE SecureGate \/ Gate \/ DoCall \/ DoTell \/ DoTry \/ DoRemote \/ DoWait
             \/ (Ends /\ Still /\ UNCHANGED faults)
    BY <2>1, StillSteps
  <2>2. CASE Seek \/ Sought \/ StartBatch \/ BatchEnds \/ StartRollout \/ RolloutEnds
    BY <2>2, PartSteps
  <2>3. CASE LookupNext /\ UNCHANGED <<cmdvars, bt, pt>>
    BY <2>3, LookupMoves
  <2>4. CASE BatchNext /\ UNCHANGED <<cmdvars, pt>>
    BY <2>4, BatchMoves
  <2>5. CASE PatchNext /\ UNCHANGED <<cmdvars, bt>>
    BY <2>5, PatchMoves
  <2> QED BY <1>1, <2>1, <2>2, <2>3, <2>4, <2>5 DEF CliNext, Prompt
<1>2. CASE TaskEnds
  BY <1>2, PartSteps
<1>3. CASE WorldMoves
  BY <1>3, LookupMoves, FlickerMoves DEF WorldMoves
<1>4. CASE NodeReboots /\ UNCHANGED <<cmdvars, bt>>
  BY <1>4, RebootMoves
<1>5. CASE UNCHANGED vars
  BY <1>5, StutterMoves
<1> QED BY <1>1, <1>2, <1>3, <1>4, <1>5 DEF Next, Exited

(***************************************************************************)
(* The inductive invariant of a run of the command line (execute of        *)
(* cli/mod.rs and what it calls): at every step, whatever fails, moves or  *)
(* reboots, what is left to do is the end of one of the command's programs *)
(* and what was sent was sent by the steps before; a lookup, a batch or a  *)
(* rollout under way is the present step; and each of these three keeps    *)
(* the invariant of its own.  For any number of nodes, targets, moves and  *)
(* failures.                                                               *)
(***************************************************************************)
THEOREM CliInvariant == Spec => []CliInv
BY CliStarts, CliSteps, PTL DEF Spec

(***************************************************************************)
(* Refusals come before the first change: a command that refuses, for want *)
(* of --yes, by --secure, a lock, a severe risk or the guest's kind, has   *)
(* sent nothing (clone's cloud-init profile excepted), --secure spares the *)
(* cluster, and a batch never acts on a guest a policy keeps for a human.  *)
(***************************************************************************)
THEOREM CliRefusalsAreClean == Spec => []RefusalsAreClean
<1>1. CliInv => RefusalsAreClean
  <2> SUFFICES ASSUME CliInv PROVE RefusalsAreClean
    OBVIOUS
  <2>1. TypeOK /\ RefusedMeansUntouched /\ SecureSparesCluster /\ BatchInv
    BY DEF CliInv
  <2>2. PolicyHolds
    BY <2>1, BatchSafe
  <2> QED BY <2>1, <2>2 DEF RefusalsAreClean
<1> QED BY <1>1, CliInvariant, PTL

(***************************************************************************)
(* What a script reads is so: exit 0 of a command that waits means its     *)
(* task ended well and no part of its report failed; "not found" (exit 5)  *)
(* is said only of a guest that does not exist or moved meanwhile; a batch *)
(* reports every target, and its code and a rollout's code are true.       *)
(***************************************************************************)
THEOREM CliReportsAreTrue == Spec => []ReportsAreTrue
<1>1. CliInv => ReportsAreTrue
  <2> SUFFICES ASSUME CliInv PROVE ReportsAreTrue
    OBVIOUS
  <2>1. /\ LookupInv /\ BatchInv /\ PatchInv
        /\ out.waited /\ out.exit \in {Running, 0} => task = "ok"
        /\ out.exit = 0 => ~out.marked
    BY DEF CliInv
  <2>2. ZeroMeansDone
    BY <2>1 DEF ZeroMeansDone
  <2>3. NotFoundIsTrue
    BY <2>1 DEF LookupInv
  <2>4. EveryTargetReported /\ BatchExitIsTrue /\ PatchExitIsTrue
    BY <2>1, BatchSafe, PatchSafe
  <2> QED BY <2>2, <2>3, <2>4 DEF ReportsAreTrue
<1> QED BY <1>1, CliInvariant, PTL

(***************************************************************************)
(* Rollouts stop at trouble: none of the rest after a pilot that did not   *)
(* succeed, a wave with an error or a strict failure is touched; nodes are *)
(* patched one at a time, each on record before it is touched, and their   *)
(* reboots do not overlap unless a poll failed.                            *)
(***************************************************************************)
THEOREM CliRolloutsAreSafe == Spec => []RolloutsAreSafe
<1>1. CliInv => RolloutsAreSafe
  <2> SUFFICES ASSUME CliInv PROVE RolloutsAreSafe
    OBVIOUS
  <2>1. BatchInv /\ PatchInv
    BY DEF CliInv
  <2> QED BY <2>1, BatchSafe, PatchSafe DEF RolloutsAreSafe
<1> QED BY <1>1, CliInvariant, PTL
=============================================================================
