----------------------------- MODULE Preflight -----------------------------
(***************************************************************************)
(* The risks weighed before an operation (app/preflight.rs).  assess reads *)
(* the guest as it was listed; assess_deep_with adds what the node, the    *)
(* backup storages and the guest agent say, and goes on without what it    *)
(* could not ask.  A risk of level Severe stops the command (exit 6).      *)
(***************************************************************************)
EXTENDS Naturals

GradedOp == {"delete", "stop", "restart", "migrate", "move-disk", "resize-disk"}

Notice == 1
Warning == 2
Severe == 3

(***************************************************************************)
(* A guest as the list has it: the facts assess looks at.  `long` stands   *)
(* for LONG_UPTIME_DAYS, `prod` for a tag equal to one of                  *)
(* PROD_TAG_NEEDLES, `busy` for more than ACTIVE_NET_THRESHOLD_BPS.        *)
(***************************************************************************)
Listing ==
  [lxc : BOOLEAN, lock : BOOLEAN, ha : BOOLEAN, running : BOOLEAN,
   long : BOOLEAN, prod : BOOLEAN, busy : BOOLEAN]

\* The named risk, when it applies.
RiskIf(applies, name, level) == IF applies THEN {<<name, level>>} ELSE {}

assess(op, g) ==
  RiskIf(g.lock, "Locked", Severe)
  \cup RiskIf(g.ha, "HaManaged", IF op \in {"stop", "delete"} THEN Severe ELSE Warning)
  \cup RiskIf(g.running, "Running", IF op = "delete" THEN Severe ELSE Warning)
  \cup RiskIf(g.long, "LongUptime", Notice)
  \cup RiskIf(g.prod, "TaggedProd", Warning)
  \cup RiskIf(g.running /\ g.busy, "ActiveNetTraffic", Warning)

(***************************************************************************)
(* The newest backup of the guest over the stores of a server.  A store    *)
(* holds the age of its newest backup, or none, or cannot be read and is   *)
(* left out; the server itself may not answer.                             *)
(***************************************************************************)
NoBackup == 99

NoAnswer == 100

Younger(a, b) == IF a < b THEN a ELSE b

\* Over two stores, or no answer.
NewestOf(stores) ==
  LET age(s) == IF s = NoAnswer THEN NoBackup ELSE s
  IN  IF stores = <<>> THEN NoAnswer ELSE Younger(age(stores[1]), age(stores[2]))

\* The stores of the guest's node that take backups, and the datastores of PBS.
find_recent_backup(stores) == NewestOf(stores)

find_recent_pbs_backup(stores) == NewestOf(stores)

combine_backup_age(a, b) == Younger(a, b)

STALE == 24

BackupRisks(pve, pbs) ==
  LET known == {a \in {pve, pbs} : a # NoAnswer}
      lost == NoAnswer \in {pve, pbs}
      age == IF known = {} THEN NoBackup
             ELSE IF lost THEN CHOOSE a \in known : TRUE ELSE combine_backup_age(pve, pbs)
  IN  RiskIf(age # NoBackup /\ age > STALE, "BackupAgeWarning", Warning)
      \cup RiskIf(age = NoBackup /\ ~lost, "NoBackupFound", Notice)
      \cup RiskIf(lost, "DeepCheckSkipped", Notice)

(***************************************************************************)
(* What the deep checks may find: the snapshots (few, many, no answer),    *)
(* the backup stores of both servers (a profile without PBS has empty      *)
(* ones), and what the guest listens on (a service, nothing known, no      *)
(* answer).                                                                *)
(***************************************************************************)
Stores == {<<>>} \cup ({1, 48, NoBackup, NoAnswer} \X {1, 48, NoBackup, NoAnswer})

Findings ==
  [snaps : {"few", "many", "fail"}, pve : Stores, pbs : Stores,
   ports : {"service", "quiet", "fail"}]

PortRisks(g, f) ==
  CASE ~g.running -> {}
    [] g.running /\ (g.lxc \/ f.ports = "fail") -> {<<"DeepCheckSkipped", Notice>>}
    [] OTHER -> RiskIf(f.ports = "service", "ListeningOnService", Warning)

assess_deep(op, g, f) ==
  assess(op, g) \cup PortRisks(g, f)
  \cup IF op # "delete" THEN {}
       ELSE RiskIf(f.snaps = "many", "HasManySnapshots", Warning)
            \cup BackupRisks(find_recent_backup(f.pve), find_recent_pbs_backup(f.pbs))

max_level(risks) ==
  CHOOSE l \in Notice..Severe :
    /\ l = Notice \/ \E r \in risks : r[2] = l
    /\ \A r \in risks : r[2] <= l

(***************************************************************************)
(* What the deep checks find or fail to find never blocks an operation and *)
(* never unblocks one.  A guest is said to have no backup only when both   *)
(* servers were asked; a store that could not be read is not said (the     *)
(* scans skip it), so an old backup may be reported for a fresh one, but   *)
(* never the other way round.                                              *)
(***************************************************************************)
BackupAges(f) ==
  LET stores == {s \in {f.pve, f.pbs} : s # <<>>}
  IN  {a \in UNION {{s[1], s[2]} : s \in stores} : a \notin {NoBackup, NoAnswer}}

ASSUME DeepIsAdvice ==
  \A op \in GradedOp, g \in [lxc : {FALSE}, lock : BOOLEAN, ha : BOOLEAN, running : BOOLEAN,
                       long : {FALSE}, prod : BOOLEAN, busy : {FALSE}] :
    \A f \in Findings :
      (max_level(assess_deep(op, g, f)) = Severe) <=> (max_level(assess(op, g)) = Severe)

ASSUME BackupsAreNotInvented ==
  \A f \in Findings :
    LET r == assess_deep("delete", [l \in {"lxc", "lock", "ha", "running", "long",
                                           "prod", "busy"} |-> FALSE], f)
    IN  /\ <<"NoBackupFound", Notice>> \in r => BackupAges(f) = {}
        /\ <<"BackupAgeWarning", Warning>> \in r => \A a \in BackupAges(f) : a > STALE
=============================================================================
