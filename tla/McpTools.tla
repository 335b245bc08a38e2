------------------------------ MODULE McpTools ------------------------------
(***************************************************************************)
(* The registry of the MCP server (mcp/tools.rs): the tools, the           *)
(* parameters each needs and takes, and what each does, as programs over   *)
(* the operations of Gateway in the steps of CliTable.  The programs of    *)
(* destructive tools are the exec_* functions of mcp/dispatch.rs, which    *)
(* the HITL daemon runs once a request is approved.                        *)
(***************************************************************************)
EXTENDS CliTable, Integers

Tool(needs, takes, destructive) ==
  [needs |-> needs, takes |-> takes, destructive |-> destructive]

Reads(needs, takes) == Tool(needs, takes, FALSE)

Asks(needs, takes) == Tool(needs, takes, TRUE)

ListTools ==
  "list_nodes" :> Reads({}, {"profile"})
  @@ "list_guests" :> Reads({}, {"profile", "node"})

GuestTools ==
  "get_guest_status" :> Reads({"guest_id"}, {})
  @@ "start_guest" :> Reads({"guest_id"}, {})

PowerTools ==
  "stop_guest" :> Asks({"guest_id"}, {"force"})
  @@ "restart_guest" :> Asks({"guest_id"}, {})
  @@ "delete_guest" :> Asks({"guest_id"}, {})

SnapshotTools ==
  "create_snapshot" :> Asks({"guest_id", "name"}, {})
  @@ "delete_snapshot" :> Asks({"guest_id", "name"}, {})

NodeTools ==
  "get_storage_pools" :> Reads({"node"}, {})
  @@ "list_snapshots" :> Reads({"guest_id"}, {})
  @@ "get_task_log" :> Reads({"node", "upid"}, {})
  @@ "get_node_resources" :> Reads({"node"}, {})

MoveTools ==
  "suspend_guest" :> Asks({"guest_id"}, {})
  @@ "resume_guest" :> Reads({"guest_id"}, {})
  @@ "clone_guest" :> Asks({"guest_id"}, {"newid", "name", "full"})
  @@ "migrate_guest" :> Asks({"guest_id", "target_node"}, {"online"})

ClusterTools ==
  "get_cluster_status" :> Reads({}, {})
  @@ "list_tasks" :> Reads({}, {"node"})
  @@ "get_node_status" :> Reads({"node"}, {})
  @@ "list_backup_jobs" :> Reads({}, {})
  @@ "get_replication_status" :> Reads({"node"}, {})

CreateTools ==
  "create_guest" :> Asks({"node", "type"},
    {"vmid", "name", "memory", "cores", "storage", "disk_size", "template",
     "iso", "bridge"})

OtherTools ==
  "list_cluster_events" :> Reads({}, {"limit", "running_only"})
  @@ "clone_with_cloudinit" :> Asks({"guest_id"},
       {"newid", "name", "full", "ciuser", "sshkey", "ipconfig0",
        "searchdomain", "nameserver"})

TOOLS ==
  ListTools @@ GuestTools @@ PowerTools @@ SnapshotTools @@ NodeTools
  @@ MoveTools @@ ClusterTools @@ CreateTools @@ OtherTools

Destructive == {t \in DOMAIN TOOLS : TOOLS[t].destructive}

(***************************************************************************)
(* What each does.  The tools that are not destructive are run by the      *)
(* server; the guest is found by the sweep of every node.                  *)
(***************************************************************************)
One(op) == {<<Call(op)>>}

OnGuest(op) == {<<Sweep, Call(op)>>}

GuestArms ==
  "list_nodes" :> One("get_nodes")
  @@ "list_guests" :> One("get_guests") \cup One("get_all_guests")
  @@ "get_guest_status" :> OnGuest("get_guest_status")
  @@ "start_guest" :> OnGuest("start_guest")
  @@ "list_snapshots" :> OnGuest("list_snapshots")
  @@ "get_node_resources" :> {<<Call("get_nodes"), Check>>}
  @@ "get_storage_pools" :> One("get_storage_pools")
  @@ "get_task_log" :> One("get_task_log")
  @@ "resume_guest" :> OnGuest("resume_guest")

ClusterArms ==
  "get_cluster_status" :> One("cluster_status")
  @@ "list_tasks" :> One("get_cluster_tasks")
  @@ "get_node_status" :> One("node_status_detail")
  @@ "list_backup_jobs" :> One("list_backup_jobs")
  @@ "get_replication_status" :> One("list_replication_status")
  @@ "list_cluster_events" :> One("get_cluster_tasks")

exec_power ==
  "stop_guest" :> One("stop_guest") \cup One("shutdown_guest")
  @@ "restart_guest" :> One("restart_guest")
  @@ "delete_guest" :> One("delete_guest")
  @@ "create_snapshot" :> One("create_snapshot")
  @@ "delete_snapshot" :> One("delete_snapshot")
  @@ "suspend_guest" :> One("suspend_guest")

\* Without --newid the next free number is asked for first.
NewId == {<<>>, <<Call("next_free_vmid")>>}

exec_move ==
  "clone_guest" :> {free \o <<Call("clone_guest")>> : free \in NewId}
  @@ "migrate_guest" :> One("migrate_guest")

exec_create_guest ==
  {<<Check>> \o free \o make :
     free \in {<<>>, <<Call("get_next_vmid")>>},
     make \in {<<Check, Call("create_lxc")>>, <<Call("create_qemu")>>}}

exec_clone_with_cloudinit ==
  {<<Qemu>> \o free \o <<Call("clone_guest"), Must>> \o apply :
     free \in NewId, apply \in ApplyCloudinit}

programs ==
  GuestArms @@ ClusterArms @@ exec_power @@ exec_move
  @@ "create_guest" :> exec_create_guest
  @@ "clone_with_cloudinit" :> exec_clone_with_cloudinit

(***************************************************************************)
(* The check of the arguments: every needed one is there, and each given   *)
(* one is of its type and shape; an integer must fit in 32 bits, because   *)
(* every use narrows it.  Width is that limit.                             *)
(***************************************************************************)
CONSTANT Width

ASSUME WidthAssumption == Width \in Nat \ {0}

Narrow(n) == n % Width

\* Mutant: any number will do (it is narrowed by its user)
AcceptsAnyNumber(tool, given, bad, n) ==
  /\ TOOLS[tool].needs \subseteq given
  /\ bad = {}

Accepts(tool, given, bad, n) ==
  /\ TOOLS[tool].needs \subseteq given
  /\ bad = {}
  /\ n \in 0..(Width - 1)

(***************************************************************************)
(* What a call may be given: all or only the needed parameters, or one of  *)
(* those missing; at most one is malformed.                                *)
(***************************************************************************)
Givings(tool) ==
  LET t == TOOLS[tool]
  IN  {t.needs, t.needs \cup t.takes} \cup {t.needs \ {p} : p \in t.needs}

\* A program's requests that change something.
Writes(program) ==
  {program[i].op : i \in {j \in DOMAIN program :
     program[j].do = "call" /\ Verb[program[j].op] # "GET"}}

\* The steps of the programs.
Steps == UNION {{p[i] : i \in DOMAIN p} : p \in UNION {programs[t] : t \in DOMAIN TOOLS}}

(***************************************************************************)
(* Every tool has its arm.  Only two writes are made without asking anyone *)
(* and they create and destroy nothing: start and resume.  Every program   *)
(* of a destructive tool writes, and no other program does.                *)
(***************************************************************************)
ASSUME OnlyPowerOnIsInline ==
  /\ UNION {Writes(p) : p \in UNION {programs[t] : t \in DOMAIN TOOLS \ Destructive}}
       = {"start_guest", "resume_guest"}
  /\ DOMAIN programs = DOMAIN TOOLS
  /\ \A t \in Destructive : \A p \in programs[t] : Writes(p) # {}

\* A program is a sequence of those steps.
ASSUME ProgramsAreSteps ==
  \A t \in DOMAIN TOOLS : \A p \in programs[t] : p \in Seq(Steps)
=============================================================================
