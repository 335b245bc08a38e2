------------------------------ MODULE CliTable ------------------------------
(***************************************************************************)
(* What each command of the command line does, as programs of a few kinds  *)
(* of step over the operations of Gateway.  A command is named after the   *)
(* gateway operation it is for, or by its own words when several commands  *)
(* share one operation.  A command whose flags or data choose between      *)
(* several sequences of calls has several programs.                        *)
(***************************************************************************)
EXTENDS Gateway, Sequences

Step(what, op) == [do |-> what, op |-> op]

Ask == Step("ask", "none")                \* require_yes
AskForced == Step("ask_forced", "none")   \* asked for only with --force
Check == Step("check", "none")            \* a refusal of the arguments
Config == Step("config", "none")          \* a section the profile must have
Support == Step("support", "none")        \* refuse, with 2, an unknown target
Listed == Step("listed", "none")          \* refuse, with 5, a guest not listed
Find == Step("find", "none")              \* find_guest
FindFull == Step("find_full", "none")     \* find_guest_full
Sweep == Step("sweep", "none")            \* ProxmoxGateway::find_guest
Qemu == Step("qemu", "none")              \* refuse a container
Lxc == Step("lxc", "none")                \* refuse a virtual machine
Risk == Step("risk", "none")              \* enforce_preflight
Call(op) == Step("call", op)              \* a failure ends the command
Tell(op) == Step("tell", op)              \* a failure is part of the report
Mark(op) == Step("mark", op)              \* ... and makes the command exit 1
Hush(op) == Step("hush", op)              \* a failure is dropped
FindTry == Step("find_try", "none")       \* find_guest; any failure exits 1
TryQemu(op) == Step("try_qemu", op)       \* only on a VM; any failure exits 1
TryLxc(op) == Step("try_lxc", op)         \* the same on a container
Await == Step("await", "none")            \* with --wait: exit 1 unless it ended OK
Follow == Step("follow", "none")          \* the same with --stream
Must == Step("must", "none")              \* wait, and stop unless it ended OK
Poll == Step("poll", "none")              \* wait, however it ended
Judge == Step("judge", "none")            \* exit 0 or 1, by what was found
Remote == Step("remote", "none")          \* ssh, PBS or an external program
Batch(op) == Step("batch", op)            \* one operation on many guests
Rollout(op) == Step("rollout", op)        \* the patching orchestrator

\* The commands that do one call each, between the same steps.
Form(ops, before, after) == [o \in ops |-> {before \o <<Call(o)>> \o after}]

Plain(ops) == Form(ops, <<>>, <<>>)

Checked(ops) == Form(ops, <<Check>>, <<>>)

Asked(ops) == Form(ops, <<Ask>>, <<>>)

\* A loop of the code: no round, one or two.
Rounds(body) == {<<>>, body, body \o body}

(***************************************************************************)
(* cli/firewall.rs                                                         *)
(***************************************************************************)
FirewallRules ==
  Plain({"list_cluster_firewall_rules", "list_node_firewall_rules"})
  @@ Form({"list_guest_firewall_rules"}, <<Find>>, <<>>)

FirewallCluster ==
  Plain({"list_cluster_firewall_aliases", "list_cluster_firewall_groups",
         "list_cluster_firewall_group_rules"})
  @@ Checked({"create_cluster_firewall_alias", "update_cluster_firewall_alias",
              "create_cluster_firewall_group"})
  @@ Asked({"delete_cluster_firewall_alias", "delete_cluster_firewall_group"})

FirewallIpsets ==
  Plain({"list_cluster_firewall_ipsets", "list_cluster_firewall_ipset_cidrs",
         "get_cluster_firewall_options"})
  @@ Checked({"create_cluster_firewall_ipset", "add_cluster_firewall_ipset_cidr",
              "update_cluster_firewall_options"})
  @@ Asked({"delete_cluster_firewall_ipset", "remove_cluster_firewall_ipset_cidr"})

FirewallGuest ==
  Form({"list_guest_firewall_aliases", "get_guest_firewall_options"},
       <<Find>>, <<>>)
  @@ Form({"create_guest_firewall_alias", "update_guest_firewall_alias",
           "update_guest_firewall_options"}, <<Find, Check>>, <<>>)
  @@ Form({"delete_guest_firewall_alias"}, <<Find, Ask>>, <<>>)

ClusterMapping ==
  Plain({"list_cluster_mapping_pci", "list_cluster_mapping_usb"})
  @@ Checked({"create_cluster_mapping_pci", "update_cluster_mapping_pci",
              "create_cluster_mapping_usb", "update_cluster_mapping_usb"})
  @@ Asked({"delete_cluster_mapping_pci", "delete_cluster_mapping_usb"})

(***************************************************************************)
(* cli/storage.rs.  A volume's delete may answer without a task; the PBS   *)
(* commands speak to another server than the gateway's.                    *)
(***************************************************************************)
Storage ==
  Form({"upload_to_storage"}, <<Check>>, <<Await>>)
  @@ Form({"delete_storage_content"}, <<Ask, Check>>, <<Await>>)

BackupJobs ==
  Plain({"list_backup_jobs", "get_backup_job", "cluster_backup_info",
         "extract_backup_config"})
  @@ Checked({"create_backup_job", "update_backup_job"})
  @@ Asked({"delete_backup_job"})

StorageDefs ==
  Plain({"list_cluster_storages", "get_cluster_storage"})
  @@ Checked({"create_cluster_storage", "update_cluster_storage"})
  @@ Asked({"delete_cluster_storage"})

Acme ==
  Plain({"list_acme_accounts", "get_acme_account", "list_acme_plugins",
         "get_acme_plugin", "get_acme_tos", "list_acme_directories",
         "get_acme_challenge_schema"})
  @@ Checked({"create_acme_account", "update_acme_account",
              "create_acme_plugin", "update_acme_plugin"})
  @@ Asked({"delete_acme_account", "delete_acme_plugin"})

Aplinfo == Plain({"list_node_aplinfo", "download_node_aplinfo"})

Pbs ==
  [c \in {"pbs ping", "pbs datastores", "pbs snapshots", "pbs files"} |->
     {<<Config, Remote>>}]
  @@ "pbs restore" :> {<<Config, Ask, Check, Remote, Judge>>}

Iso ==
  "iso list" :> {<<>>}
  @@ "iso download" :> {<<Check, Call("download_to_storage")>>}

(***************************************************************************)
(* cli/cluster.rs                                                          *)
(***************************************************************************)
Pool ==
  Plain({"list_pools", "get_pool", "create_pool"})
  @@ [c \in {"pool add-members", "pool remove-members"} |->
        {<<Check, Call("update_pool")>>}]
  @@ "pool set-comment" :> {<<Call("update_pool")>>}
  @@ Asked({"delete_pool"})

ClusterInfo ==
  Plain({"get_cluster_resources", "get_api_version", "get_cluster_options",
         "get_cluster_log"})
  @@ Checked({"update_cluster_options"})

ClusterBootstrap ==
  Plain({"list_cluster_corosync_nodes", "get_cluster_join_info",
         "get_cluster_qdevice", "get_cluster_totem"})
  @@ Checked({"add_cluster_corosync_node", "join_cluster",
              "setup_cluster_qdevice", "update_cluster_qdevice"})
  @@ Asked({"remove_cluster_corosync_node", "remove_cluster_qdevice"})

(***************************************************************************)
(* cli/node.rs.  The hosts file is read for its digest unless one is given *)
(* or --no-check says to write over whatever is there.                     *)
(***************************************************************************)
Node ==
  Plain({"startall_node", "get_node_termproxy", "get_node_vncshell",
         "get_node_spiceshell"})
  @@ Asked({"stopall_node", "suspendall_node"})

NodeSystem ==
  Plain({"get_node_dns", "update_node_dns", "get_node_hosts",
         "get_node_journal", "get_node_syslog", "get_node_time",
         "update_node_timezone", "wakeonlan_node", "get_node_subscription",
         "set_node_subscription_key", "refresh_node_subscription",
         "get_node_certificates_info", "upload_node_custom_certificate",
         "order_node_acme_certificate", "get_node_report"})
  @@ Asked({"delete_node_subscription", "delete_node_custom_certificate"})
  @@ "hosts set" :>
       {read \o <<Call("update_node_hosts")>> :
          read \in {<<>>, <<Call("get_node_hosts")>>}}

Hardware ==
  Plain({"list_pci", "list_usb"})
  @@ "hw conflicts" :>
       {<<Call("list_pci"), Call("get_all_guests")>> \o r \o <<Judge>> :
          r \in Rounds(<<Call("get_guest_config")>>)}

(***************************************************************************)
(* cli/access.rs                                                           *)
(***************************************************************************)
Access ==
  Plain({"list_acl", "list_users", "list_groups", "list_roles", "list_realms",
         "list_tfa", "create_user", "update_user", "create_group",
         "get_access_permissions", "change_user_password"})
  @@ Asked({"delete_user", "delete_group"})
  @@ "acl set" :> {<<Check, Call("modify_acl")>>}
  @@ "acl unset" :> {<<Ask, Check, Call("modify_acl")>>}

Token ==
  Plain({"list_user_tokens", "create_token"}) @@ Asked({"revoke_token"})

Perms == "perms" :> {<<Check, Remote, Call("get_user")>>}

(***************************************************************************)
(* cli/monitoring.rs.  `alerts watch` is AlertWatch.                       *)
(***************************************************************************)
AlertsOnce ==
  "alerts eval" :>
    {<<>>} \cup
    {<<Call("get_nodes")>> \o r :
       r \in Rounds(<<Call("get_storage_pools"), Call("list_replication_status")>>)}
  @@ "alerts test" :> {<<Check, Remote>>}

Metrics ==
  Form({"get_guest_rrd_image"}, <<Find>>, <<>>)
  @@ Checked({"get_node_rrddata", "get_storage_rrddata"})
  @@ "metrics guest" :>
       {f \o <<Call("get_guest_rrddata")>> : f \in {<<Check>>, <<Check, Find>>}}

MetricServers ==
  Plain({"list_metric_servers", "get_metric_server"})
  @@ Checked({"create_metric_server", "update_metric_server"})
  @@ Asked({"delete_metric_server"})

Notifications ==
  Plain({"list_notification_endpoints", "list_notification_matchers",
         "list_notification_targets"})
  @@ Checked({"create_notification_endpoint", "update_notification_endpoint",
              "create_notification_matcher", "update_notification_matcher"})
  @@ Asked({"delete_notification_endpoint", "delete_notification_matcher"})

Disks ==
  Plain({"list_node_disks", "get_disk_smart", "list_node_lvm",
         "list_node_lvmthin", "list_node_zfs"})

Ha ==
  Plain({"list_ha_groups", "list_ha_groups_legacy", "create_ha_group",
         "list_ha_resources", "ha_manager_status", "get_ha_status_current"})
  @@ Checked({"update_ha_group"})
  @@ Asked({"delete_ha_group"})
  @@ "ha preview" :>
       {<<Call("list_ha_groups"), Call("list_ha_resources"),
          Call("cluster_status"), Call("get_all_guests")>>}

Replication == Plain({"list_replication_jobs", "list_replication_status"})

(***************************************************************************)
(* cli/vm.rs and cli/ct.rs.  A change of the configuration is followed by  *)
(* a look at what is pending, whose failure is part of the report.         *)
(***************************************************************************)
Reconfigure == <<Call("update_guest_config"), Tell("list_pending_config")>>

Created(create) == {v \o <<Call(create), Await>> : v \in {<<>>, <<Call("get_next_vmid")>>}}

Vm ==
  "vm set" :> {<<Check, Find, Qemu>> \o Reconfigure}
  @@ "vm raw-set" :> {<<Find, Qemu, Check>> \o Reconfigure}
  @@ Form({"send_qemu_key", "dump_qemu_cloudinit"}, <<Find, Qemu>>, <<>>)
  @@ "vm unlink" :> {<<Find, Qemu, AskForced, Call("unlink_qemu_disk")>>}
  @@ "vm create" :> Created("create_qemu")

Cloudinit ==
  "cloudinit set" :> {<<Check, Find, Qemu>> \o Reconfigure}
  @@ "cloudinit regen" :> {<<Find, Qemu, Call("regenerate_cloudinit")>>}

\* Mutant: the disk is resized before its risks are weighed
DiskRiskLate ==
  Form({"move_disk"}, <<Ask, FindFull, Risk>>, <<Await>>)
  @@ "disk resize" :> {<<Ask, FindFull, Call("resize_disk"), Risk>>}

Disk ==
  Form({"move_disk"}, <<Ask, FindFull, Risk>>, <<Await>>)
  @@ "disk resize" :> {<<Ask, FindFull, Risk, Call("resize_disk")>>}

Snapshot == Form({"create_snapshot", "delete_snapshot"}, <<Find>>, <<>>)

Qga ==
  Form({"qemu_agent_file_read", "qemu_agent_file_write",
        "qemu_agent_network_get_interfaces"}, <<Find, Qemu>>, <<>>)

Ct ==
  "ct set" :> {<<Check, Find, Lxc>> \o Reconfigure}
  @@ "ct raw-set" :> {<<Find, Lxc, Check>> \o Reconfigure}
  @@ Form({"list_lxc_interfaces"}, <<Find, Lxc>>, <<>>)
  @@ "ct create" :> Created("create_lxc")

\* apply_cloudinit_and_regen, after a clone that has been waited for
ApplyCloudinit ==
  {<<Qemu, Check>>,
   <<Qemu, Check, Call("update_guest_config"), Call("regenerate_cloudinit")>>}

Clone ==
  "clone" :>
    {<<Find>> \o v \o c :
       v \in {<<>>, <<Call("next_free_vmid")>>},
       c \in {<<Call("clone_guest")>>}
             \cup {<<Check, Call("clone_guest"), Must>> \o a : a \in ApplyCloudinit}}

(***************************************************************************)
(* cli/mod.rs: the commands with no module of their own.                   *)
(***************************************************************************)
Lists ==
  Plain({"get_cluster_tasks", "list_node_tasks", "query_url_metadata",
         "list_node_network"})
  @@ "ls" :> {<<Call(o)>> : o \in {"get_nodes", "get_all_guests",
                                   "get_all_storage_pools_and_skipped"}}
             \cup {<<Check>>}
  @@ "find" :> {<<Check, Sweep>>}
  @@ "search" :> {<<Call("get_nodes"), Call("get_all_guests"),
                    Call("get_all_storage_pools")>>}

OneGuest ==
  Form({"get_guest_config", "get_guest_feature"}, <<Find>>, <<>>)
  @@ Form({"execute_guest_command"}, <<Find>>, <<Judge>>)
  @@ "template" :> {<<Ask, Find, Call("convert_to_template")>>}

Migrate == Form({"migrate_guest"}, <<Ask, FindFull, Check, Risk>>, <<Follow, Await>>)

Backup ==
  "backup" :> {f \o <<Check, Call("create_backup"), Await>> :
                 f \in {<<Find>>, <<Find, Find>>}}

StopTask == Asked({"stop_node_task"})

Powered ==
  [o \in {"start_guest", "suspend_guest", "resume_guest"} |-> {<<Check, Batch(o)>>}]
  @@ [o \in {"stop_guest", "shutdown_guest", "restart_guest"} |->
        {<<FindFull, Risk, Check, Batch(o)>>,
         <<FindFull, Risk, FindFull, Risk, Check, Batch(o)>>}]

DeleteGuests ==
  "delete_guest" :>
    {<<Ask, FindFull, Risk, Batch("delete_guest")>>,
     <<Ask, FindFull, Risk, FindFull, Risk, Batch("delete_guest")>>}

(***************************************************************************)
(* The commands of one file each.                                          *)
(***************************************************************************)
CloudImg ==
  "cloud-img list" :> {<<>>}
  @@ "cloud-img download" :> {<<Check, Call("download_to_storage")>>}

Provision ==
  "cloud-img provision" :>
    {<<Check>> \o v \o d \o <<Call("create_qemu"), Must>> \o r \o e :
       v \in {<<>>, <<Call("get_next_vmid")>>},
       d \in {<<>>, <<Call("download_to_storage"), Must>>},
       r \in {<<>>, <<Call("resize_disk"), Poll>>},
       e \in {<<>>, <<Call("start_guest"), Poll>>, <<Call("convert_to_template")>>}}

Describe ==
  "describe" :>
    {<<Tell("get_api_version"), Call("get_nodes"), Call("get_all_guests")>> \o p \o i :
       p \in Rounds(<<Call("get_storage_pools")>>),
       i \in {<<>>, <<Tell("get_cluster_tasks")>>,
              <<Tell("list_pools"), Tell("list_users")>>}}

Anomaly ==
  "anomaly" :> {<<Call("get_nodes")>> \o r \o <<Judge>> :
                  r \in Rounds(<<Mark("get_node_rrddata")>>)}

Heatmap ==
  "heatmap" :> {<<Call("get_nodes")>> \o r \o <<Judge>> :
                  r \in Rounds(<<Mark("get_node_time")>>)}

Accounting ==
  "accounting" :>
    {<<Call("get_all_guests")>> \o p \o g :
       p \in {<<>>, <<Hush("list_pools"), Hush("get_pool")>>},
       g \in Rounds(<<Tell("get_guest_rrddata")>>)}

UpgradeCheck ==
  "upgrade-check" :> {<<Check, Support, Call("get_nodes")>> \o r \o <<Judge>> :
                        r \in Rounds(<<Mark("get_node_version")>>)}

BackupVerify ==
  "backup verify" :>
    {<<Call("get_nodes")>> \o r \o <<Judge>> :
       r \in Rounds(<<Mark("get_guests"), Mark("get_storage_pools"),
                      Mark("list_storage_content")>>)}

GpuInspect == "gpu-inspect" :> {<<Check, Remote, Judge>>}

Consoles ==
  Form({"get_spiceproxy"}, <<>>, <<Remote>>)
  @@ "novnc" :> {<<>>, <<Call("get_guests"), Check>>}
  @@ "serial" :> {g \o <<Call("get_termproxy"), Remote, Judge>> :
                    g \in {<<>>, <<Call("get_guests"), Check>>}}
  @@ "vnc" :> {g \o <<Call("get_guest_vncproxy")>> :
                 g \in {<<Find>>, <<Call("get_guests"), Listed>>}}

Ssh ==
  "ssh" :>
    {<<Check>> \o d \o <<Check, Remote, Judge>> :
       d \in {<<>>, <<FindTry, TryQemu("qemu_agent_network_get_interfaces"),
                      TryLxc("list_lxc_interfaces"), Check>>}}

Logs ==
  "logs" :> {<<Check>> \o n \o <<Remote, Judge>> : n \in {<<>>, <<Call("get_nodes"), Check>>}}

\* cli/patch.rs.  A changelog of an unknown package answers 200 all the same.
Patch ==
  Plain({"node_apt_repositories", "node_apt_versions"})
  @@ Form({"node_apt_changelog"}, <<>>, <<Listed, Check>>)
  @@ "patch plan" :> {<<Rollout("plan")>>}
  @@ "patch apply" :> {<<Check, Rollout("apply")>>}

Programs ==
  FirewallRules @@ FirewallCluster @@ FirewallIpsets @@ FirewallGuest
  @@ ClusterMapping @@ Storage @@ BackupJobs @@ StorageDefs @@ Acme @@ Aplinfo
  @@ Pbs @@ Iso @@ Pool @@ ClusterInfo @@ ClusterBootstrap @@ Node
  @@ NodeSystem @@ Hardware @@ Access @@ Token @@ Perms @@ AlertsOnce
  @@ Metrics @@ MetricServers @@ Notifications @@ Disks @@ Ha @@ Replication
  @@ Vm @@ Cloudinit @@ Disk @@ Snapshot @@ Qga @@ Ct @@ Clone @@ Lists
  @@ OneGuest @@ Migrate @@ Backup @@ StopTask @@ Powered @@ DeleteGuests
  @@ CloudImg @@ Provision @@ Describe @@ Anomaly @@ Heatmap @@ Accounting
  @@ UpgradeCheck @@ BackupVerify @@ GpuInspect @@ Consoles @@ Ssh @@ Logs
  @@ Patch
=============================================================================
