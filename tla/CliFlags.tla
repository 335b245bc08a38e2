------------------------------ MODULE CliFlags ------------------------------
(***************************************************************************)
(* The command line's grammar: the subcommands clap accepts and, of their  *)
(* arguments, the flags that change what a command may do (--yes, --wait,  *)
(* --stream, --force, --allow-risk, --strict, --policy); and the action    *)
(* under which --secure classifies each command.                           *)
(***************************************************************************)
EXTENDS CliTable

\* Commands that take the given flags.
With(taken, cmds) == [c \in cmds |-> taken]

Bare(cmds) == With({}, cmds)

FirewallArgs ==
  Bare({"list_cluster_firewall_rules", "list_node_firewall_rules",
        "list_guest_firewall_rules", "list_cluster_firewall_aliases",
        "create_cluster_firewall_alias", "update_cluster_firewall_alias",
        "list_cluster_firewall_groups", "create_cluster_firewall_group",
        "list_cluster_firewall_group_rules"})
  @@ With({"yes"}, {"delete_cluster_firewall_alias",
                    "delete_cluster_firewall_group"})

FirewallIpsetArgs ==
  Bare({"list_cluster_firewall_ipsets", "create_cluster_firewall_ipset",
        "list_cluster_firewall_ipset_cidrs", "add_cluster_firewall_ipset_cidr",
        "get_cluster_firewall_options", "update_cluster_firewall_options"})
  @@ With({"yes"}, {"delete_cluster_firewall_ipset",
                    "remove_cluster_firewall_ipset_cidr"})

FirewallGuestArgs ==
  Bare({"list_guest_firewall_aliases", "create_guest_firewall_alias",
        "update_guest_firewall_alias", "get_guest_firewall_options",
        "update_guest_firewall_options"})
  @@ With({"yes"}, {"delete_guest_firewall_alias"})

ClusterMappingArgs ==
  Bare({"list_cluster_mapping_pci", "create_cluster_mapping_pci",
        "update_cluster_mapping_pci", "list_cluster_mapping_usb",
        "create_cluster_mapping_usb", "update_cluster_mapping_usb"})
  @@ With({"yes"}, {"delete_cluster_mapping_pci", "delete_cluster_mapping_usb"})

StorageArgs ==
  With({"wait"}, {"upload_to_storage"})
  @@ With({"yes", "wait"}, {"delete_storage_content"})

BackupJobsArgs ==
  Bare({"list_backup_jobs", "get_backup_job", "create_backup_job",
        "update_backup_job", "cluster_backup_info", "extract_backup_config"})
  @@ With({"yes"}, {"delete_backup_job"})

StorageDefsArgs ==
  Bare({"list_cluster_storages", "get_cluster_storage", "create_cluster_storage",
        "update_cluster_storage"})
  @@ With({"yes"}, {"delete_cluster_storage"})

AcmeArgs ==
  Bare({"list_acme_accounts", "get_acme_account", "create_acme_account",
        "update_acme_account", "list_acme_plugins", "get_acme_plugin",
        "create_acme_plugin", "update_acme_plugin", "get_acme_tos",
        "list_acme_directories", "get_acme_challenge_schema"})
  @@ With({"yes"}, {"delete_acme_account", "delete_acme_plugin"})

StorageOtherArgs ==
  Bare({"list_node_aplinfo", "download_node_aplinfo", "pbs ping",
        "pbs datastores", "pbs snapshots", "pbs files", "iso list",
        "iso download"})
  @@ With({"yes"}, {"pbs restore"})

ClusterArgs ==
  Bare({"list_pools", "get_pool", "create_pool", "pool add-members",
        "pool remove-members", "pool set-comment", "get_cluster_options",
        "update_cluster_options"})
  @@ With({"yes"}, {"delete_pool"})

ClusterBootstrapArgs ==
  Bare({"list_cluster_corosync_nodes", "add_cluster_corosync_node",
        "get_cluster_join_info", "join_cluster", "get_cluster_qdevice",
        "setup_cluster_qdevice", "update_cluster_qdevice", "get_cluster_totem"})
  @@ With({"yes"}, {"remove_cluster_corosync_node", "remove_cluster_qdevice"})

NodeArgs ==
  Bare({"startall_node", "get_node_termproxy", "get_node_vncshell",
        "get_node_spiceshell"})
  @@ With({"yes"}, {"stopall_node", "suspendall_node"})

NodeSystemArgs ==
  Bare({"get_node_dns", "update_node_dns", "get_node_hosts", "hosts set",
        "get_node_journal", "get_node_syslog", "get_node_time",
        "update_node_timezone", "wakeonlan_node", "get_node_report"})

NodeSubscriptionArgs ==
  Bare({"get_node_subscription", "set_node_subscription_key",
        "refresh_node_subscription", "get_node_certificates_info",
        "upload_node_custom_certificate", "order_node_acme_certificate",
        "list_pci", "list_usb", "hw conflicts"})
  @@ With({"yes"}, {"delete_node_subscription", "delete_node_custom_certificate"})

AccessArgs ==
  Bare({"list_acl", "list_users", "list_groups", "list_roles", "list_realms",
        "list_tfa", "create_user", "update_user", "create_group", "acl set",
        "get_access_permissions", "change_user_password"})
  @@ With({"yes"}, {"delete_user", "delete_group", "acl unset"})

TokenArgs ==
  Bare({"list_user_tokens", "create_token"}) @@ With({"yes"}, {"revoke_token"})

MetricsArgs ==
  Bare({"alerts eval", "alerts test", "metrics guest", "get_node_rrddata",
        "get_storage_rrddata", "get_guest_rrd_image"})

MetricServersArgs ==
  Bare({"list_metric_servers", "get_metric_server", "create_metric_server",
        "update_metric_server"})
  @@ With({"yes"}, {"delete_metric_server"})

NotificationsArgs ==
  Bare({"list_notification_endpoints", "create_notification_endpoint",
        "update_notification_endpoint", "list_notification_matchers",
        "create_notification_matcher", "update_notification_matcher",
        "list_notification_targets"})
  @@ With({"yes"}, {"delete_notification_endpoint", "delete_notification_matcher"})

HaArgs ==
  Bare({"list_node_disks", "get_disk_smart", "list_node_lvm",
        "list_node_lvmthin", "list_node_zfs", "list_ha_groups",
        "list_ha_groups_legacy", "create_ha_group", "update_ha_group",
        "list_ha_resources", "ha_manager_status", "get_ha_status_current",
        "ha preview", "list_replication_jobs", "list_replication_status"})
  @@ With({"yes"}, {"delete_ha_group"})

VmArgs ==
  Bare({"vm set", "vm raw-set", "send_qemu_key", "dump_qemu_cloudinit"})
  @@ With({"yes", "force"}, {"vm unlink"})
  @@ With({"wait"}, {"vm create"})

GuestArgs ==
  Bare({"cloudinit set", "cloudinit regen", "qemu_agent_file_read",
        "qemu_agent_file_write", "qemu_agent_network_get_interfaces",
        "create_snapshot", "delete_snapshot"})
  @@ With({"yes", "allow_risk", "wait"}, {"move_disk"})
  @@ With({"yes", "allow_risk"}, {"disk resize"})

CtArgs ==
  Bare({"ct set", "ct raw-set", "list_lxc_interfaces"}) @@ With({"wait"}, {"ct create"})

PowerArgs ==
  Bare({"ls", "find"})
  @@ With({"strict", "policy"}, {"start_guest", "suspend_guest", "resume_guest"})
  @@ With({"strict", "policy", "allow_risk"},
          {"stop_guest", "shutdown_guest", "restart_guest"})
  @@ With({"yes", "strict", "allow_risk"}, {"delete_guest"})

MigrateArgs ==
  Bare({"execute_guest_command", "get_guest_config", "get_cluster_tasks",
        "list_node_tasks", "logs", "describe", "cloud-img list",
        "cloud-img download", "cloud-img provision"})
  @@ With({"yes", "allow_risk", "wait", "stream"}, {"migrate_guest"})

ReportArgs ==
  Bare({"upgrade-check", "accounting", "heatmap", "anomaly", "backup verify",
        "gpu-inspect", "get_guest_feature", "query_url_metadata", "clone",
        "search"})
  @@ With({"yes"}, {"stop_node_task", "template"})
  @@ With({"wait"}, {"backup"})

PatchArgs ==
  Bare({"patch plan", "node_apt_repositories", "node_apt_changelog",
        "node_apt_versions"})
  @@ With({"dry_run"}, {"patch apply"})

ConsoleArgs ==
  Bare({"get_cluster_resources", "get_api_version", "get_cluster_log",
        "get_spiceproxy", "novnc", "serial", "vnc", "ssh", "perms",
        "list_node_network"})

Flags ==
  FirewallArgs @@ FirewallIpsetArgs @@ FirewallGuestArgs @@ ClusterMappingArgs
  @@ StorageArgs @@ BackupJobsArgs @@ StorageDefsArgs @@ AcmeArgs
  @@ StorageOtherArgs @@ ClusterArgs @@ ClusterBootstrapArgs @@ NodeArgs
  @@ NodeSystemArgs @@ NodeSubscriptionArgs @@ AccessArgs @@ TokenArgs
  @@ MetricsArgs @@ MetricServersArgs @@ NotificationsArgs @@ HaArgs @@ VmArgs
  @@ GuestArgs @@ CtArgs @@ PowerArgs @@ MigrateArgs @@ ReportArgs @@ ConsoleArgs
  @@ PatchArgs

(***************************************************************************)
(* cli_hitl_action.  A command that is not named here has no action; ssh   *)
(* has one only with --cmd, backup only in the modes that stop or suspend  *)
(* the guest.                                                              *)
(***************************************************************************)
GuestActions ==
  [start_guest |-> "start", create_snapshot |-> "snapshot",
   stop_guest |-> "stop", shutdown_guest |-> "stop", restart_guest |-> "restart",
   delete_guest |-> "delete", suspend_guest |-> "suspend",
   migrate_guest |-> "migrate", execute_guest_command |-> "exec",
   template |-> "template", stop_node_task |-> "task_stop",
   delete_snapshot |-> "snapshot_delete", move_disk |-> "move_disk",
   qemu_agent_file_write |-> "qga_write", send_qemu_key |-> "vm_sendkey"]
  @@ "backup" :> "backup_stop" @@ "disk resize" :> "resize_disk"
  @@ "patch apply" :> "patch_apply" @@ "ssh" :> "ssh_cmd" @@ "vm raw-set" :> "vm_raw_set"
  @@ "vm unlink" :> "vm_unlink" @@ "ct raw-set" :> "ct_raw_set"

ClusterActions ==
  [stopall_node |-> "node_stopall", suspendall_node |-> "node_suspendall",
   delete_node_subscription |-> "node_subscription_delete",
   delete_node_custom_certificate |-> "node_cert_delete",
   delete_ha_group |-> "ha_group_delete",
   delete_cluster_mapping_pci |-> "cluster_mapping_pci_delete",
   delete_cluster_mapping_usb |-> "cluster_mapping_usb_delete",
   add_cluster_corosync_node |-> "corosync_node_add",
   remove_cluster_corosync_node |-> "corosync_node_remove",
   join_cluster |-> "cluster_join", setup_cluster_qdevice |-> "qdevice_setup",
   update_cluster_qdevice |-> "qdevice_update",
   remove_cluster_qdevice |-> "qdevice_delete"]

FirewallActions ==
  [update_cluster_firewall_alias |-> "firewall_alias_update",
   delete_cluster_firewall_alias |-> "firewall_alias_delete",
   delete_cluster_firewall_group |-> "firewall_group_delete",
   add_cluster_firewall_ipset_cidr |-> "firewall_ipset_add_cidr",
   delete_cluster_firewall_ipset |-> "firewall_ipset_delete",
   remove_cluster_firewall_ipset_cidr |-> "firewall_ipset_remove_cidr",
   update_cluster_firewall_options |-> "firewall_options_set",
   update_guest_firewall_alias |-> "guest_firewall_alias_update",
   delete_guest_firewall_alias |-> "guest_firewall_alias_delete",
   update_guest_firewall_options |-> "guest_firewall_options_set"]

AccessActions ==
  [delete_pool |-> "pool_delete", update_user |-> "user_update",
   delete_user |-> "user_delete", delete_group |-> "group_delete",
   change_user_password |-> "access_password", revoke_token |-> "token_revoke",
   delete_storage_content |-> "storage_delete",
   update_cluster_storage |-> "storage_def_update",
   delete_cluster_storage |-> "storage_def_delete",
   delete_backup_job |-> "backup_job_delete",
   delete_acme_account |-> "acme_account_delete",
   delete_acme_plugin |-> "acme_plugin_delete",
   delete_metric_server |-> "metric_server_delete",
   delete_notification_endpoint |-> "notification_endpoint_delete",
   delete_notification_matcher |-> "notification_matcher_delete"]
  @@ "acl unset" :> "acl_unset" @@ "pool remove-members" :> "pool_remove_members"
  @@ "pbs restore" :> "pbs_restore"

SecureAction == GuestActions @@ ClusterActions @@ FirewallActions @@ AccessActions

\* Mutant: only what is done to one guest is destructive
DESTRUCTIVE_GUEST_ACTIONS ==
  {"stop", "delete", "restart", "migrate", "exec", "move_disk", "resize_disk"}

DESTRUCTIVE_ACTIONS ==
  {"stop", "delete", "restart", "migrate", "exec", "move_disk", "resize_disk",
   "suspend", "task_stop", "backup_stop", "template", "snapshot_delete",
   "patch_apply", "node_stopall", "node_suspendall", "vm_raw_set", "vm_sendkey",
   "vm_unlink", "ct_raw_set", "qga_write", "ssh_cmd", "ha_group_delete",
   "backup_job_delete", "firewall_alias_update", "firewall_alias_delete",
   "firewall_group_delete", "firewall_ipset_add_cidr", "firewall_ipset_delete",
   "firewall_ipset_remove_cidr", "firewall_options_set",
   "guest_firewall_alias_update", "guest_firewall_alias_delete",
   "guest_firewall_options_set", "cluster_mapping_pci_delete",
   "cluster_mapping_usb_delete", "node_subscription_delete", "node_cert_delete",
   "pool_remove_members", "pool_delete", "metric_server_delete",
   "notification_endpoint_delete", "notification_matcher_delete",
   "storage_def_update", "storage_def_delete", "storage_delete", "pbs_restore",
   "acme_account_delete", "acme_plugin_delete", "corosync_node_add",
   "corosync_node_remove", "cluster_join", "qdevice_setup", "qdevice_update",
   "qdevice_delete", "user_update", "user_delete", "group_delete", "acl_unset",
   "access_password", "token_revoke", "token_bootstrap_rotate",
   "schedule_remove", "state_apply", "reconcile_converge"}

\* enforce_cli_secure_mode, for a command that has its action
SecureRefuses(c) == c \in DOMAIN SecureAction /\ SecureAction[c] \in DESTRUCTIVE_ACTIONS

(***************************************************************************)
(* Every subcommand clap accepts is one the dispatch runs, and a command   *)
(* that asks for a flag takes it.                                          *)
(***************************************************************************)
Uses(c, what) == \E p \in Programs[c] : \E i \in DOMAIN p : p[i].do = what

ASSUME GrammarAgrees ==
  /\ DOMAIN Flags = DOMAIN Programs
  /\ \A c \in DOMAIN Programs :
       /\ Uses(c, "ask") \/ Uses(c, "ask_forced") <=> "yes" \in Flags[c]
       /\ Uses(c, "await") <=> "wait" \in Flags[c]
       /\ Uses(c, "risk") <=> "allow_risk" \in Flags[c]
       /\ \A p \in Programs[c] : \A i \in DOMAIN p :
            p[i].do = "call" => p[i].op \in DOMAIN Verb
=============================================================================
