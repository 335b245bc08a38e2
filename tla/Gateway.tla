------------------------------ MODULE Gateway ------------------------------
(***************************************************************************)
(* The Proxmox gateway as its callers see it: every operation of the       *)
(* trait ProxmoxGateway (api/mod.rs), the HTTP verb with which PxClient    *)
(* (api/client.rs) sends it, and the kind of answer it gives.  Paths and   *)
(* parameters are left out; the gates every verb but GET passes, the       *)
(* retries and the audit record of one request are in MutationGate.        *)
(***************************************************************************)
EXTENDS TLC

(***************************************************************************)
(* A table of calls is written verb by verb (Sent) or answer by answer     *)
(* (Answer) and read as a function from the operation.                     *)
(***************************************************************************)
Sent(t) ==
  [o \in UNION {t[v] : v \in DOMAIN t} |-> CHOOSE v \in DOMAIN t : o \in t[v]]

Answer(t) ==
  [o \in UNION {t[a] : a \in DOMAIN t} |-> CHOOSE a \in DOMAIN t : o \in t[a]]

(***************************************************************************)
(* What PxClient sends, in the order of api/client.rs.  delete_guest and   *)
(* execute_guest_command also read (below); build_guest_vncwebsocket_url   *)
(* sends nothing; upload_to_storage streams its body past the retry loop   *)
(* but through the same gates as every other POST.                         *)
(***************************************************************************)
InventoryCalls ==
  Sent([GET |-> {"get_nodes", "get_guests", "get_guest_status",
                "get_storage_pools", "get_task_log"}])

StatusCalls ==
  Sent([GET |-> {"get_guest_config", "get_cluster_tasks", "get_task_status"},
        POST |-> {"start_guest", "stop_guest"}])

PowerCalls ==
  Sent([GET |-> {"node_apt_repositories", "node_apt_changelog"},
        POST |-> {"shutdown_guest", "restart_guest", "suspend_guest",
                 "resume_guest", "startall_node", "stopall_node",
                 "suspendall_node"}])

MetricCalls ==
  Sent([GET |-> {"node_apt_versions", "get_guest_rrddata", "get_node_rrddata",
                "get_storage_rrddata"},
        POST |-> {"migrate_guest"}])

DeleteGuestCall ==
  Sent([DELETE |-> {"delete_guest"}])

AgentCalls ==
  Sent([GET |-> {"qemu_agent_file_read"},
        POST |-> {"execute_guest_command", "qemu_agent_file_write"}])

NodeSystemCalls ==
  Sent([GET |-> {"qemu_agent_network_get_interfaces", "get_node_dns",
                "get_node_hosts", "get_node_journal", "get_node_syslog",
                "get_node_time", "get_node_subscription"},
        POST |-> {"update_node_hosts", "wakeonlan_node",
                 "set_node_subscription_key"},
        PUT |-> {"update_node_dns", "update_node_timezone",
                "refresh_node_subscription"}])

PoolCalls ==
  Sent([GET |-> {"get_node_certificates_info", "get_node_report", "list_pools",
                "get_pool", "get_cluster_resources", "get_api_version",
                "get_node_version", "get_cluster_options", "get_cluster_log"},
        POST |-> {"upload_node_custom_certificate", "order_node_acme_certificate",
                 "create_pool"},
        PUT |-> {"update_pool", "update_cluster_options"},
        DELETE |-> {"delete_node_subscription", "delete_node_custom_certificate",
                   "delete_pool"}])

SnapshotCalls ==
  Sent([GET |-> {"list_pending_config"},
        POST |-> {"create_snapshot", "rollback_snapshot", "convert_to_template"},
        PUT |-> {"update_guest_config", "regenerate_cloudinit"},
        DELETE |-> {"delete_snapshot"}])

CloneCalls ==
  Sent([GET |-> {"next_free_vmid", "list_snapshots"},
        POST |-> {"clone_guest", "create_backup", "download_to_storage"}])

ConsoleCalls ==
  Sent([GET |-> {"list_storage_content", "get_access_permissions",
                "list_lxc_interfaces", "dump_qemu_cloudinit"},
        POST |-> {"get_spiceproxy", "get_termproxy", "get_guest_vncproxy"},
        PUT |-> {"change_user_password"}])

BackupJobCalls ==
  Sent([GET |-> {"list_backup_jobs", "get_backup_job", "cluster_backup_info",
                "extract_backup_config"},
        POST |-> {"get_lxc_spiceproxy", "lxc_exec_oneshot", "get_node_termproxy",
                 "get_node_vncshell", "get_node_spiceshell", "create_backup_job"},
        PUT |-> {"update_backup_job"},
        DELETE |-> {"delete_backup_job"},
        NONE |-> {"build_guest_vncwebsocket_url"}])

UserCalls ==
  Sent([GET |-> {"list_acl", "list_users", "get_user"},
        POST |-> {"create_user"},
        PUT |-> {"update_user"},
        DELETE |-> {"delete_user"}])

AccessCalls ==
  Sent([GET |-> {"list_user_tokens", "list_groups", "list_roles", "list_realms",
                "list_tfa"},
        POST |-> {"create_group", "create_role", "create_token"},
        PUT |-> {"update_role", "modify_acl"},
        DELETE |-> {"delete_group", "delete_role", "revoke_token"}])

ContentCalls ==
  Sent([GET |-> {"list_pci", "list_cluster_firewall_rules"},
        POST |-> {"upload_to_storage"},
        DELETE |-> {"delete_storage_content"}])

ClusterFirewallCalls ==
  Sent([GET |-> {"list_node_firewall_rules", "list_guest_firewall_rules",
                "list_cluster_firewall_aliases", "list_cluster_firewall_groups",
                "list_cluster_firewall_group_rules",
                "list_cluster_firewall_ipsets",
                "list_cluster_firewall_ipset_cidrs",
                "get_cluster_firewall_options"},
        POST |-> {"create_cluster_firewall_alias", "create_cluster_firewall_group",
                 "create_cluster_firewall_ipset",
                 "add_cluster_firewall_ipset_cidr"},
        PUT |-> {"update_cluster_firewall_alias",
                "update_cluster_firewall_options"},
        DELETE |-> {"delete_cluster_firewall_alias", "delete_cluster_firewall_group",
                   "delete_cluster_firewall_ipset",
                   "remove_cluster_firewall_ipset_cidr"}])

GuestFirewallCalls ==
  Sent([GET |-> {"list_guest_firewall_aliases", "get_guest_firewall_options",
                "list_cluster_mapping_pci", "list_cluster_mapping_usb"},
        POST |-> {"create_guest_firewall_alias", "create_cluster_mapping_pci",
                 "create_cluster_mapping_usb"},
        PUT |-> {"update_guest_firewall_alias", "update_guest_firewall_options",
                "update_cluster_mapping_pci", "update_cluster_mapping_usb"},
        DELETE |-> {"delete_guest_firewall_alias", "delete_cluster_mapping_pci"}])

HardwareCalls ==
  Sent([GET |-> {"list_node_network", "list_usb", "list_node_disks",
                "get_disk_smart", "list_node_lvm", "list_node_lvmthin",
                "list_node_zfs", "get_node_zfs_detail", "guest_serial_devices"},
        DELETE |-> {"delete_cluster_mapping_usb"}])

HaCalls ==
  Sent([GET |-> {"guest_disk_io_rate", "list_ha_groups", "list_ha_resources",
                "ha_manager_status", "get_ha_status_current",
                "list_ha_groups_legacy", "list_ha_rules"},
        POST |-> {"create_ha_group", "create_ha_rule", "create_ha_resource"},
        PUT |-> {"update_ha_group", "update_ha_rule", "update_ha_resource"},
        DELETE |-> {"delete_ha_group", "delete_ha_rule", "delete_ha_resource"}])

NotificationCalls ==
  Sent([GET |-> {"list_notification_endpoints", "list_notification_matchers",
                "list_notification_targets", "get_guest_rrd_image",
                "list_metric_servers", "get_metric_server"},
        POST |-> {"create_notification_endpoint", "create_notification_matcher"},
        PUT |-> {"update_notification_endpoint", "update_notification_matcher"},
        DELETE |-> {"delete_notification_endpoint", "delete_notification_matcher"}])

TaskCalls ==
  Sent([GET |-> {"list_node_tasks", "get_guest_feature", "list_node_aplinfo",
                "query_url_metadata", "list_cluster_corosync_nodes"},
        POST |-> {"create_metric_server", "download_node_aplinfo",
                 "add_cluster_corosync_node"},
        PUT |-> {"update_metric_server", "send_qemu_key", "unlink_qemu_disk"},
        DELETE |-> {"delete_metric_server", "stop_node_task"}])

ClusterSetupCalls ==
  Sent([GET |-> {"get_cluster_join_info", "get_cluster_qdevice",
                "get_cluster_totem", "list_acme_accounts", "get_acme_account",
                "list_acme_plugins", "get_acme_plugin", "get_acme_tos",
                "list_acme_directories", "get_acme_challenge_schema",
                "list_cluster_storages", "get_cluster_storage"},
        POST |-> {"join_cluster", "setup_cluster_qdevice", "create_acme_account",
                 "create_acme_plugin"},
        PUT |-> {"update_cluster_qdevice", "update_acme_account",
                "update_acme_plugin"},
        DELETE |-> {"remove_cluster_corosync_node", "remove_cluster_qdevice",
                   "delete_acme_account", "delete_acme_plugin"}])

StorageCalls ==
  Sent([GET |-> {"cluster_status", "list_replication_jobs",
                "list_replication_status"},
        POST |-> {"create_cluster_storage", "move_disk"},
        PUT |-> {"update_cluster_storage"},
        DELETE |-> {"delete_cluster_storage"}])

CreateCalls ==
  Sent([GET |-> {"apt_list_upgradable", "node_status_detail", "get_next_vmid"},
        POST |-> {"apt_update_refresh", "create_qemu", "create_lxc"},
        PUT |-> {"resize_disk"}])

\* The trait's own methods, each a walk over the online nodes.
Sweeps ==
  Sent([GET |-> {"get_all_guests", "get_all_storage_pools",
                "get_all_storage_pools_and_skipped", "find_guest"}])

Verb ==
  InventoryCalls @@ StatusCalls @@ PowerCalls @@ MetricCalls
  @@ DeleteGuestCall @@ AgentCalls @@ NodeSystemCalls @@ PoolCalls
  @@ SnapshotCalls @@ CloneCalls @@ ConsoleCalls @@ BackupJobCalls
  @@ UserCalls @@ AccessCalls @@ ContentCalls @@ ClusterFirewallCalls
  @@ GuestFirewallCalls @@ HardwareCalls @@ HaCalls @@ NotificationCalls
  @@ TaskCalls @@ ClusterSetupCalls @@ StorageCalls @@ CreateCalls @@ Sweeps

(***************************************************************************)
(* What comes back: a task to follow (its UPID), maybe one, nothing but    *)
(* success, or a value.                                                    *)
(***************************************************************************)
PowerAnswers ==
  Answer([task |-> {"start_guest", "stop_guest", "shutdown_guest"},
          value |-> {"get_nodes", "get_guests", "get_guest_status",
                  "get_storage_pools", "get_all_guests", "get_all_storage_pools",
                  "get_all_storage_pools_and_skipped", "find_guest", "get_task_log",
                  "get_guest_config", "get_cluster_tasks", "get_task_status"}])

NodeAnswers ==
  Answer([task |-> {"restart_guest", "suspend_guest", "resume_guest",
                 "startall_node", "stopall_node", "suspendall_node"},
          value |-> {"node_apt_repositories", "node_apt_changelog",
                  "node_apt_versions", "get_guest_rrddata", "get_node_rrddata",
                  "get_storage_rrddata", "get_guest_vncproxy", "get_lxc_spiceproxy"}])

BackupAnswers ==
  Answer([task |-> {"migrate_guest", "delete_guest"},
          done |-> {"create_backup_job", "update_backup_job", "delete_backup_job"},
          value |-> {"lxc_exec_oneshot", "get_node_termproxy", "get_node_vncshell",
                  "get_node_spiceshell", "list_backup_jobs", "get_backup_job",
                  "cluster_backup_info", "extract_backup_config",
                  "execute_guest_command", "qemu_agent_file_read"}])

SystemAnswers ==
  Answer([task |-> {"order_node_acme_certificate", "create_snapshot"},
          done |-> {"qemu_agent_file_write", "update_node_dns", "update_node_hosts",
                 "update_node_timezone", "set_node_subscription_key",
                 "refresh_node_subscription", "delete_node_subscription",
                 "upload_node_custom_certificate",
                 "delete_node_custom_certificate", "create_pool", "update_pool",
                 "delete_pool", "update_cluster_options"},
          value |-> {"qemu_agent_network_get_interfaces", "get_node_dns",
                  "get_node_hosts", "get_node_journal", "get_node_syslog",
                  "get_node_time", "wakeonlan_node", "get_node_subscription",
                  "get_node_certificates_info", "get_node_report", "list_pools",
                  "get_pool", "get_cluster_resources", "get_api_version",
                  "get_node_version", "get_cluster_options", "get_cluster_log"}])

GuestConfigAnswers ==
  Answer([task |-> {"delete_snapshot", "rollback_snapshot", "convert_to_template",
                 "clone_guest", "create_backup"},
          maybe |-> {"update_guest_config", "regenerate_cloudinit"},
          value |-> {"list_pending_config", "next_free_vmid", "get_spiceproxy"}])

AccessAnswers ==
  Answer([done |-> {"revoke_token", "create_cluster_firewall_alias",
                 "update_cluster_firewall_alias", "delete_cluster_firewall_alias",
                 "create_cluster_firewall_group", "delete_cluster_firewall_group",
                 "create_cluster_firewall_ipset", "delete_cluster_firewall_ipset",
                 "add_cluster_firewall_ipset_cidr",
                 "remove_cluster_firewall_ipset_cidr",
                 "update_cluster_firewall_options", "create_guest_firewall_alias",
                 "update_guest_firewall_alias", "delete_guest_firewall_alias"},
          value |-> {"get_termproxy", "list_acl", "list_users", "get_user",
                  "list_user_tokens", "list_groups", "list_roles", "list_realms",
                  "list_tfa", "create_token", "list_cluster_firewall_rules",
                  "list_node_firewall_rules", "list_guest_firewall_rules",
                  "list_cluster_firewall_aliases", "list_cluster_firewall_groups",
                  "list_cluster_firewall_group_rules",
                  "list_cluster_firewall_ipsets",
                  "list_cluster_firewall_ipset_cidrs",
                  "get_cluster_firewall_options", "list_guest_firewall_aliases",
                  "get_guest_firewall_options"}])

UserAnswers ==
  Answer([task |-> {"upload_to_storage"},
          maybe |-> {"delete_storage_content"},
          done |-> {"update_guest_firewall_options", "create_cluster_mapping_pci",
                 "update_cluster_mapping_pci", "delete_cluster_mapping_pci",
                 "create_cluster_mapping_usb", "update_cluster_mapping_usb",
                 "delete_cluster_mapping_usb", "create_user", "update_user",
                 "delete_user", "create_group", "delete_group", "modify_acl",
                 "create_role", "update_role", "delete_role"},
          value |-> {"list_cluster_mapping_pci", "list_cluster_mapping_usb",
                  "list_node_network"}])

HardwareAnswers ==
  Answer([done |-> {"create_ha_group", "update_ha_group", "delete_ha_group",
                 "create_ha_rule", "update_ha_rule", "delete_ha_rule",
                 "create_ha_resource", "update_ha_resource", "delete_ha_resource"},
          value |-> {"list_pci", "list_usb", "list_node_disks", "get_disk_smart",
                  "list_node_lvm", "list_node_lvmthin", "list_node_zfs",
                  "get_node_zfs_detail", "guest_serial_devices",
                  "guest_disk_io_rate", "list_ha_groups", "list_ha_resources",
                  "ha_manager_status", "get_ha_status_current",
                  "list_ha_groups_legacy", "list_ha_rules"}])

NotificationAnswers ==
  Answer([done |-> {"create_notification_endpoint", "update_notification_endpoint",
                 "delete_notification_endpoint", "create_notification_matcher",
                 "update_notification_matcher", "delete_notification_matcher",
                 "change_user_password", "create_metric_server",
                 "update_metric_server", "delete_metric_server", "stop_node_task",
                 "send_qemu_key"},
          value |-> {"list_notification_endpoints", "list_notification_matchers",
                  "list_notification_targets", "get_access_permissions",
                  "list_lxc_interfaces", "dump_qemu_cloudinit",
                  "build_guest_vncwebsocket_url", "get_guest_rrd_image",
                  "list_metric_servers", "get_metric_server", "list_node_tasks",
                  "get_guest_feature"}])

ClusterAnswers ==
  Answer([task |-> {"download_node_aplinfo", "join_cluster", "setup_cluster_qdevice",
                 "update_cluster_qdevice", "remove_cluster_qdevice",
                 "create_acme_account", "update_acme_account",
                 "delete_acme_account"},
          done |-> {"unlink_qemu_disk", "add_cluster_corosync_node",
                 "remove_cluster_corosync_node", "create_acme_plugin",
                 "update_acme_plugin", "delete_acme_plugin",
                 "create_cluster_storage", "update_cluster_storage",
                 "delete_cluster_storage"},
          value |-> {"list_node_aplinfo", "query_url_metadata",
                  "list_cluster_corosync_nodes", "get_cluster_join_info",
                  "get_cluster_qdevice", "get_cluster_totem", "list_acme_accounts",
                  "get_acme_account", "list_acme_plugins", "get_acme_plugin",
                  "get_acme_tos", "list_acme_directories",
                  "get_acme_challenge_schema", "list_cluster_storages",
                  "get_cluster_storage", "cluster_status", "list_replication_jobs",
                  "list_replication_status"}])

CreateAnswers ==
  Answer([task |-> {"download_to_storage", "move_disk", "resize_disk",
                 "apt_update_refresh", "create_qemu", "create_lxc"},
          value |-> {"list_storage_content", "list_snapshots", "apt_list_upgradable",
                  "node_status_detail", "get_next_vmid"}])

AnswerOf ==
  PowerAnswers @@ NodeAnswers @@ BackupAnswers @@ SystemAnswers
  @@ GuestConfigAnswers @@ AccessAnswers @@ UserAnswers @@ HardwareAnswers
  @@ NotificationAnswers @@ ClusterAnswers @@ CreateAnswers

(***************************************************************************)
(* delete_guest asks for the guest's status first and refuses, sending no  *)
(* DELETE, unless it is stopped; execute_guest_command refuses a container *)
(* and otherwise polls the agent until the command has exited.             *)
(***************************************************************************)
RechecksStopped == {"delete_guest"}

AgentExec == {"execute_guest_command"}

Mutates(op) == Verb[op] \in {"POST", "PUT", "DELETE"}

Starts(op) == AnswerOf[op] \in {"task", "maybe"}

(***************************************************************************)
(* The implementation and the trait name the same operations, and only an  *)
(* operation that writes answers with a task.                              *)
(***************************************************************************)
ASSUME TablesAgree ==
  /\ DOMAIN Verb = DOMAIN AnswerOf
  /\ \A o \in DOMAIN Verb : Starts(o) => Mutates(o)
=============================================================================
