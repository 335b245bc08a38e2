---------------------------- MODULE StateApply ----------------------------
(***************************************************************************)
(* The declarative state of a cluster: the difference between the declared *)
(* and the live state (state/diff.rs), the risk of each change             *)
(* (state/preflight.rs), the API calls a change is translated into         *)
(* (state/apply.rs) and what Proxmox does with such a call.                *)
(*                                                                         *)
(* An object is one identity of one family.  Its value keeps what the      *)
(* families treat differently: a field fixed at creation, an optional text *)
(* that may be empty, a flag, and named sub-entries (pool members, CIDRs,  *)
(* targets, HA resources of a rule).  `order' is 1 when a list is declared *)
(* in another order than the sorted one an export produces.                *)
(***************************************************************************)
EXTENDS Integers, Sequences, FiniteSets, SequencesExt

CONSTANTS
    Obj,        \* the identities
    Names,      \* names of sub-entries
    FamilyOf,   \* [Obj -> the family of the identity]
    RootAcl,    \* the ACL identities whose role is an administrator's
    Sid         \* [Obj -> Names]: the name under which a rule refers to a resource

Unset == 2      \* a firewall option that the document does not mention
NoParts == [n \in Names |-> 0]

Values == [fixed : 0..1, note : 0..1, flag : 0..Unset, order : 0..1, parts : [Names -> 0..2]]
Absent == [fixed |-> 9, note |-> 0, flag |-> 0, order |-> 0, parts |-> NoParts]

\* The declarations that have these fields and no others.
With(fields) ==
    {v \in Values : /\ "fixed" \in fields \/ v.fixed = 0
                    /\ "note" \in fields \/ v.note = 0
                    /\ "flag" \in fields \/ v.flag = 0
                    /\ "parts" \in fields \/ v.parts = NoParts
                    /\ v.flag # Unset}

PoolDecl                == {v \in With({"note", "parts"}) :  \* comment, members
                              \A n \in Names : v.parts[n] \in 0..1}
AclDecl                 == With({"flag"})                    \* propagate
StorageDecl             == With({"fixed", "note", "flag"})   \* type, optional fields, shared
BackupJobDecl           == With({"note", "flag"})            \* optional fields, enabled
FirewallOptionsDecl     == With({"flag"}) \cup {[v EXCEPT !.flag = Unset] : v \in With({})}
FirewallAliasDecl       == With({"note", "flag"})            \* comment, cidr
FirewallIpsetDecl       == With({"note", "parts"})           \* comment, cidrs
FirewallGroupDecl       == With({"note"})                    \* comment
NotificationMatcherDecl == With({"note", "flag", "parts"})   \* comment, disable, targets
HaResourceDecl          == With({"note", "flag"})            \* comment, failback
HaRuleDecl              == With({"fixed", "note", "flag", "parts"}) \* type, comment, strict, resources
MappingPciDecl          == With({"note", "flag", "parts"})   \* description, mdev, map
MappingUsbDecl          == With({"note", "parts"})           \* description, map

\* How the declarations of a family are compared, and the changes it has.
FamilyDiff(family, compare, kinds) == [family |-> family, compare |-> compare, kinds |-> kinds]
AllKinds == {"delete", "update", "create"}

diff_pools                 == FamilyDiff("pool", "equal", AllKinds)
diff_acl                   == FamilyDiff("acl", "equal", AllKinds)
diff_storage               == FamilyDiff("storage", "csv", AllKinds)
diff_backup_jobs           == FamilyDiff("backup_job", "equal", AllKinds)
diff_firewall_options      == FamilyDiff("firewall_options", "keys", {"update"})
diff_firewall_aliases      == FamilyDiff("firewall_alias", "equal", AllKinds)
diff_firewall_ipsets       == FamilyDiff("firewall_ipset", "equal", AllKinds)
diff_firewall_groups       == FamilyDiff("firewall_group", "equal", {"delete", "create"})
diff_notification_matchers == FamilyDiff("notification_matcher", "equal", AllKinds)
diff_ha_resources          == FamilyDiff("ha_resource", "equal", AllKinds)
diff_ha_rules              == FamilyDiff("ha_rule", "equal", AllKinds)
diff_mappings_pci          == FamilyDiff("mapping_pci", "equal", AllKinds)
diff_mappings_usb          == FamilyDiff("mapping_usb", "equal", AllKinds)

\* The families in the order diff goes through them.
FamilyDiffs == <<diff_pools, diff_acl, diff_storage, diff_backup_jobs, diff_firewall_options,
    diff_firewall_aliases, diff_firewall_ipsets, diff_firewall_groups,
    diff_notification_matchers, diff_ha_resources, diff_ha_rules, diff_mappings_pci,
    diff_mappings_usb>>

Families == {FamilyDiffs[i].family : i \in DOMAIN FamilyDiffs}

ASSUME StateApplyAssumption ==
    /\ IsFiniteSet(Obj) /\ IsFiniteSet(Names)
    /\ FamilyOf \in [Obj -> Families]
    /\ RootAcl \subseteq {o \in Obj : FamilyOf[o] = "acl"}
    /\ Sid \in [Obj -> Names]

In(o, fs) == FamilyOf[o] \in fs
PartsOf(v) == {n \in Names : v.parts[n] # 0}

Decl(o) ==
    CASE In(o, {"pool"}) -> PoolDecl
      [] In(o, {"acl"}) -> AclDecl
      [] In(o, {"storage"}) -> StorageDecl
      [] In(o, {"backup_job"}) -> BackupJobDecl
      [] In(o, {"firewall_options"}) -> FirewallOptionsDecl
      [] In(o, {"firewall_alias"}) -> FirewallAliasDecl
      [] In(o, {"firewall_ipset"}) -> FirewallIpsetDecl
      [] In(o, {"firewall_group"}) -> FirewallGroupDecl
      [] In(o, {"notification_matcher"}) -> NotificationMatcherDecl
      [] In(o, {"ha_resource"}) -> HaResourceDecl
      [] In(o, {"ha_rule"}) -> HaRuleDecl
      [] In(o, {"mapping_pci"}) -> MappingPciDecl
      [] In(o, {"mapping_usb"}) -> MappingUsbDecl

\* A document or the cluster: for each identity its declaration or nothing.
ClusterState(s) == DOMAIN s \subseteq Obj /\ \A o \in DOMAIN s : s[o] = Absent \/ s[o] \in Decl(o)

---------------------------------------------------------------------------
(* Export and diff                                                         *)

\* An export sorts the lists it reads.
Sorted(v) == [v EXCEPT !.order = 0]

\* The failback of an HA resource is not read: it is exported as true.
export_ha_resources(v) == [Sorted(v) EXCEPT !.flag = 1]

Exported(o, v) ==
    CASE v = Absent -> Absent
      [] v # Absent /\ In(o, {"ha_resource"}) -> export_ha_resources(v)
      [] v # Absent /\ ~In(o, {"ha_resource"}) -> Sorted(v)

FamilyRank == [o \in Obj |-> CHOOSE i \in DOMAIN FamilyDiffs : FamilyDiffs[i].family = FamilyOf[o]]
Kinds(o) == FamilyDiffs[FamilyRank[o]].kinds

\* storage_matches: the CSV fields of a storage are sets.
storage_matches(live, declared) == live = Sorted(declared)

\* PartialEq of the declarations, where lists are compared as they are written;
\* the options compare the keys that are declared.
Differs(o, declared, live) ==
    LET compare == FamilyDiffs[FamilyRank[o]].compare
    IN  /\ "update" \in Kinds(o)
        /\ CASE compare = "keys"  -> declared.flag \notin {Unset, live.flag}
             [] compare = "csv"   -> ~storage_matches(live, declared)
             [] compare = "equal" -> declared # live

Change(k, o, before, after) == [kind |-> k, obj |-> o, before |-> before, after |-> after]

\* The identities of the managed families that the cluster has and the
\* document has not, the other way round, and in both but different.
Deleted(declared, mine, live) ==
    {Change("delete", o, live[o], Absent) :
        o \in {p \in mine : declared[p] = Absent /\ live[p] # Absent /\ "delete" \in Kinds(p)}}

Updated(declared, mine, live) ==
    {Change("update", o, live[o], declared[o]) :
        o \in {p \in mine : Absent \notin {declared[p], live[p]} /\ Differs(p, declared[p], live[p])}}

Created(declared, mine, live) ==
    {Change("create", o, Absent, declared[o]) :
        o \in {p \in mine : declared[p] # Absent /\ live[p] = Absent /\ "create" \in Kinds(p)}}

\* A family the document does not mention is left alone.
Diff(declared, managed, live) ==
    LET mine == {o \in DOMAIN live : FamilyOf[o] \in managed}
    IN  Deleted(declared, mine, live) \cup Updated(declared, mine, live)
          \cup Created(declared, mine, live)

KindRank(k) == CASE k = "delete" -> 0 [] k = "update" -> 1 [] k = "create" -> 2

\* Families in order; within one deletes, then updates, then creates.
InOrder(c, d) == 3 * FamilyRank[c.obj] + KindRank(c.kind) < 3 * FamilyRank[d.obj] + KindRank(d.kind)

\* The one that comes first.
First(changes) == CHOOSE c \in changes : \A d \in changes : ~InOrder(d, c)

---------------------------------------------------------------------------
(* Pre-flight                                                              *)

Dispatched(c, prune) == prune \/ c.kind # "delete"

\* The changes whose risk is Severe; every other risk only warns.
SevereDelete(c) ==
    /\ c.kind = "delete"
    /\ \/ In(c.obj, {"pool"}) /\ PartsOf(c.before) # {}
       \/ c.obj \in RootAcl
       \/ In(c.obj, {"storage"}) /\ c.before.flag = 1
       \/ In(c.obj, {"firewall_group", "mapping_pci", "mapping_usb", "ha_resource"})

SevereUpdate(c) ==
    /\ c.kind = "update"
    /\ \/ In(c.obj, {"firewall_options"}) /\ c.before.flag = 1 /\ c.after.flag = 0
       \/ In(c.obj, {"ha_rule"}) /\ c.after.fixed = 1 /\ c.before.flag # c.after.flag

Severe(c) == SevereDelete(c) \/ SevereUpdate(c)

\* enforce_state_preflight: one Severe change that apply would send refuses
\* the batch; so does a batch of BulkSevere changes.
Refused(changes, force, prune, bulk) ==
    LET sent == {c \in changes : Dispatched(c, prune)}
    IN  ~force /\ (Cardinality(sent) >= bulk \/ \E c \in sent : Severe(c))

---------------------------------------------------------------------------
(* Calls: what a change is translated into                                 *)

Call(op, set, val) == [op |-> op, set |-> set, val |-> val]
Only(cond, call) == IF cond THEN <<call>> ELSE <<>>
\* One call for each name of a set, in a fixed order.
Each(op, names, val) ==
    [i \in 1..Cardinality(names) |-> Call(op, {SetToSeq(names)[i]}, val)]

\* A pool is created empty and filled by an update; an update changes the
\* comment, removes members and adds members; a delete drains first.
PoolCalls(c) ==
    LET removed == PartsOf(c.before) \ PartsOf(c.after)
        added   == PartsOf(c.after) \ PartsOf(c.before)
    IN  CASE c.kind = "create" -> <<Call("create", {}, [c.after EXCEPT !.parts = NoParts])>>
                                  \o Only(added # {}, Call("add", added, c.after))
          [] c.kind = "update" -> Only(c.before.note # c.after.note, Call("put", {"note"}, c.after))
                                  \o Only(removed # {}, Call("remove", removed, c.after))
                                  \o Only(added # {}, Call("add", added, c.after))
          [] c.kind = "delete" -> Only(removed # {}, Call("remove", removed, c.after))
                                  \o <<Call("delete", {}, c.after)>>

\* A grant cannot be updated in place: it is cleared and set again.
AclCalls(c) ==
    Only(c.kind # "create", Call("clear", {}, Absent))
      \o Only(c.kind # "delete", Call("set", {}, c.after))

\* A comment change deletes the set, members first, and creates it again; a
\* membership change removes and adds the entries that differ, one by one.
IpsetCalls(c) ==
    LET moved == {n \in Names : c.before.parts[n] # c.after.parts[n]}
        teardown == Each("remove", PartsOf(c.before), Absent) \o <<Call("delete", {}, Absent)>>
        buildup  == <<Call("create", {}, [c.after EXCEPT !.parts = NoParts])>>
                    \o Each("add", PartsOf(c.after), c.after)
    IN  CASE c.kind = "create" -> buildup
          [] c.kind = "delete" -> teardown
          [] c.kind = "update" /\ c.before.note # c.after.note -> teardown \o buildup
          [] c.kind = "update" /\ c.before.note = c.after.note ->
                Each("remove", moved \cap PartsOf(c.before), Absent)
                \o Each("add", moved \cap PartsOf(c.after), c.after)

\* Mutant: a cleared field is omitted instead of deleted.
StorageSentOmits(before, after) == {f \in {"note", "flag"} : before[f] # after[f] /\ after[f] # 0}

\* storage_update_params: the fields that changed, a cleared one by delete=.
StorageSent(before, after) == {f \in {"note", "flag"} : before[f] # after[f]}
\* backup_job_params: `enabled' always, an optional field when it is not empty.
BackupJobSent(before, after) == {"flag"} \cup {f \in {"note"} : after[f] # 0}
\* The firewall options that the document sets.
OptionsSent(before, after) == {f \in {"flag"} : after[f] # Unset}
\* fw_alias_params: the CIDR always, the comment when it is not empty.
AliasSent(before, after) == {"flag"} \cup {f \in {"note"} : after[f] # 0}
\* mapping_pci_params, mapping_usb_params: description and mdev always.
MappingSent(before, after) == {"note", "flag"} \cup {f \in {"parts"} : PartsOf(after) # {}}
\* notif_matcher_params and delete= for every field that is empty now.
MatcherSent(before, after) == {"note", "flag", "parts"}
\* ha_rule_params: `strict' only for node affinity; empty fields by delete=.
HaRuleSent(before, after) == {"note", "parts"} \cup {f \in {"flag"} : after.fixed = 1}
\* ha_resource_params: `failback' is sent only when it is false.
HaResourceSent(before, after) == {"note"} \cup {f \in {"flag"} : after[f] = 0}

SentBy(o, before, after) ==
    CASE In(o, {"storage"}) -> StorageSent(before, after)
      [] In(o, {"backup_job"}) -> BackupJobSent(before, after)
      [] In(o, {"firewall_options"}) -> OptionsSent(before, after)
      [] In(o, {"firewall_alias"}) -> AliasSent(before, after)
      [] In(o, {"mapping_pci", "mapping_usb"}) -> MappingSent(before, after)
      [] In(o, {"notification_matcher"}) -> MatcherSent(before, after)
      [] In(o, {"ha_rule"}) -> HaRuleSent(before, after)
      [] In(o, {"ha_resource"}) -> HaResourceSent(before, after)

\* The other families: one POST, one PUT of the fields sent, one DELETE.
PlainCalls(c) ==
    CASE c.kind = "create" -> <<Call("create", {}, c.after)>>
      [] c.kind = "delete" -> <<Call("delete", {}, c.after)>>
      [] c.kind = "update" ->
            LET sent == SentBy(c.obj, c.before, c.after)
            IN  Only(sent # {}, Call("put", sent, c.after))

\* A change of a field that is fixed at creation is refused before any call.
Immutable(c) ==
    c.kind = "update" /\ In(c.obj, {"storage", "ha_rule"}) /\ c.before.fixed # c.after.fixed

CallsOf(c) ==
    CASE In(c.obj, {"pool"}) -> PoolCalls(c)
      [] In(c.obj, {"acl"}) -> AclCalls(c)
      [] In(c.obj, {"firewall_ipset"}) -> IpsetCalls(c)
      [] OTHER -> PlainCalls(c)

\* Mutant: no 404 is tolerated.
ToleratedNever(c, answer) == FALSE

\* A 404 on the delete of an HA object is a success.
Tolerated(c, answer) == answer = "missing" /\ c.kind = "delete" /\ In(c.obj, {"ha_rule", "ha_resource"})

---------------------------------------------------------------------------
(* Proxmox (external), as the code and its comments use it                 *)

\* A rule refers to resources that exist.
Refers(o, v, live) ==
    In(o, {"ha_rule"}) =>
        \A n \in PartsOf(v) : \E r \in DOMAIN live : In(r, {"ha_resource"}) /\ Sid[r] = n /\ live[r] # Absent

\* What Proxmox asks of a call on an object it has.
Takeable(o, call, live) ==
    CASE call.op = "put" -> "parts" \in call.set => Refers(o, call.val, live)
      [] call.op = "delete" -> ~(In(o, {"pool", "firewall_ipset"}) /\ PartsOf(live[o]) # {})
      [] call.op = "remove" -> call.set \subseteq PartsOf(live[o])
      [] call.op = "add" -> ~(In(o, {"firewall_ipset"}) /\ call.set \cap PartsOf(live[o]) # {})

Answer(o, call, live) ==
    CASE call.op \in {"set", "clear"} -> "ok"
      [] call.op = "create" -> IF live[o] = Absent /\ Refers(o, call.val, live) THEN "ok" ELSE "refused"
      [] call.op \in {"put", "delete", "remove", "add"} ->
            IF live[o] = Absent THEN "missing"
            ELSE IF Takeable(o, call, live) THEN "ok" ELSE "refused"

\* A PUT leaves the fields it does not name as they are.
Merge(old, call) ==
    [old EXCEPT !.note = IF "note" \in call.set THEN call.val.note ELSE @,
                !.flag = IF "flag" \in call.set THEN call.val.flag ELSE @,
                !.parts = IF "parts" \in call.set THEN call.val.parts ELSE @,
                !.order = IF "parts" \in call.set THEN call.val.order ELSE @]

SetParts(old, names, parts) ==
    [old EXCEPT !.parts = [n \in Names |-> IF n \in names THEN parts[n] ELSE @[n]]]

\* The delete of an HA resource takes it out of the rules; a rule left
\* without a resource goes too.
Purged(o, live) ==
    [p \in DOMAIN live |->
        CASE p = o -> Absent
          [] p # o /\ In(o, {"ha_resource"}) /\ In(p, {"ha_rule"}) /\ live[p].parts[Sid[o]] # 0 ->
                LET left == SetParts(live[p], {Sid[o]}, NoParts)
                IN  IF PartsOf(left) = {} THEN Absent ELSE left
          [] OTHER -> live[p]]

Effect(o, call, live) ==
    CASE call.op \in {"create", "set"} -> [live EXCEPT ![o] = call.val]
      [] call.op = "clear" -> [live EXCEPT ![o] = Absent]
      [] call.op = "put" -> [live EXCEPT ![o] = Merge(@, call)]
      [] call.op = "add" -> [live EXCEPT ![o] = SetParts(@, call.set, call.val.parts)]
      [] call.op = "remove" -> [live EXCEPT ![o] = SetParts(@, call.set, NoParts)]
      [] call.op = "delete" -> Purged(o, live)
===========================================================================
