-------------------------- MODULE ReconcileProofs --------------------------
(***************************************************************************)
(* Proofs about Reconcile, for every cluster, document, section, option    *)
(* and edit.  First what the operators yield: declarations, the diff and   *)
(* its order, the calls of a change and what Proxmox makes of them.  Then  *)
(* one lemma for each way a single run moves (RunOK), then one for each    *)
(* action, and the theorems.  The second half is about what an apply       *)
(* delivers: the calls left of a change (Filling, Granting, Heading), how  *)
(* each of them brings its object nearer to the declared one, and again    *)
(* one lemma for each way a run moves (DeliverInv) and for each action.    *)
(***************************************************************************)
EXTENDS Reconcile, FiniteSetTheorems, WellFoundedInduction, TLAPS

\* A finite set is listed by its elements.
LEMMA SetToSeqFacts ==
    ASSUME NEW S, IsFiniteSet(S)
    PROVE  SetToSeq(S) \in [1..Cardinality(S) -> S]
<1>1. PICK f : f \in Bijection(1..Cardinality(S), S)
  BY FS_CardinalityType DEF ExistsBijection
<1>2. f \in [1..Cardinality(S) -> S] /\ IsInjective(f)
  BY <1>1 DEF Bijection, Injection
<1> QED
  BY <1>2 DEF SetToSeq

----------------------------------------------------------------------------
(* Values and declarations                                                 *)

Marks == Values \cup {Absent}
Fields == {"fixed", "note", "flag", "parts"}

LEMMA FamilyNames ==
    Families = {"pool", "acl", "storage", "backup_job", "firewall_options", "firewall_alias",
                "firewall_ipset", "firewall_group", "notification_matcher", "ha_resource",
                "ha_rule", "mapping_pci", "mapping_usb"}
<1> DEFINE F(i) == FamilyDiffs[i].family
<1>1. DOMAIN FamilyDiffs = 1..13
  BY DEF FamilyDiffs
<1>2. /\ F(1) = "pool" /\ F(2) = "acl" /\ F(3) = "storage" /\ F(4) = "backup_job"
      /\ F(5) = "firewall_options" /\ F(6) = "firewall_alias" /\ F(7) = "firewall_ipset"
      /\ F(8) = "firewall_group" /\ F(9) = "notification_matcher" /\ F(10) = "ha_resource"
      /\ F(11) = "ha_rule" /\ F(12) = "mapping_pci" /\ F(13) = "mapping_usb"
  BY DEF FamilyDiffs, FamilyDiff, diff_pools, diff_acl, diff_storage, diff_backup_jobs,
         diff_firewall_options, diff_firewall_aliases, diff_firewall_ipsets,
         diff_firewall_groups, diff_notification_matchers, diff_ha_resources, diff_ha_rules,
         diff_mappings_pci, diff_mappings_usb
<1>3. 1..13 = {1, 2, 3, 4, 5, 6, 7, 8, 9, 10, 11, 12, 13}
  OBVIOUS
<1>4. Families = {F(i) : i \in {1, 2, 3, 4, 5, 6, 7, 8, 9, 10, 11, 12, 13}}
  BY <1>1, <1>3 DEF Families
<1> HIDE DEF F
<1> QED
  BY <1>2, <1>4

LEMMA AbsentFacts ==
    /\ NoParts \in [Names -> 0..2] /\ Absent \notin Values /\ Absent.parts = NoParts
    /\ \A v \in Values : v.parts \in [Names -> 0..2]
  BY DEF Absent, Values, NoParts, Unset

\* A record of these fields may be written field by field.
LEMMA WithFacts ==
    ASSUME NEW F \in SUBSET Fields, NEW v \in With(F)
    PROVE  /\ v \in Values
           /\ [v EXCEPT !.parts = NoParts] \in With(F)
           /\ Sorted(v) \in With(F)
           /\ \A p \in [Names -> 0..2] : "parts" \in F => [v EXCEPT !.parts = p] \in With(F)
           /\ \A b \in 0..1 : "flag" \in F => [v EXCEPT !.flag = b] \in With(F)
<1>1. v \in Values /\ NoParts \in [Names -> 0..2]
  BY AbsentFacts DEF With
<1> QED
  BY <1>1 DEF With, Values, Sorted, Unset

\* What a PUT makes of two of them.
LEMMA MergeWith ==
    ASSUME NEW F \in SUBSET Fields, NEW v \in With(F), NEW call, call.val \in With(F)
    PROVE  Merge(v, call) \in With(F)
<1> DEFINE w == call.val
<1>1. v \in Values /\ w \in Values
  BY DEF With
<1>2. PICK n \in {v.note, w.note}, f \in {v.flag, w.flag}, p \in {v.parts, w.parts},
           o \in {v.order, w.order} :
        Merge(v, call) = [v EXCEPT !.note = n, !.flag = f, !.parts = p, !.order = o]
  BY DEF Merge
<1> QED
  BY <1>1, <1>2 DEF With, Values, Unset

\* The declarations of an object: the fields its family has, the options, or a pool.
LEMMA DeclForm ==
    ASSUME NEW o \in Obj
    PROVE  \/ In(o, {"firewall_options"}) /\ Decl(o) = FirewallOptionsDecl
           \/ In(o, {"pool"}) /\ Decl(o) = PoolDecl
           \/ \E F \in SUBSET Fields :
                /\ Decl(o) = With(F)
                /\ ~In(o, {"pool"})
                /\ In(o, {"firewall_ipset", "ha_rule"}) => "parts" \in F
                /\ In(o, {"ha_resource"}) => "flag" \in F
<1>1. FamilyOf[o] \in Families
  BY StateApplyAssumption
<1>2. CASE In(o, {"pool"})
  BY <1>2 DEF Decl, In
<1>3. CASE In(o, {"acl"})
  <2>1. Decl(o) = With({"flag"})
    BY <1>3 DEF Decl, In, AclDecl
  <2> QED
    BY <1>3, <2>1 DEF In, Fields
<1>4. CASE In(o, {"storage"})
  <2>1. Decl(o) = With({"fixed", "note", "flag"})
    BY <1>4 DEF Decl, In, StorageDecl
  <2> QED
    BY <1>4, <2>1 DEF In, Fields
<1>5. CASE In(o, {"backup_job", "firewall_alias", "ha_resource"})
  <2>1. Decl(o) = With({"note", "flag"})
    BY <1>5 DEF Decl, In, BackupJobDecl, FirewallAliasDecl, HaResourceDecl
  <2> QED
    BY <1>5, <2>1 DEF In, Fields
<1>6. CASE In(o, {"firewall_options"})
  BY <1>6 DEF Decl, In
<1>7. CASE In(o, {"firewall_ipset", "mapping_usb"})
  <2>1. Decl(o) = With({"note", "parts"})
    BY <1>7 DEF Decl, In, FirewallIpsetDecl, MappingUsbDecl
  <2> QED
    BY <1>7, <2>1 DEF In, Fields
<1>8. CASE In(o, {"firewall_group"})
  <2>1. Decl(o) = With({"note"})
    BY <1>8 DEF Decl, In, FirewallGroupDecl
  <2> QED
    BY <1>8, <2>1 DEF In, Fields
<1>9. CASE In(o, {"notification_matcher", "mapping_pci"})
  <2>1. Decl(o) = With({"note", "flag", "parts"})
    BY <1>9 DEF Decl, In, NotificationMatcherDecl, MappingPciDecl
  <2> QED
    BY <1>9, <2>1 DEF In, Fields
<1>10. CASE In(o, {"ha_rule"})
  <2>1. Decl(o) = With({"fixed", "note", "flag", "parts"})
    BY <1>10 DEF Decl, In, HaRuleDecl
  <2> QED
    BY <1>10, <2>1 DEF In, Fields
<1> QED
  BY <1>1, <1>2, <1>3, <1>4, <1>5, <1>6, <1>7, <1>8, <1>9, <1>10, FamilyNames DEF In

\* The options are one flag, or none.
LEMMA OptionsForm ==
    FirewallOptionsDecl = {v \in Values : v.fixed = 0 /\ v.note = 0 /\ v.parts = NoParts}
<1>1. ASSUME NEW v \in FirewallOptionsDecl
      PROVE  v \in Values /\ v.fixed = 0 /\ v.note = 0 /\ v.parts = NoParts
  <2>1. CASE v \in With({"flag"})
    BY <2>1 DEF With
  <2>2. CASE v \notin With({"flag"})
    <3>1. PICK w \in With({}) : v = [w EXCEPT !.flag = Unset]
      BY <1>1, <2>2 DEF FirewallOptionsDecl
    <3> QED
      BY <3>1 DEF With, Values, Unset
  <2> QED
    BY <2>1, <2>2
<1>2. ASSUME NEW v \in Values, v.fixed = 0, v.note = 0, v.parts = NoParts
      PROVE  v \in FirewallOptionsDecl
  <2>1. CASE v.flag # Unset
    BY <1>2, <2>1 DEF With, FirewallOptionsDecl
  <2>2. CASE v.flag = Unset
    <3>1. [v EXCEPT !.flag = 0] \in With({})
      BY <1>2 DEF With, Values, Unset
    <3>2. v = [[v EXCEPT !.flag = 0] EXCEPT !.flag = Unset]
      BY <2>2 DEF Values
    <3> QED
      BY <3>1, <3>2 DEF FirewallOptionsDecl
  <2> QED
    BY <2>1, <2>2
<1> QED
  BY <1>1, <1>2

\* A sub-entry of an object: there or not, or one of two values.
Amounts(o) == IF In(o, {"pool"}) THEN 0..1 ELSE 0..2

LEMMA PoolForm ==
    ASSUME NEW v \in PoolDecl
    PROVE  /\ v \in With({"note", "parts"}) /\ v \in Values /\ v.parts \in [Names -> 0..1]
           /\ Sorted(v) \in PoolDecl
           /\ \A p \in [Names -> 0..1] : [v EXCEPT !.parts = p] \in PoolDecl
           /\ NoParts \in [Names -> 0..1]
<1>1. v \in With({"note", "parts"}) /\ \A n \in Names : v.parts[n] \in 0..1
  BY DEF PoolDecl
<1>2. {"note", "parts"} \in SUBSET Fields
  BY DEF Fields
<1>3. /\ v \in Values /\ Sorted(v) \in With({"note", "parts"})
      /\ \A p \in [Names -> 0..2] : [v EXCEPT !.parts = p] \in With({"note", "parts"})
  BY <1>1, <1>2, WithFacts
<1>4. v.parts \in [Names -> 0..1]
  BY <1>1, <1>3, AbsentFacts
<1>5. Sorted(v).parts = v.parts
  BY <1>3 DEF Sorted, Values
<1>6. ASSUME NEW p \in [Names -> 0..1] PROVE [v EXCEPT !.parts = p] \in PoolDecl
  <2>1. p \in [Names -> 0..2] /\ [v EXCEPT !.parts = p].parts = p
    BY <1>3 DEF Values
  <2> QED
    BY <1>3, <2>1 DEF PoolDecl
<1>7. NoParts \in [Names -> 0..1]
  BY DEF NoParts
<1> QED
  BY <1>1, <1>3, <1>4, <1>5, <1>6, <1>7 DEF PoolDecl

\* A declaration stays one when a call has written it.
LEMMA DeclFacts ==
    ASSUME NEW o \in Obj, NEW v \in Decl(o)
    PROVE  /\ v \in Values /\ v # Absent
           /\ [v EXCEPT !.parts = NoParts] \in Decl(o)
           /\ Sorted(v) \in Decl(o)
           /\ In(o, {"ha_resource"}) => [Sorted(v) EXCEPT !.flag = 1] \in Decl(o)
           /\ v.parts \in [Names -> Amounts(o)] /\ NoParts \in [Names -> Amounts(o)]
           /\ In(o, {"pool", "firewall_ipset", "ha_rule"}) =>
                \A p \in [Names -> Amounts(o)] : [v EXCEPT !.parts = p] \in Decl(o)
<1>1. CASE In(o, {"firewall_options"}) /\ Decl(o) = FirewallOptionsDecl
  <2>1. /\ v \in Values
        /\ [v EXCEPT !.parts = NoParts] \in FirewallOptionsDecl
        /\ Sorted(v) \in FirewallOptionsDecl
    BY <1>1, OptionsForm, AbsentFacts DEF Sorted, Values
  <2>2. Amounts(o) = 0..2
    BY <1>1 DEF Amounts, In
  <2> QED
    BY <1>1, <2>1, <2>2, AbsentFacts DEF In
<1>2. ASSUME NEW F \in SUBSET Fields, Decl(o) = With(F), ~In(o, {"pool"}),
             In(o, {"firewall_ipset", "ha_rule"}) => "parts" \in F,
             In(o, {"ha_resource"}) => "flag" \in F
      PROVE  /\ v \in Values /\ v # Absent
             /\ [v EXCEPT !.parts = NoParts] \in Decl(o)
             /\ Sorted(v) \in Decl(o)
             /\ In(o, {"ha_resource"}) => [Sorted(v) EXCEPT !.flag = 1] \in Decl(o)
             /\ v.parts \in [Names -> Amounts(o)] /\ NoParts \in [Names -> Amounts(o)]
             /\ In(o, {"pool", "firewall_ipset", "ha_rule"}) =>
                  \A p \in [Names -> Amounts(o)] : [v EXCEPT !.parts = p] \in Decl(o)
  <2>1. v \in With(F)
    BY <1>2
  <2>2. Sorted(v) \in With(F)
    BY <2>1, WithFacts
  <2>3. "flag" \in F => [Sorted(v) EXCEPT !.flag = 1] \in With(F)
    <3>1. 1 \in 0..1
      OBVIOUS
    <3>2. \A w \in With(F) : "flag" \in F => [w EXCEPT !.flag = 1] \in With(F)
      BY <3>1, WithFacts
    <3> QED
      BY <2>2, <3>2
  <2>4. v \in Values /\ [v EXCEPT !.parts = NoParts] \in With(F)
    BY <2>1, WithFacts
  <2>5. "parts" \in F => \A p \in [Names -> 0..2] : [v EXCEPT !.parts = p] \in With(F)
    BY <2>1, WithFacts
  <2>6. v # Absent
    BY <2>4, AbsentFacts
  <2>7. Amounts(o) = 0..2
    BY <1>2 DEF Amounts
  <2>8. v.parts \in [Names -> Amounts(o)] /\ NoParts \in [Names -> Amounts(o)]
    BY <2>4, <2>7, AbsentFacts
  <2>9. In(o, {"pool", "firewall_ipset", "ha_rule"}) => "parts" \in F
    BY <1>2 DEF In
  <2> QED
    BY <1>2, <2>2, <2>3, <2>4, <2>5, <2>6, <2>7, <2>8, <2>9
<1>3. CASE In(o, {"pool"}) /\ Decl(o) = PoolDecl
  <2>1. Amounts(o) = 0..1 /\ ~In(o, {"ha_resource"}) /\ v \in PoolDecl
    BY <1>3 DEF Amounts, In
  <2>2. v \in Values /\ v # Absent
    BY <2>1, PoolForm, AbsentFacts
  <2> QED
    BY <1>3, <2>1, <2>2, PoolForm
<1> QED
  BY <1>1, <1>2, <1>3, DeclForm

LEMMA MergeFits ==
    ASSUME NEW o \in Obj, NEW v \in Decl(o), NEW call, call.val \in Decl(o)
    PROVE  Merge(v, call) \in Decl(o)
<1>1. CASE In(o, {"firewall_options"}) /\ Decl(o) = FirewallOptionsDecl
  <2> DEFINE w == call.val
  <2>1. v \in Values /\ w \in Values /\ v.fixed = 0 /\ v.note = 0 /\ w.note = 0
        /\ v.parts = NoParts /\ w.parts = NoParts
    BY <1>1, OptionsForm
  <2>2. PICK n \in {v.note, w.note}, f \in {v.flag, w.flag}, p \in {v.parts, w.parts},
             d \in {v.order, w.order} :
          Merge(v, call) = [v EXCEPT !.note = n, !.flag = f, !.parts = p, !.order = d]
    BY DEF Merge
  <2>3. /\ Merge(v, call) \in Values /\ Merge(v, call).fixed = 0 /\ Merge(v, call).note = 0
        /\ Merge(v, call).parts = NoParts
    BY <2>1, <2>2, AbsentFacts DEF Values
  <2> QED
    BY <1>1, <2>3, OptionsForm
<1>2. ASSUME NEW F \in SUBSET Fields, Decl(o) = With(F)
      PROVE  Merge(v, call) \in Decl(o)
  BY <1>2, MergeWith
<1>3. CASE In(o, {"pool"}) /\ Decl(o) = PoolDecl
  <2> DEFINE w == call.val
  <2>1. v \in With({"note", "parts"}) /\ w \in With({"note", "parts"}) /\ v \in Values
        /\ w \in Values /\ v.parts \in [Names -> 0..1] /\ w.parts \in [Names -> 0..1]
    BY <1>3, PoolForm
  <2>2. {"note", "parts"} \in SUBSET Fields
    BY DEF Fields
  <2>3. Merge(v, call) \in With({"note", "parts"})
    BY <2>1, <2>2, MergeWith
  <2>4. Merge(v, call).parts \in {v.parts, w.parts}
    BY <2>1 DEF Merge, Values
  <2> QED
    BY <1>3, <2>1, <2>3, <2>4 DEF PoolDecl
<1> QED
  BY <1>1, <1>2, <1>3, DeclForm

----------------------------------------------------------------------------
(* Export, diff and order                                                  *)

LEMMA ExportedFacts ==
    ASSUME NEW o \in Obj, NEW v, v = Absent \/ v \in Decl(o)
    PROVE  /\ Exported(o, v) = Absent <=> v = Absent
           /\ v # Absent => Exported(o, v) \in Decl(o)
<1>1. CASE v = Absent
  BY <1>1 DEF Exported
<1>2. CASE v # Absent
  <2>1. \A w \in Decl(o) : w # Absent
    BY DeclFacts
  <2>2. Exported(o, v) = Sorted(v) \/
          (In(o, {"ha_resource"}) /\ Exported(o, v) = [Sorted(v) EXCEPT !.flag = 1])
    BY <1>2 DEF Exported, export_ha_resources
  <2>3. v \in Decl(o)
    BY <1>2
  <2>4. Exported(o, v) \in Decl(o)
    BY <2>2, <2>3, DeclFacts
  <2> QED
    BY <1>2, <2>1, <2>4
<1> QED
  BY <1>1, <1>2

\* What the diff finds of an object is decided by the object.
ChangeOf(declared, seen, o) ==
    IF declared[o] = Absent THEN Change("delete", o, seen[o], Absent)
    ELSE IF seen[o] = Absent THEN Change("create", o, Absent, declared[o])
    ELSE Change("update", o, seen[o], declared[o])

LEMMA DiffForm ==
    ASSUME NEW declared, NEW managed, NEW seen,
           NEW c \in Diff(declared, managed, seen)
    PROVE  /\ c.obj \in DOMAIN seen /\ FamilyOf[c.obj] \in managed
           /\ c = ChangeOf(declared, seen, c.obj)
           /\ c.kind \in Kinds(c.obj)
<1> DEFINE mine == {o \in DOMAIN seen : FamilyOf[o] \in managed}
<1>1. CASE c \in Deleted(declared, mine, seen)
  BY <1>1 DEF Deleted, Change, ChangeOf
<1>2. CASE c \in Updated(declared, mine, seen)
  <2>1. \A p : Differs(p, declared[p], seen[p]) => "update" \in Kinds(p)
    BY DEF Differs
  <2> QED
    BY <1>2, <2>1 DEF Updated, Change, ChangeOf
<1>3. CASE c \in Created(declared, mine, seen)
  BY <1>3 DEF Created, Change, ChangeOf
<1> QED
  BY <1>1, <1>2, <1>3 DEF Diff

\* The changes of a diff fit their objects, one for each.
LEMMA DiffFacts ==
    ASSUME NEW declared, NEW managed, NEW seen, ClusterState(declared), ClusterState(seen),
           DOMAIN seen \subseteq DOMAIN declared
    PROVE  /\ IsFiniteSet(Diff(declared, managed, seen))
           /\ Diff(declared, managed, seen) \subseteq Changes
           /\ \A c, d \in Diff(declared, managed, seen) : c.obj = d.obj => c = d
           /\ \A c \in Diff(declared, managed, seen) :
                /\ c.obj \in DOMAIN seen /\ FamilyOf[c.obj] \in managed
                /\ c.kind \in Kinds(c.obj)
                /\ c.kind # "delete" => c.after \in Decl(c.obj)
                /\ c.kind = "update" => seen[c.obj] # Absent
<1> DEFINE D == Diff(declared, managed, seen)
           G(o) == ChangeOf(declared, seen, o)
<1>1. \A c \in D : /\ c.obj \in DOMAIN seen /\ FamilyOf[c.obj] \in managed /\ c = G(c.obj)
                   /\ c.kind \in Kinds(c.obj)
  BY DiffForm
<1>2. DOMAIN seen \subseteq Obj
  BY DEF ClusterState
<1>3. \A o \in DOMAIN seen : /\ declared[o] = Absent \/ declared[o] \in Decl(o)
                             /\ seen[o] = Absent \/ seen[o] \in Decl(o)
  BY <1>2 DEF ClusterState
<1>4. \A o \in DOMAIN seen : Decl(o) \subseteq Values
  BY <1>2, DeclFacts
<1>5. ASSUME NEW o \in DOMAIN seen
      PROVE  /\ G(o) \in Changes
             /\ G(o).kind # "delete" => G(o).after \in Decl(o)
             /\ G(o).kind = "update" => seen[o] # Absent
  BY <1>2, <1>3, <1>4 DEF ChangeOf, Change, Changes
<1>6. IsFiniteSet(D)
  <2> HIDE DEF D, G
  <2>1. D \subseteq {G(o) : o \in DOMAIN seen}
    BY <1>1
  <2>2. IsFiniteSet(DOMAIN seen)
    BY <1>2, StateApplyAssumption, FS_Subset
  <2>3. IsFiniteSet({G(o) : o \in DOMAIN seen})
    <3> DEFINE g == [o \in DOMAIN seen |-> G(o)]
    <3>1. g \in Surjection(DOMAIN seen, {G(o) : o \in DOMAIN seen})
      BY DEF Surjection
    <3> QED
      BY <2>2, <3>1, FS_Surjection
  <2> QED
    BY <2>1, <2>3, FS_Subset
<1> HIDE DEF D, G
<1>7. D \subseteq Changes
  BY <1>1, <1>5
<1>8. \A c, d \in D : c.obj = d.obj => c = d
  BY <1>1
<1>9. \A c \in D : /\ c.obj \in DOMAIN seen /\ FamilyOf[c.obj] \in managed
                   /\ c.kind \in Kinds(c.obj)
                   /\ c.kind # "delete" => c.after \in Decl(c.obj)
                   /\ c.kind = "update" => seen[c.obj] # Absent
  BY <1>1, <1>5
<1> QED
  BY <1>6, <1>7, <1>8, <1>9 DEF D

\* A nonempty set of numbers has a least one.
LEMMA LeastOf ==
    ASSUME NEW T \in SUBSET Nat, T # {}
    PROVE  \E x \in T : \A y \in T : ~(y < x)
<1> DEFINE R == {ss \in Nat \X Nat : ss[1] < ss[2]}
<1>1. IsWellFoundedOn(R, Nat)
  BY NatLessThanWellFounded, Zenon DEF OpToRel
<1>2. \A x, y \in Nat : <<y, x>> \in R <=> y < x
  OBVIOUS
<1> HIDE DEF R
<1>3. PICK x \in T : \A y \in T : ~(<<y, x>> \in R)
  BY <1>1, WFMin
<1> QED
  BY <1>2, <1>3

Rank(c) == 3 * FamilyRank[c.obj] + KindRank(c.kind)

\* The place of a family in the order, and the kinds of change it has.
LEMMA RankFacts ==
    ASSUME NEW o \in Obj
    PROVE  /\ FamilyRank[o] \in 1..13
           /\ In(o, {"ha_resource"}) => FamilyRank[o] = 10
           /\ In(o, {"ha_rule"}) => FamilyRank[o] = 11
           /\ In(o, {"firewall_group"}) => "update" \notin Kinds(o)
<1> DEFINE F(i) == FamilyDiffs[i].family
<1>1. DOMAIN FamilyDiffs = 1..13
  BY DEF FamilyDiffs
<1>2. /\ F(1) = "pool" /\ F(2) = "acl" /\ F(3) = "storage" /\ F(4) = "backup_job"
      /\ F(5) = "firewall_options" /\ F(6) = "firewall_alias" /\ F(7) = "firewall_ipset"
      /\ F(8) = "firewall_group" /\ F(9) = "notification_matcher" /\ F(10) = "ha_resource"
      /\ F(11) = "ha_rule" /\ F(12) = "mapping_pci" /\ F(13) = "mapping_usb"
      /\ FamilyDiffs[8].kinds = {"delete", "create"}
  BY DEF FamilyDiffs, FamilyDiff, diff_pools, diff_acl, diff_storage, diff_backup_jobs,
         diff_firewall_options, diff_firewall_aliases, diff_firewall_ipsets,
         diff_firewall_groups, diff_notification_matchers, diff_ha_resources, diff_ha_rules,
         diff_mappings_pci, diff_mappings_usb
<1>3. \A i \in 1..13 : \/ i = 1 \/ i = 2 \/ i = 3 \/ i = 4 \/ i = 5 \/ i = 6 \/ i = 7 \/ i = 8
                       \/ i = 9 \/ i = 10 \/ i = 11 \/ i = 12 \/ i = 13
  OBVIOUS
<1>4. FamilyOf[o] \in Families
  BY StateApplyAssumption
<1>5. \E i \in 1..13 : F(i) = FamilyOf[o]
  BY <1>1, <1>4 DEF Families
<1>6. FamilyRank[o] \in 1..13 /\ F(FamilyRank[o]) = FamilyOf[o]
  BY <1>1, <1>5 DEF FamilyRank
<1> HIDE DEF F
<1>7. /\ FamilyOf[o] = "ha_resource" => FamilyRank[o] = 10
      /\ FamilyOf[o] = "ha_rule" => FamilyRank[o] = 11
      /\ FamilyOf[o] = "firewall_group" => FamilyRank[o] = 8
  BY <1>2, <1>3, <1>6
<1>8. FamilyRank[o] = 8 => "update" \notin Kinds(o)
  BY <1>2 DEF Kinds
<1> QED
  BY <1>6, <1>7, <1>8 DEF In

LEMMA RankType ==
    ASSUME NEW c \in Changes
    PROVE  /\ Rank(c) \in Nat
           /\ \A d \in Changes : InOrder(d, c) <=> Rank(d) < Rank(c)
<1>1. KindRank(c.kind) \in 0..2 /\ c.obj \in Obj
  BY DEF Changes, KindRank
<1>2. FamilyRank[c.obj] \in 1..13
  BY <1>1, RankFacts
<1>3. Rank(c) \in Nat
  BY <1>1, <1>2 DEF Rank
<1> QED
  BY <1>3 DEF InOrder, Rank

\* There is a first change, and none of the others comes before it.
LEMMA FirstFacts ==
    ASSUME NEW S \in SUBSET Changes, S # {}
    PROVE  First(S) \in S /\ \A d \in S : ~InOrder(d, First(S))
<1> DEFINE T == {Rank(c) : c \in S}
<1>1. T \in SUBSET Nat /\ T # {}
  BY RankType
<1>2. PICK x \in T : \A y \in T : ~(y < x)
  BY <1>1, LeastOf
<1>3. PICK c \in S : x = Rank(c)
  OBVIOUS
<1>4. \A d \in S : ~InOrder(d, c)
  BY <1>2, <1>3, RankType
<1> QED
  BY <1>4 DEF First

\* Whatever is to be done to a resource comes before what is done to a rule.
LEMMA ResourceFirst ==
    ASSUME NEW c \in Changes, NEW d \in Changes, In(d.obj, {"ha_resource"}),
           In(c.obj, {"ha_rule"})
    PROVE  InOrder(d, c)
<1>1. /\ KindRank(c.kind) \in 0..2 /\ KindRank(d.kind) \in 0..2
      /\ c.obj \in Obj /\ d.obj \in Obj
  BY DEF Changes, KindRank
<1>2. FamilyRank[d.obj] = 10 /\ FamilyRank[c.obj] = 11
  BY <1>1, RankFacts
<1> QED
  BY <1>1, <1>2 DEF InOrder

----------------------------------------------------------------------------
(* The calls of a change                                                   *)

Ops == {"create", "set", "clear", "put", "add", "remove", "delete"}
Calls == [op : Ops, set : SUBSET (Names \cup Fields), val : Marks]

\* A sequence of calls that fit a change, and one that takes nothing away.
Fitting(c, s) == s \in Seq(Calls) /\ \A i \in DOMAIN s : Fits(c, s[i])
Sparing(s) == \A i \in DOMAIN s : ~Takes(s[i])

LEMMA FitConcat ==
    ASSUME NEW c, NEW s, NEW t, Fitting(c, s), Fitting(c, t)
    PROVE  Fitting(c, s \o t)
<1>1. s \in Seq(Calls) /\ t \in Seq(Calls)
  BY DEF Fitting
<1>2. s \o t \in Seq(Calls) /\ Len(s \o t) = Len(s) + Len(t)
  BY <1>1
<1>3. ASSUME NEW i \in DOMAIN (s \o t) PROVE Fits(c, (s \o t)[i])
  <2>1. \/ i \in DOMAIN s /\ (s \o t)[i] = s[i]
        \/ i - Len(s) \in DOMAIN t /\ (s \o t)[i] = t[i - Len(s)]
    BY <1>1, <1>2
  <2> QED
    BY <2>1 DEF Fitting
<1> QED
  BY <1>2, <1>3 DEF Fitting

LEMMA SpareConcat ==
    ASSUME NEW s \in Seq(Calls), NEW t \in Seq(Calls), Sparing(s), Sparing(t)
    PROVE  Sparing(s \o t)
<1>1. ASSUME NEW i \in DOMAIN (s \o t) PROVE ~Takes((s \o t)[i])
  <2>1. \/ i \in DOMAIN s /\ (s \o t)[i] = s[i]
        \/ i - Len(s) \in DOMAIN t /\ (s \o t)[i] = t[i - Len(s)]
    OBVIOUS
  <2> QED
    BY <2>1 DEF Sparing
<1> QED
  BY <1>1 DEF Sparing

LEMMA FitOne ==
    ASSUME NEW c, NEW call \in Calls, Fits(c, call)
    PROVE  Fitting(c, <<call>>) /\ (~Takes(call) => Sparing(<<call>>))
  BY DEF Fitting, Sparing

LEMMA FitOnly ==
    ASSUME NEW c, NEW b \in BOOLEAN, NEW call \in Calls, Fits(c, call)
    PROVE  Fitting(c, Only(b, call)) /\ (~Takes(call) => Sparing(Only(b, call)))
<1>1. Fitting(c, <<>>) /\ Sparing(<<>>)
  BY DEF Fitting, Sparing
<1> QED
  BY <1>1, FitOne DEF Only

LEMMA FitEach ==
    ASSUME NEW c, NEW op \in Ops, NEW val \in Marks, NEW names \in SUBSET Names,
           \A n \in Names : Fits(c, Call(op, {n}, val))
    PROVE  /\ Fitting(c, Each(op, names, val))
           /\ op \notin {"clear", "delete"} => Sparing(Each(op, names, val))
<1>1. IsFiniteSet(names)
  BY StateApplyAssumption, FS_Subset
<1>2. SetToSeq(names) \in [1..Cardinality(names) -> names] /\ Cardinality(names) \in Nat
  BY <1>1, SetToSeqFacts, FS_CardinalityType
<1> DEFINE s == Each(op, names, val)
<1>3. ASSUME NEW i \in 1..Cardinality(names)
      PROVE  \E n \in Names : s[i] = Call(op, {n}, val)
  BY <1>2, <1>3 DEF Each
<1>4. \A n \in Names : Call(op, {n}, val) \in Calls /\ Call(op, {n}, val).op = op
  BY DEF Call, Calls
<1>5. DOMAIN s = 1..Cardinality(names)
  BY DEF Each
<1>6. \A i \in DOMAIN s : s[i] \in Calls /\ s[i].op = op /\ Fits(c, s[i])
  BY <1>3, <1>4, <1>5
<1>7. s = [i \in 1..Cardinality(names) |-> s[i]]
  BY DEF Each
<1> HIDE DEF s
<1>8. s \in Seq(Calls)
  BY <1>2, <1>5, <1>6, <1>7
<1> QED
  BY <1>6, <1>8 DEF Fitting, Sparing, Takes, s

\* What is left of the calls of an update brings back what it takes away.
Restoring(s) ==
    \A i \in DOMAIN s : Takes(s[i]) => \E j \in DOMAIN s : j > i /\ Gives(s[j])

LEMMA SparingRestores ==
    ASSUME NEW s, Sparing(s) PROVE Restoring(s)
  BY DEF Sparing, Restoring

LEMMA PartsType ==
    ASSUME NEW v \in Marks PROVE PartsOf(v) \in SUBSET Names
  BY DEF PartsOf

\* A change the diff may yield.
Sound(c) ==
    /\ c \in Changes /\ c.kind \in Kinds(c.obj)
    /\ c.kind # "delete" => c.after \in Decl(c.obj)

LEMMA SoundFacts ==
    ASSUME NEW c, Sound(c)
    PROVE  /\ c.obj \in Obj /\ c.before \in Marks /\ c.after \in Marks
           /\ c.kind \in {"create", "update", "delete"}
           /\ Absent \in Marks /\ NoParts \in [Names -> 0..2]
           /\ c.kind # "delete" =>
                /\ c.after \in Decl(c.obj) /\ [c.after EXCEPT !.parts = NoParts] \in Decl(c.obj)
                /\ [c.after EXCEPT !.parts = NoParts] \in Marks
<1>1. c \in Changes
  BY DEF Sound
<1>2. c.obj \in Obj
  BY <1>1 DEF Changes
<1>3. \A v \in Decl(c.obj) : v \in Marks /\ [v EXCEPT !.parts = NoParts] \in Decl(c.obj)
  BY <1>2, DeclFacts DEF Marks
<1>4. c.kind # "delete" => c.after \in Decl(c.obj)
  BY DEF Sound
<1> QED
  BY <1>1, <1>2, <1>3, <1>4, AbsentFacts DEF Changes, Marks

LEMMA PoolFits ==
    ASSUME NEW c, Sound(c), In(c.obj, {"pool"})
    PROVE  Fitting(c, PoolCalls(c)) /\ (c.kind = "update" => Sparing(PoolCalls(c)))
<1> DEFINE removed == PartsOf(c.before) \ PartsOf(c.after)
           added == PartsOf(c.after) \ PartsOf(c.before)
           create == Call("create", {}, [c.after EXCEPT !.parts = NoParts])
           put == Call("put", {"note"}, c.after)
           take == Call("remove", removed, c.after)
           add == Call("add", added, c.after)
           drop == Call("delete", {}, c.after)
<1>1. removed \in SUBSET Names /\ added \in SUBSET Names
  BY PartsType, SoundFacts
<1>2. ~In(c.obj, {"ha_rule"}) /\ In(c.obj, {"pool", "firewall_ipset"})
  BY DEF In
<1>3. take \in Calls /\ Fits(c, take) /\ ~Takes(take) /\ drop \in Calls /\ Fits(c, drop)
  BY <1>1, <1>2, SoundFacts DEF Call, Calls, Fits, Takes, Ops, Fields
<1>4. c.kind # "delete" => /\ create \in Calls /\ put \in Calls /\ add \in Calls
                           /\ Fits(c, create) /\ Fits(c, put) /\ Fits(c, add)
                           /\ ~Takes(put) /\ ~Takes(add)
  BY <1>1, <1>2, SoundFacts DEF Call, Calls, Fits, Takes, Ops, Fields
<1>5. CASE c.kind = "create"
  <2>1. PoolCalls(c) = <<create>> \o Only(added # {}, add)
    BY <1>5 DEF PoolCalls
  <2> HIDE DEF create, add, added
  <2>2. Fitting(c, <<create>>) /\ Fitting(c, Only(added # {}, add))
    BY <1>4, <1>5, FitOne, FitOnly
  <2> QED
    BY <1>5, <2>1, <2>2, FitConcat
<1>6. CASE c.kind = "update"
  <2> DEFINE note == c.before.note # c.after.note
  <2>1. PoolCalls(c) = Only(note, put) \o Only(removed # {}, take) \o Only(added # {}, add)
    BY <1>6 DEF PoolCalls
  <2> HIDE DEF put, take, add, added, removed, note
  <2>2. /\ Fitting(c, Only(note, put)) /\ Fitting(c, Only(removed # {}, take))
        /\ Fitting(c, Only(added # {}, add))
        /\ Sparing(Only(note, put)) /\ Sparing(Only(removed # {}, take))
        /\ Sparing(Only(added # {}, add))
    <3>1. note \in BOOLEAN
      BY DEF note
    <3> QED
      BY <1>3, <1>4, <1>6, <3>1, FitOnly
  <2>3. /\ Fitting(c, Only(note, put) \o Only(removed # {}, take))
        /\ Sparing(Only(note, put) \o Only(removed # {}, take))
    BY <2>2, FitConcat, SpareConcat DEF Fitting
  <2> QED
    BY <2>1, <2>2, <2>3, FitConcat, SpareConcat DEF Fitting
<1>7. CASE c.kind = "delete"
  <2>1. PoolCalls(c) = Only(removed # {}, take) \o <<drop>>
    BY <1>7 DEF PoolCalls
  <2> HIDE DEF take, drop, removed
  <2>2. Fitting(c, Only(removed # {}, take)) /\ Fitting(c, <<drop>>)
    BY <1>3, FitOne, FitOnly
  <2> QED
    BY <1>7, <2>1, <2>2, FitConcat
<1> QED
  BY <1>5, <1>6, <1>7, SoundFacts

LEMMA AclFits ==
    ASSUME NEW c, Sound(c), In(c.obj, {"acl"})
    PROVE  Fitting(c, AclCalls(c)) /\ (c.kind = "update" => Restoring(AclCalls(c)))
<1> DEFINE clear == Call("clear", {}, Absent)
           set == Call("set", {}, c.after)
<1>1. ~In(c.obj, {"ha_rule"})
  BY DEF In
<1>2. clear \in Calls /\ Fits(c, clear) /\ Takes(clear) /\ set \in Calls /\ Gives(set) /\ ~Takes(set)
  BY <1>1, SoundFacts DEF Call, Calls, Fits, Takes, Gives, Ops, Fields
<1>3. c.kind # "delete" => Fits(c, set)
  BY <1>1, SoundFacts DEF Call, Fits
<1>4. AclCalls(c) = Only(c.kind # "create", clear) \o Only(c.kind # "delete", set)
  BY DEF AclCalls
<1> HIDE DEF clear, set
<1>5. Fitting(c, Only(c.kind # "create", clear))
  BY <1>2, FitOnly
<1>6. Fitting(c, Only(c.kind # "delete", set))
  <2>1. CASE c.kind # "delete"
    BY <1>2, <1>3, <2>1, FitOnly
  <2>2. CASE c.kind = "delete"
    BY <2>2 DEF Only, Fitting
  <2> QED
    BY <2>1, <2>2
<1>7. ASSUME c.kind = "update" PROVE Restoring(AclCalls(c))
  <2>1. AclCalls(c) = <<clear>> \o <<set>>
    BY <1>4, <1>7 DEF Only
  <2>2. <<clear>> \in Seq(Calls) /\ <<set>> \in Seq(Calls)
    BY <1>2
  <2>3. /\ DOMAIN AclCalls(c) = 1..2
        /\ AclCalls(c)[1] = clear /\ AclCalls(c)[2] = set
    BY <2>1, <2>2
  <2> QED
    BY <1>2, <2>3 DEF Restoring
<1> QED
  BY <1>4, <1>5, <1>6, <1>7, FitConcat

\* Whatever is taken away before, a sequence that begins with a creation and takes
\* nothing away brings it back.
LEMMA RestoreConcat ==
    ASSUME NEW s \in Seq(Calls), NEW t \in Seq(Calls), Sparing(t), Len(t) >= 1, Gives(t[1])
    PROVE  Restoring(s \o t)
<1>1. ASSUME NEW i \in DOMAIN (s \o t), Takes((s \o t)[i])
      PROVE  \E j \in DOMAIN (s \o t) : j > i /\ Gives((s \o t)[j])
  <2>1. \/ i \in DOMAIN s
        \/ i - Len(s) \in DOMAIN t /\ (s \o t)[i] = t[i - Len(s)]
    OBVIOUS
  <2>2. i \in DOMAIN s
    BY <1>1, <2>1 DEF Sparing
  <2>3. Len(s) + 1 \in DOMAIN (s \o t) /\ Len(s) + 1 > i /\ (s \o t)[Len(s) + 1] = t[1]
    BY <2>2
  <2> QED
    BY <2>3
<1> QED
  BY <1>1 DEF Restoring

LEMMA IpsetFits ==
    ASSUME NEW c, Sound(c), In(c.obj, {"firewall_ipset"})
    PROVE  Fitting(c, IpsetCalls(c)) /\ (c.kind = "update" => Restoring(IpsetCalls(c)))
<1> DEFINE moved == {n \in Names : c.before.parts[n] # c.after.parts[n]}
           drop == Call("delete", {}, Absent)
           create == Call("create", {}, [c.after EXCEPT !.parts = NoParts])
           teardown == Each("remove", PartsOf(c.before), Absent) \o <<drop>>
           buildup == <<create>> \o Each("add", PartsOf(c.after), c.after)
<1>1. PartsOf(c.before) \in SUBSET Names /\ PartsOf(c.after) \in SUBSET Names
  BY PartsType, SoundFacts
<1>2. ~In(c.obj, {"ha_rule"}) /\ In(c.obj, {"pool", "firewall_ipset"})
  BY DEF In
<1>3. \A n \in Names : Fits(c, Call("remove", {n}, Absent))
  BY <1>2 DEF Fits, Call
<1>4. c.kind # "delete" => \A n \in Names : Fits(c, Call("add", {n}, c.after))
  BY <1>2, SoundFacts DEF Fits, Call
<1>5. drop \in Calls /\ Fits(c, drop)
  BY <1>2, SoundFacts DEF Fits, Call, Calls, Ops
<1>6. c.kind # "delete" => create \in Calls /\ Fits(c, create) /\ Gives(create) /\ ~Takes(create)
  BY <1>2, SoundFacts DEF Fits, Call, Calls, Ops, Gives, Takes
<1>7. ASSUME NEW names \in SUBSET Names
      PROVE  /\ Fitting(c, Each("remove", names, Absent)) /\ Sparing(Each("remove", names, Absent))
             /\ c.kind # "delete" => /\ Fitting(c, Each("add", names, c.after))
                                     /\ Sparing(Each("add", names, c.after))
  <2>1. "remove" \in Ops /\ "add" \in Ops /\ Absent \in Marks /\ c.after \in Marks
    BY SoundFacts DEF Ops
  <2> QED
    BY <1>3, <1>4, <2>1, FitEach
<1> HIDE DEF drop, create, moved
<1>8. Fitting(c, teardown)
  BY <1>1, <1>5, <1>7, FitOne, FitConcat
<1>9. c.kind # "delete" =>
        /\ Fitting(c, buildup) /\ Sparing(buildup) /\ Len(buildup) >= 1 /\ buildup[1] = create
  <2> SUFFICES ASSUME c.kind # "delete"
               PROVE  /\ Fitting(c, buildup) /\ Sparing(buildup)
                      /\ Len(buildup) >= 1 /\ buildup[1] = create
    OBVIOUS
  <2> DEFINE t == Each("add", PartsOf(c.after), c.after)
  <2>1. Fitting(c, t) /\ Sparing(t) /\ t \in Seq(Calls)
    BY <1>1, <1>7 DEF Fitting
  <2>2. Fitting(c, <<create>>) /\ Sparing(<<create>>) /\ <<create>> \in Seq(Calls)
    BY <1>6, FitOne DEF Fitting
  <2> HIDE DEF t
  <2>3. Fitting(c, <<create>> \o t) /\ Sparing(<<create>> \o t)
    BY <2>1, <2>2, FitConcat, SpareConcat
  <2>4. Len(<<create>> \o t) >= 1 /\ (<<create>> \o t)[1] = create
    BY <2>1, <2>2
  <2> QED
    BY <2>3, <2>4 DEF t
<1>10. CASE c.kind = "create"
  <2>1. IpsetCalls(c) = buildup
    BY <1>10 DEF IpsetCalls, create
  <2> QED
    BY <1>9, <1>10, <2>1
<1>11. CASE c.kind = "delete"
  <2>1. IpsetCalls(c) = teardown
    BY <1>11 DEF IpsetCalls, drop
  <2> QED
    BY <1>8, <1>11, <2>1
<1>12. CASE c.kind = "update" /\ c.before.note # c.after.note
  <2>1. IpsetCalls(c) = teardown \o buildup
    BY <1>12 DEF IpsetCalls, create, drop
  <2> HIDE DEF teardown, buildup
  <2>2. Restoring(teardown \o buildup)
    BY <1>6, <1>8, <1>9, <1>12, RestoreConcat DEF Fitting
  <2> QED
    BY <1>8, <1>9, <1>12, <2>1, <2>2, FitConcat
<1>13. CASE c.kind = "update" /\ c.before.note = c.after.note
  <2> DEFINE s == Each("remove", moved \cap PartsOf(c.before), Absent)
             t == Each("add", moved \cap PartsOf(c.after), c.after)
  <2>1. IpsetCalls(c) = s \o t
    BY <1>13 DEF IpsetCalls, moved
  <2>2. Fitting(c, s) /\ Sparing(s) /\ Fitting(c, t) /\ Sparing(t)
    BY <1>1, <1>7, <1>13
  <2> HIDE DEF s, t
  <2>3. Fitting(c, s \o t) /\ Sparing(s \o t)
    BY <2>2, FitConcat, SpareConcat DEF Fitting
  <2> QED
    BY <2>1, <2>3, SparingRestores
<1> QED
  BY <1>10, <1>11, <1>12, <1>13, SoundFacts

\* The fields a PUT names.
LEMMA SentByFields ==
    ASSUME NEW c, Sound(c), c.kind = "update", ~In(c.obj, {"pool", "acl", "firewall_ipset"})
    PROVE  /\ SentBy(c.obj, c.before, c.after) \in SUBSET Fields
           /\ In(c.obj, {"ha_rule"}) => SentBy(c.obj, c.before, c.after) # {}
<1> DEFINE b == c.before
           a == c.after
<1>1. /\ StorageSent(b, a) \subseteq Fields /\ BackupJobSent(b, a) \subseteq Fields
      /\ OptionsSent(b, a) \subseteq Fields /\ AliasSent(b, a) \subseteq Fields
      /\ MappingSent(b, a) \subseteq Fields /\ MatcherSent(b, a) \subseteq Fields
      /\ HaResourceSent(b, a) \subseteq Fields
  BY DEF Fields, StorageSent, BackupJobSent, OptionsSent, AliasSent, MappingSent, MatcherSent,
         HaResourceSent
<1>2. HaRuleSent(b, a) \subseteq Fields /\ "note" \in HaRuleSent(b, a)
  BY DEF Fields, HaRuleSent
<1>3. FamilyOf[c.obj] \in Families /\ FamilyOf[c.obj] # "firewall_group"
  BY SoundFacts, RankFacts, StateApplyAssumption DEF Sound, In
<1>4. FamilyOf[c.obj] \in {"storage", "backup_job", "firewall_options", "firewall_alias",
                           "notification_matcher", "ha_resource", "ha_rule", "mapping_pci",
                           "mapping_usb"}
  BY <1>3, FamilyNames DEF In
<1> HIDE DEF a, b
<1>5. SentBy(c.obj, b, a) \subseteq Fields
  BY <1>1, <1>2, <1>4 DEF SentBy, In
<1>6. In(c.obj, {"ha_rule"}) => SentBy(c.obj, b, a) = HaRuleSent(b, a)
  BY DEF SentBy, In
<1> QED
  BY <1>2, <1>5, <1>6 DEF a, b

LEMMA PlainFits ==
    ASSUME NEW c, Sound(c), ~In(c.obj, {"pool", "acl", "firewall_ipset"})
    PROVE  /\ Fitting(c, PlainCalls(c)) /\ (c.kind = "update" => Sparing(PlainCalls(c)))
           /\ c.kind = "update" /\ In(c.obj, {"ha_rule"}) => PlainCalls(c) # <<>>
<1> DEFINE create == Call("create", {}, c.after)
           drop == Call("delete", {}, c.after)
           sent == SentBy(c.obj, c.before, c.after)
           put == Call("put", sent, c.after)
<1>1. CASE c.kind = "create"
  <2>1. create \in Calls /\ Fits(c, create)
    BY <1>1, SoundFacts DEF Call, Calls, Fits, Ops
  <2> QED
    BY <1>1, <2>1, FitOne DEF PlainCalls
<1>2. CASE c.kind = "delete"
  <2>1. drop \in Calls /\ Fits(c, drop)
    BY <1>2, SoundFacts DEF Call, Calls, Fits, Ops
  <2> QED
    BY <1>2, <2>1, FitOne DEF PlainCalls
<1>3. CASE c.kind = "update"
  <2>1. sent \in SUBSET Fields /\ (In(c.obj, {"ha_rule"}) => sent # {})
    BY <1>3, SentByFields
  <2>2. PlainCalls(c) = Only(sent # {}, put)
    BY <1>3 DEF PlainCalls
  <2> HIDE DEF sent
  <2>3. put \in Calls /\ Fits(c, put) /\ ~Takes(put)
    BY <1>3, <2>1, SoundFacts DEF Call, Calls, Fits, Takes, Ops
  <2> HIDE DEF put
  <2>4. Fitting(c, Only(sent # {}, put)) /\ Sparing(Only(sent # {}, put))
    BY <2>3, FitOnly
  <2>5. sent # {} => Only(sent # {}, put) # <<>>
    BY DEF Only
  <2> QED
    BY <2>1, <2>2, <2>4, <2>5
<1> QED
  BY <1>1, <1>2, <1>3, SoundFacts

\* What a change is translated into fits it; an update brings back what it takes
\* away; and an update of a rule is a call.
LEMMA CallsFacts ==
    ASSUME NEW c, Sound(c)
    PROVE  /\ Fitting(c, CallsOf(c))
           /\ c.kind = "update" => Restoring(CallsOf(c))
           /\ c.kind = "update" /\ In(c.obj, {"ha_rule"}) => CallsOf(c) # <<>>
<1>1. CASE In(c.obj, {"pool"})
  <2>1. CallsOf(c) = PoolCalls(c) /\ ~In(c.obj, {"ha_rule"})
    BY <1>1 DEF CallsOf, In
  <2> QED
    BY <1>1, <2>1, PoolFits, SparingRestores
<1>2. CASE In(c.obj, {"acl"})
  <2>1. CallsOf(c) = AclCalls(c) /\ ~In(c.obj, {"ha_rule"})
    BY <1>2 DEF CallsOf, In
  <2> QED
    BY <1>2, <2>1, AclFits
<1>3. CASE In(c.obj, {"firewall_ipset"})
  <2>1. CallsOf(c) = IpsetCalls(c) /\ ~In(c.obj, {"ha_rule"})
    BY <1>3 DEF CallsOf, In
  <2> QED
    BY <1>3, <2>1, IpsetFits
<1>4. CASE ~In(c.obj, {"pool", "acl", "firewall_ipset"})
  <2>1. CallsOf(c) = PlainCalls(c)
    BY <1>4 DEF CallsOf, In
  <2> QED
    BY <1>4, <2>1, PlainFits, SparingRestores
<1> QED
  BY <1>1, <1>2, <1>3, <1>4 DEF In

----------------------------------------------------------------------------
(* What Proxmox makes of a call                                            *)

LEMMA SetPartsFits ==
    ASSUME NEW o \in Obj, NEW v \in Decl(o), In(o, {"pool", "firewall_ipset", "ha_rule"}),
           NEW names, NEW parts \in [Names -> Amounts(o)]
    PROVE  SetParts(v, names, parts) \in Decl(o)
<1> DEFINE p == [n \in Names |-> IF n \in names THEN parts[n] ELSE v.parts[n]]
<1>1. v \in Values
  BY DeclFacts
<1>2. v.parts \in [Names -> Amounts(o)]
  BY DeclFacts
<1>3. p \in [Names -> Amounts(o)]
  BY <1>2
<1>4. SetParts(v, names, parts) = [v EXCEPT !.parts = p]
  BY <1>1 DEF SetParts, Values
<1>5. \A q \in [Names -> Amounts(o)] : [v EXCEPT !.parts = q] \in Decl(o)
  BY DeclFacts
<1> HIDE DEF p
<1> QED
  BY <1>3, <1>4, <1>5

\* The delete of an object: rules lose it, and only rules of a resource.
LEMMA PurgedFacts ==
    ASSUME NEW L, ClusterState(L), NEW o \in DOMAIN L
    PROVE  /\ DOMAIN Purged(o, L) = DOMAIN L /\ ClusterState(Purged(o, L))
           /\ \A p \in DOMAIN L :
                Purged(o, L)[p] = Absent /\ L[p] # Absent =>
                   p = o \/ (In(o, {"ha_resource"}) /\ In(p, {"ha_rule"}))
<1>1. DOMAIN L \subseteq Obj /\ \A p \in DOMAIN L : L[p] = Absent \/ L[p] \in Decl(p)
  BY DEF ClusterState
<1>2. DOMAIN Purged(o, L) = DOMAIN L
  BY DEF Purged
<1>3. ASSUME NEW p \in DOMAIN L
      PROVE  /\ Purged(o, L)[p] = Absent \/ Purged(o, L)[p] \in Decl(p)
             /\ Purged(o, L)[p] = Absent /\ L[p] # Absent =>
                   p = o \/ (In(o, {"ha_resource"}) /\ In(p, {"ha_rule"}))
  <2>1. CASE p = o
    BY <2>1 DEF Purged
  <2>2. CASE p # o /\ In(o, {"ha_resource"}) /\ In(p, {"ha_rule"}) /\ L[p].parts[Sid[o]] # 0
    <3> DEFINE left == SetParts(L[p], {Sid[o]}, NoParts)
    <3>1. Purged(o, L)[p] = IF PartsOf(left) = {} THEN Absent ELSE left
      BY <2>2 DEF Purged
    <3>2. L[p] # Absent
      <4>1. Sid[o] \in Names
        BY <1>1, StateApplyAssumption
      <4>2. Absent.parts[Sid[o]] = 0
        BY <4>1, AbsentFacts DEF NoParts
      <4> QED
        BY <2>2, <4>2
    <3>3. In(p, {"pool", "firewall_ipset", "ha_rule"})
      BY <2>2 DEF In
    <3>4. left \in Decl(p)
      <4>1. L[p] \in Decl(p) /\ NoParts \in [Names -> Amounts(p)]
        BY <1>1, <3>2, DeclFacts
      <4> QED
        BY <1>1, <3>3, <4>1, SetPartsFits
    <3> QED
      BY <2>2, <3>1, <3>4
  <2>3. CASE p # o /\ ~(In(o, {"ha_resource"}) /\ In(p, {"ha_rule"}) /\ L[p].parts[Sid[o]] # 0)
    <3>1. Purged(o, L)[p] = L[p]
      BY <2>3 DEF Purged
    <3> QED
      BY <1>1, <3>1
  <2> QED
    BY <2>1, <2>2, <2>3
<1> QED
  BY <1>1, <1>2, <1>3 DEF ClusterState

\* A value written to one object.
LEMMA WrittenFacts ==
    ASSUME NEW L, ClusterState(L), NEW o \in DOMAIN L, NEW v, v = Absent \/ v \in Decl(o)
    PROVE  /\ DOMAIN [L EXCEPT ![o] = v] = DOMAIN L /\ ClusterState([L EXCEPT ![o] = v])
           /\ [L EXCEPT ![o] = v][o] = v
           /\ \A p \in DOMAIN L : p # o => [L EXCEPT ![o] = v][p] = L[p]
  BY DEF ClusterState

\* A call that Proxmox answers with ok.
LEMMA EffectFacts ==
    ASSUME NEW L, ClusterState(L), NEW c, c.obj \in DOMAIN L, NEW call \in Calls,
           Fits(c, call), Answer(c.obj, call, L) = "ok"
    PROVE  /\ DOMAIN Effect(c.obj, call, L) = DOMAIN L
           /\ ClusterState(Effect(c.obj, call, L))
           /\ \A p \in DOMAIN L :
                Effect(c.obj, call, L)[p] = Absent /\ L[p] # Absent =>
                   \/ p = c.obj /\ Takes(call)
                   \/ In(c.obj, {"ha_resource"}) /\ In(p, {"ha_rule"})
           /\ Gives(call) => Effect(c.obj, call, L)[c.obj] # Absent
           /\ L[c.obj] = Absent => Gives(call) \/ Takes(call)
<1> DEFINE o == c.obj
           N == Effect(o, call, L)
<1>1. o \in Obj /\ (L[o] = Absent \/ L[o] \in Decl(o)) /\ call.op \in Ops
  BY DEF ClusterState, Calls
<1>2. \A v \in Decl(o) : v # Absent
  BY <1>1, DeclFacts
<1>3. CASE call.op \in {"create", "set"}
  <2>1. call.val \in Decl(o) /\ N = [L EXCEPT ![o] = call.val] /\ Gives(call)
    BY <1>3 DEF Fits, Effect, Gives
  <2> QED
    BY <1>2, <2>1, WrittenFacts
<1>4. CASE call.op = "clear"
  <2>1. N = [L EXCEPT ![o] = Absent] /\ Takes(call) /\ ~Gives(call)
    BY <1>4 DEF Effect, Gives, Takes
  <2> QED
    BY <2>1, WrittenFacts
<1>5. call.op \in {"put", "add", "remove", "delete"} => L[o] # Absent
  <2>1. call.op \in {"put", "add", "remove", "delete"} /\ L[o] = Absent =>
          Answer(o, call, L) = "missing"
    BY DEF Answer
  <2> QED
    BY <2>1
<1>6. CASE call.op = "put"
  <2>1. N = [L EXCEPT ![o] = Merge(L[o], call)] /\ ~Gives(call)
    BY <1>6 DEF Effect, Gives
  <2>2. Merge(L[o], call) \in Decl(o)
    BY <1>1, <1>5, <1>6, MergeFits DEF Fits
  <2> QED
    BY <1>2, <1>5, <1>6, <2>1, <2>2, WrittenFacts
<1>7. CASE call.op \in {"add", "remove"}
  <2>1. PICK parts \in [Names -> Amounts(o)] : N = [L EXCEPT ![o] = SetParts(L[o], call.set, parts)]
    <3>1. call.op = "add" => call.val.parts \in [Names -> Amounts(o)]
      BY <1>1, DeclFacts DEF Fits
    <3>2. CASE call.op = "add"
      BY <3>1, <3>2 DEF Effect
    <3>3. CASE call.op = "remove"
      <4>1. NoParts \in [Names -> Amounts(o)]
        BY <1>1, <1>5, <1>7, DeclFacts
      <4> QED
        BY <3>3, <4>1 DEF Effect
    <3> QED
      BY <1>7, <3>2, <3>3
  <2>2. In(o, {"pool", "firewall_ipset", "ha_rule"}) /\ ~Gives(call)
    BY <1>7 DEF Fits, In, Gives
  <2>3. SetParts(L[o], call.set, parts) \in Decl(o)
    BY <1>1, <1>5, <1>7, <2>2, SetPartsFits
  <2> QED
    BY <1>2, <1>5, <1>7, <2>1, <2>2, <2>3, WrittenFacts
<1>8. CASE call.op = "delete"
  <2>1. N = Purged(o, L) /\ Takes(call) /\ ~Gives(call)
    BY <1>8 DEF Effect, Takes, Gives
  <2> QED
    BY <2>1, PurgedFacts
<1> QED
  BY <1>1, <1>3, <1>4, <1>6, <1>7, <1>8 DEF Ops

----------------------------------------------------------------------------
(* One run: each lemma takes a run from a state of the cluster to the next  *)

\* A run is a record of these fields.
IsRun(r) ==
    r \in [pc : Points, rec : Cfgs \cup {NoCfg}, opts : Opts, doc : {r.doc}, snap : {r.snap},
           changes : SUBSET Changes, calls : Seq(Calls), outs : {r.outs},
           sent : SUBSET Changes, entry : Entries, alone : BOOLEAN, hurt : BOOLEAN,
           saved : BOOLEAN]

RunType(r, cluster) ==
    /\ IsRun(r)
    /\ ClusterState(r.snap) /\ DOMAIN r.snap \subseteq DOMAIN cluster
    /\ DOMAIN r.outs \subseteq r.changes /\ \A c \in DOMAIN r.outs : r.outs[c] \in Results
    /\ r.calls # <<>> => r.pc \in {"apply", "stopped"} /\ Pending(r) # {}

\* What holds of every run, whatever the others do.
RunOK(r, source, cluster) ==
    /\ RunType(r, cluster) /\ SeenInv(r, source, cluster) /\ PlanInv(r, cluster)
    /\ CallInv(r) /\ TraceInv(r) /\ LossInv(r, cluster)

LEMMA NothingFacts ==
    /\ DOMAIN Nothing = {} /\ ClusterState(Nothing)
    /\ <<>> \in Seq(Calls)
  BY DEF Nothing, ClusterState

LEMMA IdleFacts ==
    /\ IsRun(Idle) /\ Idle.pc = "idle" /\ Idle.changes = {} /\ Idle.sent = {}
    /\ Idle.calls = <<>> /\ DOMAIN Idle.outs = {} /\ Idle.snap = Nothing
    /\ Idle.entry = "none" /\ ~Idle.opts.dry /\ Idle.alone /\ ~Idle.hurt
    /\ Idle.rec = NoCfg
<1>1. Unmanned(NoCfg) \in Opts /\ ~Unmanned(NoCfg).dry
  BY DEF Unmanned, NoCfg, Opts
<1>2. {} \in SUBSET Changes /\ "idle" \in Points /\ "none" \in Entries
  BY DEF Points, Entries
<1> QED
  BY <1>1, <1>2, NothingFacts DEF Idle, IsRun

\* A run without a plan.
LEMMA BlankOK ==
    ASSUME NEW r, NEW source, NEW cluster,
           IsRun(r), r.changes = {}, r.sent = {}, r.calls = <<>>, DOMAIN r.outs = {},
           r.pc # "apply", ClusterState(r.snap), DOMAIN r.snap \subseteq DOMAIN cluster,
           r.pc \in {"check", "read"} => r.entry = "none",
           r.opts.dry => r.entry = "none",
           SeenInv(r, source, cluster)
    PROVE  RunOK(r, source, cluster)
<1>1. RunType(r, cluster)
  BY DEF RunType
<1>2. PlanInv(r, cluster)
  BY FS_EmptySet DEF PlanInv, Pending
<1>3. CallInv(r) /\ TraceInv(r) /\ LossInv(r, cluster)
  BY DEF CallInv, TraceInv, LossInv
<1> QED
  BY <1>1, <1>2, <1>3 DEF RunOK

\* Nothing of a run but what it reads depends on whether it is alone.
LEMMA DisturbedOK ==
    ASSUME NEW r, NEW source, NEW cluster, NEW source2, NEW cluster2,
           RunOK(r, source, cluster), DOMAIN cluster2 = DOMAIN cluster
    PROVE  RunOK([r EXCEPT !.alone = FALSE], source2, cluster2)
<1> DEFINE s == [r EXCEPT !.alone = FALSE]
<1>1. IsRun(r)
  BY DEF RunOK, RunType
<1>2. /\ IsRun(s) /\ ~s.alone /\ s.pc = r.pc /\ s.rec = r.rec /\ s.opts = r.opts
      /\ s.doc = r.doc /\ s.snap = r.snap /\ s.changes = r.changes /\ s.calls = r.calls
      /\ s.outs = r.outs /\ s.sent = r.sent /\ s.entry = r.entry
  BY <1>1 DEF IsRun
<1> HIDE DEF s
<1>3. Pending(s) = Pending(r) /\ Current(s) = Current(r)
  BY <1>2 DEF Pending, Current
<1>4. RunType(s, cluster2)
  BY <1>2, <1>3 DEF RunOK, RunType
<1>5. SeenInv(s, source2, cluster2)
  BY <1>2 DEF RunOK, SeenInv
<1>6. PlanInv(s, cluster2)
  BY <1>2, <1>3 DEF RunOK, PlanInv
<1>7. CallInv(s)
  BY <1>2, <1>3 DEF RunOK, CallInv
<1>8. TraceInv(s)
  BY <1>2 DEF RunOK, TraceInv, DispatchedAny
<1>9. LossInv(s, cluster2)
  BY <1>2 DEF LossInv
<1> QED
  BY <1>4, <1>5, <1>6, <1>7, <1>8, <1>9 DEF RunOK, s

\* A fault leaves its mark, and nothing else depends on it.
LEMMA HurtOK ==
    ASSUME NEW r, NEW source, NEW cluster, RunOK(r, source, cluster)
    PROVE  RunOK([r EXCEPT !.hurt = TRUE], source, cluster)
<1> DEFINE s == [r EXCEPT !.hurt = TRUE]
<1>1. IsRun(r)
  BY DEF RunOK, RunType
<1>2. /\ IsRun(s) /\ s.alone = r.alone /\ s.pc = r.pc /\ s.rec = r.rec /\ s.opts = r.opts
      /\ s.doc = r.doc /\ s.snap = r.snap /\ s.changes = r.changes /\ s.calls = r.calls
      /\ s.outs = r.outs /\ s.sent = r.sent /\ s.entry = r.entry
  BY <1>1 DEF IsRun
<1> HIDE DEF s
<1>3. Pending(s) = Pending(r) /\ Current(s) = Current(r)
  BY <1>2 DEF Pending, Current
<1>4. RunType(s, cluster)
  BY <1>2, <1>3 DEF RunOK, RunType
<1>5. SeenInv(s, source, cluster)
  BY <1>2 DEF RunOK, SeenInv
<1>6. PlanInv(s, cluster)
  BY <1>2, <1>3 DEF RunOK, PlanInv
<1>7. CallInv(s)
  BY <1>2, <1>3 DEF RunOK, CallInv
<1>8. TraceInv(s)
  BY <1>2 DEF RunOK, TraceInv, DispatchedAny
<1>9. LossInv(s, cluster)
  BY <1>2, <1>3 DEF RunOK, LossInv, Doomed
<1> QED
  BY <1>4, <1>5, <1>6, <1>7, <1>8, <1>9 DEF RunOK, s

\* The next object is read.
LEMMA ExportOK ==
    ASSUME NEW r, NEW source, NEW cluster, RunOK(r, source, cluster), ClusterState(cluster),
           r.pc \in Reads, NEW o \in DOMAIN cluster
    PROVE  RunOK([r EXCEPT !.snap = Extended(r.snap, o, Exported(o, cluster[o]))],
                 source, cluster)
<1> DEFINE x == Extended(r.snap, o, Exported(o, cluster[o]))
           s == [r EXCEPT !.snap = x]
<1>1. IsRun(r)
  BY DEF RunOK, RunType
<1>2. /\ IsRun(s) /\ s.alone = r.alone /\ s.pc = r.pc /\ s.rec = r.rec /\ s.opts = r.opts
      /\ s.doc = r.doc /\ s.snap = x /\ s.changes = r.changes /\ s.calls = r.calls
      /\ s.outs = r.outs /\ s.sent = r.sent /\ s.entry = r.entry
  BY <1>1 DEF IsRun
<1>a. /\ DOMAIN x = DOMAIN r.snap \cup {o} /\ x[o] = Exported(o, cluster[o])
      /\ \A p \in DOMAIN r.snap : p # o => x[p] = r.snap[p]
  BY DEF Extended
<1> HIDE DEF s, x
<1>b. Exported(o, cluster[o]) = Absent \/ Exported(o, cluster[o]) \in Decl(o)
  BY ExportedFacts DEF ClusterState
<1>c. ClusterState(x) /\ DOMAIN x \subseteq DOMAIN cluster
  BY <1>a, <1>b DEF RunOK, RunType, ClusterState
<1>3. Pending(s) = Pending(r) /\ Current(s) = Current(r)
  BY <1>2 DEF Pending, Current
<1>4. RunType(s, cluster)
  BY <1>2, <1>3, <1>c DEF RunOK, RunType
<1>5. SeenInv(s, source, cluster)
  BY <1>2, <1>a DEF RunOK, SeenInv
<1>6. PlanInv(s, cluster)
  BY <1>2, <1>3 DEF RunOK, PlanInv
<1>7. CallInv(s)
  BY <1>2, <1>3 DEF RunOK, CallInv
<1>8. TraceInv(s)
  BY <1>2 DEF RunOK, TraceInv, DispatchedAny
<1>9. LossInv(s, cluster)
  BY <1>2, <1>3 DEF RunOK, LossInv, Doomed
<1> QED
  BY <1>4, <1>5, <1>6, <1>7, <1>8, <1>9 DEF RunOK, s, x


\* The gate lets a part of the drift through.
LEMMA BeginOK ==
    ASSUME NEW r, NEW source, NEW cluster, RunOK(r, source, cluster), ClusterState(cluster),
           r.pc = "read", DOMAIN cluster \subseteq DOMAIN r.snap, NEW S \in SUBSET DriftOf(r)
    PROVE  RunOK(Begin(r, S), source, cluster)
<1> DEFINE s == Begin(r, S)
<1>1. IsRun(r) /\ RunType(r, cluster)
  BY DEF RunOK, RunType
<1>2. /\ r.changes = {} /\ r.sent = {} /\ DOMAIN r.outs = {} /\ r.calls = <<>>
      /\ r.entry = "none" /\ DOMAIN r.snap = DOMAIN cluster
  BY <1>1 DEF RunOK, RunType, PlanInv, TraceInv
<1>3. ClusterState(r.doc.decl) /\ DOMAIN r.doc.decl = DOMAIN cluster
  BY DEF RunOK, SeenInv, Reads
<1> DEFINE D == DriftOf(r)
<1>4. /\ IsFiniteSet(D) /\ D \subseteq Changes
      /\ \A c, d \in D : c.obj = d.obj => c = d
      /\ \A c \in D : /\ c.obj \in DOMAIN cluster
                      /\ c.kind \in Kinds(c.obj)
                      /\ c.kind # "delete" => c.after \in Decl(c.obj)
                      /\ c.kind = "update" => r.snap[c.obj] # Absent
  <2>1. ClusterState(r.snap)
    BY <1>1 DEF RunType
  <2> QED
    BY <1>2, <1>3, <2>1, DiffFacts DEF DriftOf
<1> HIDE DEF D
<1>5. S \subseteq D
  BY DEF D
<1>6. S \in SUBSET Changes /\ IsFiniteSet(S)
  BY <1>4, <1>5, FS_Subset
<1>7. /\ IsRun(s) /\ s.alone = r.alone /\ s.pc = "apply" /\ s.rec = r.rec /\ s.opts = r.opts
      /\ s.doc = r.doc /\ s.snap = r.snap /\ s.changes = S /\ s.calls = r.calls
      /\ s.outs = r.outs /\ s.sent = r.sent /\ s.entry = r.entry
  BY <1>1, <1>6 DEF IsRun, Begin, Points
<1> HIDE DEF s
<1>8. RunType(s, cluster)
  BY <1>1, <1>2, <1>7 DEF RunType
<1>9. PlanInv(s, cluster)
  BY <1>2, <1>4, <1>5, <1>6, <1>7 DEF PlanInv
<1>10. SeenInv(s, source, cluster) /\ CallInv(s) /\ TraceInv(s)
  BY <1>2, <1>7 DEF SeenInv, CallInv, TraceInv, Reads
<1>11. LossInv(s, cluster)
  <2>1. ASSUME s.alone, NEW c \in S, c.kind = "update", cluster[c.obj] = Absent PROVE FALSE
    <3>1. c.obj \in DOMAIN cluster /\ r.snap[c.obj] # Absent
      BY <1>4, <1>5, <2>1
    <3>2. r.snap[c.obj] = Exported(c.obj, cluster[c.obj])
      BY <1>2, <1>7, <2>1, <3>1 DEF RunOK, SeenInv, Reads
    <3> QED
      BY <2>1, <3>1, <3>2 DEF Exported
  <2> QED
    BY <1>7, <2>1 DEF LossInv
<1> QED
  BY <1>8, <1>9, <1>10, <1>11 DEF RunOK, s

\* The change that is up gets its outcome.
LEMMA OutcomeOK ==
    ASSUME NEW r, NEW source, NEW cluster, NEW out \in Results,
           RunType(r, cluster), PlanInv(r, cluster), r.pc = "apply", Pending(r) # {},
           r.sent \subseteq r.changes, r.entry = "none", r.opts.dry => r.sent = {},
           r.sent # {} => out \in {"applied", "failed"} \/ DispatchedAny(r),
           r.alone =>
             \A c \in r.changes : c.kind = "update" /\ cluster[c.obj] = Absent =>
                \/ c \in DOMAIN r.outs /\ r.outs[c] \in {"failed", "aborted"}
                \/ c = Current(r) /\ out \in {"failed", "aborted"}
                \/ c # Current(r) /\ Doomed(r, c)
    PROVE  RunOK(Outcome(r, out), source, cluster)
<1> DEFINE s == Outcome(r, out)
           x == Current(r)
           os == Extended(r.outs, x, out)
<1>1. IsRun(r) /\ r.changes \subseteq Changes
  BY DEF RunType, IsRun
<1>2. /\ IsRun(s) /\ s.alone = r.alone /\ s.pc = r.pc /\ s.rec = r.rec /\ s.opts = r.opts
      /\ s.doc = r.doc /\ s.snap = r.snap /\ s.changes = r.changes /\ s.calls = <<>>
      /\ s.outs = os /\ s.sent = r.sent /\ s.entry = r.entry
  BY <1>1, NothingFacts DEF IsRun, Outcome
<1>3. x \in Pending(r) /\ \A d \in Pending(r) : ~InOrder(d, x)
  BY <1>1, FirstFacts DEF Current, Pending
<1>4. x \in r.changes /\ x \notin DOMAIN r.outs
  BY <1>3 DEF Pending
<1>5. /\ DOMAIN os = DOMAIN r.outs \cup {x} /\ os[x] = out
      /\ \A c \in DOMAIN r.outs : os[c] = r.outs[c]
  BY <1>4 DEF Extended
<1> HIDE DEF s, x, os
<1>6. Pending(s) = Pending(r) \ {x}
  BY <1>2, <1>5 DEF Pending
<1>7. RunType(s, cluster)
  BY <1>2, <1>4, <1>5 DEF RunType
<1>8. PlanInv(s, cluster)
  BY <1>2, <1>3, <1>5, <1>6 DEF PlanInv
<1>9. SeenInv(s, source, cluster) /\ CallInv(s)
  BY <1>2 DEF SeenInv, CallInv, Reads
<1>10. TraceInv(s)
  <2>1. s.sent # {} => DispatchedAny(s)
    BY <1>2, <1>5 DEF DispatchedAny
  <2> QED
    BY <1>2, <2>1 DEF TraceInv
<1>11. LossInv(s, cluster)
  <2>1. ASSUME s.alone, NEW c \in s.changes, c.kind = "update", cluster[c.obj] = Absent
        PROVE  (c \in DOMAIN s.outs /\ s.outs[c] \in {"failed", "aborted"}) \/ Doomed(s, c)
    <3>1. \/ c \in DOMAIN r.outs /\ r.outs[c] \in {"failed", "aborted"}
          \/ c = x /\ out \in {"failed", "aborted"}
          \/ c # x /\ Doomed(r, c)
      BY <1>2, <2>1 DEF x
    <3> QED
      BY <1>2, <1>5, <1>6, <3>1 DEF Doomed
  <2> QED
    BY <1>2, <2>1 DEF LossInv
<1> QED
  BY <1>7, <1>8, <1>9, <1>10, <1>11 DEF RunOK, s


\* The head of the loop.
LEMMA TakeUpOK ==
    ASSUME NEW r, NEW source, NEW cluster, RunOK(r, source, cluster),
           r.pc = "apply", r.calls = <<>>, Pending(r) # {}
    PROVE  RunOK(TakeUp(r), source, cluster)
<1> DEFINE c == Current(r)
<1>1. /\ IsRun(r) /\ RunType(r, cluster) /\ PlanInv(r, cluster) /\ r.changes \subseteq Changes
      /\ r.sent \subseteq r.changes /\ r.entry = "none" /\ (r.opts.dry => r.sent = {})
      /\ r.sent # {} => DispatchedAny(r)
  BY DEF RunOK, RunType, IsRun, TraceInv
<1>2. c \in Pending(r) /\ c \in r.changes
  BY <1>1, FirstFacts DEF Current, Pending
<1>3. Sound(c)
  BY <1>1, <1>2 DEF Sound, PlanInv
<1>4. /\ Fitting(c, CallsOf(c))
      /\ c.kind = "update" => Restoring(CallsOf(c))
      /\ c.kind = "update" /\ In(c.obj, {"ha_rule"}) => CallsOf(c) # <<>>
  BY <1>3, CallsFacts
<1>5. r.alone =>
        \A d \in r.changes : d.kind = "update" /\ cluster[d.obj] = Absent =>
           \/ d \in DOMAIN r.outs /\ r.outs[d] \in {"failed", "aborted"}
           \/ Doomed(r, d)
  BY <1>1 DEF RunOK, LossInv
<1>6. ASSUME NEW out \in Results,
             out \in {"aborted", "failed"} \/ ~(c.kind = "update" /\ Doomed(r, c))
      PROVE  RunOK(Outcome(r, out), source, cluster)
  <2>1. r.alone =>
          \A d \in r.changes : d.kind = "update" /\ cluster[d.obj] = Absent =>
             \/ d \in DOMAIN r.outs /\ r.outs[d] \in {"failed", "aborted"}
             \/ d = c /\ out \in {"failed", "aborted"}
             \/ d # c /\ Doomed(r, d)
    BY <1>5, <1>6
  <2> QED
    BY <1>1, <2>1, OutcomeOK
<1> DEFINE t == [r EXCEPT !.calls = CallsOf(c)]
<1>7. \/ TakeUp(r) = Outcome(r, "aborted")
      \/ TakeUp(r) = Outcome(r, "dry") /\ r.opts.dry
      \/ TakeUp(r) = Outcome(r, "held") /\ ~Dispatched(c, r.opts.prune)
      \/ TakeUp(r) = Outcome(r, "failed")
      \/ TakeUp(r) = Outcome(r, "applied") /\ CallsOf(c) = <<>>
      \/ TakeUp(r) = t /\ CallsOf(c) # <<>> /\ ~r.opts.dry /\ Dispatched(c, r.opts.prune)
  BY DEF TakeUp
<1>8. CASE TakeUp(r) = Outcome(r, "aborted") \/ TakeUp(r) = Outcome(r, "failed")
  BY <1>6, <1>8 DEF Results
<1>9. CASE TakeUp(r) = Outcome(r, "dry") /\ r.opts.dry
  BY <1>6, <1>9 DEF Results, Doomed
<1>10. CASE TakeUp(r) = Outcome(r, "held") /\ ~Dispatched(c, r.opts.prune)
  BY <1>6, <1>10 DEF Results, Dispatched
<1>11. CASE TakeUp(r) = Outcome(r, "applied") /\ CallsOf(c) = <<>>
  BY <1>4, <1>6, <1>11 DEF Results, Doomed
<1>12. CASE TakeUp(r) = t /\ CallsOf(c) # <<>> /\ ~r.opts.dry /\ Dispatched(c, r.opts.prune)
  <2>1. CallsOf(c) \in Seq(Calls)
    BY <1>4 DEF Fitting
  <2>2. /\ IsRun(t) /\ t.alone = r.alone /\ t.pc = r.pc /\ t.rec = r.rec /\ t.opts = r.opts
        /\ t.doc = r.doc /\ t.snap = r.snap /\ t.changes = r.changes /\ t.calls = CallsOf(c)
        /\ t.outs = r.outs /\ t.sent = r.sent /\ t.entry = r.entry
    BY <1>1, <2>1 DEF IsRun
  <2> HIDE DEF t
  <2>3. Pending(t) = Pending(r) /\ Current(t) = c
    BY <2>2 DEF Pending, Current
  <2>4. RunType(t, cluster)
    BY <1>1, <2>2, <2>3 DEF RunType
  <2>5. PlanInv(t, cluster) /\ SeenInv(t, source, cluster)
    BY <1>1, <2>2, <2>3 DEF PlanInv, SeenInv, Reads
  <2>6. CallInv(t)
    <3> HIDE DEF c
    <3> QED
      BY <1>4, <1>12, <2>2, <2>3 DEF CallInv, Fitting, Restoring
  <2>7. TraceInv(t)
    BY <1>1, <1>12, <2>2 DEF TraceInv
  <2>8. LossInv(t, cluster)
    BY <1>5, <2>2, <2>3 DEF LossInv, Doomed
  <2> QED
    BY <1>12, <2>4, <2>5, <2>6, <2>7, <2>8 DEF RunOK
<1> QED
  BY <1>7, <1>8, <1>9, <1>10, <1>11, <1>12


\* What is left of the calls after the first.
LEMMA TailFacts ==
    ASSUME NEW s \in Seq(Calls), s # <<>>
    PROVE  /\ Head(s) = s[1] /\ s[1] \in Calls /\ 1 \in DOMAIN s
           /\ Tail(s) \in Seq(Calls)
           /\ \A j \in DOMAIN s : j # 1 => j - 1 \in DOMAIN Tail(s) /\ Tail(s)[j - 1] = s[j]
           /\ \A j \in DOMAIN Tail(s) : j + 1 \in DOMAIN s /\ Tail(s)[j] = s[j + 1]
           /\ Len(s) = 1 => DOMAIN Tail(s) = {}
           /\ Len(s) > 1 => Tail(s) # <<>>
<1>1. Len(s) \in Nat /\ Len(s) # 0 /\ DOMAIN s = 1..Len(s)
  OBVIOUS
<1>2. /\ Tail(s) \in Seq(Calls) /\ DOMAIN Tail(s) = 1..(Len(s) - 1)
      /\ \A j \in 1..(Len(s) - 1) : Tail(s)[j] = s[j + 1]
  OBVIOUS
<1>3. Head(s) = s[1] /\ s[1] \in Calls /\ 1 \in DOMAIN s
  BY <1>1
<1>4. \A j \in DOMAIN s : j # 1 => j - 1 \in DOMAIN Tail(s) /\ Tail(s)[j - 1] = s[j]
  BY <1>1, <1>2
<1>5. \A j \in DOMAIN Tail(s) : j + 1 \in DOMAIN s /\ Tail(s)[j] = s[j + 1]
  BY <1>1, <1>2
<1>6. Len(s) = 1 => DOMAIN Tail(s) = {}
  BY <1>1, <1>2
<1>7. Len(s) > 1 => Tail(s) # <<>>
  <2>1. Len(s) > 1 => 1 \in DOMAIN Tail(s)
    BY <1>1, <1>2
  <2>2. DOMAIN <<>> = {}
    OBVIOUS
  <2> QED
    BY <2>1, <2>2
<1> QED
  BY <1>2, <1>3, <1>4, <1>5, <1>6, <1>7

\* What a call may have done to the cluster.
Touches(c, call, cluster, new) ==
    new = cluster \/ (Answer(c.obj, call, cluster) = "ok" /\ new = Effect(c.obj, call, cluster))

\* What a call of an undisturbed run takes away: its own object, to be brought back
\* later, or a rule of the resource it deletes, which is still to come.
LEMMA TouchFacts ==
    ASSUME NEW r, NEW source, NEW cluster, NEW new, RunOK(r, source, cluster),
           ClusterState(cluster), r.pc = "apply", r.calls # <<>>,
           Touches(Current(r), Head(r.calls), cluster, new)
    PROVE  /\ DOMAIN new = DOMAIN cluster /\ ClusterState(new)
           /\ \A d \in r.changes : d # Current(r) /\ new[d.obj] = Absent /\ cluster[d.obj] # Absent
                => Doomed(r, d)
           /\ Answer(Current(r).obj, Head(r.calls), cluster) = "ok" /\ new = Effect(Current(r).obj, Head(r.calls), cluster)
                /\ Current(r).kind = "update" /\ new[Current(r).obj] = Absent
                => \E j \in DOMAIN Tail(r.calls) : Gives(Tail(r.calls)[j])
<1> DEFINE c == Current(r)
           call == Head(r.calls)
<1>1. /\ IsRun(r) /\ PlanInv(r, cluster) /\ CallInv(r) /\ r.changes \subseteq Changes
      /\ r.calls \in Seq(Calls) /\ Pending(r) # {}
  BY DEF RunOK, RunType, IsRun
<1>2. c \in Pending(r) /\ c \in r.changes
  BY <1>1, FirstFacts DEF Current, Pending
<1>3. /\ call = r.calls[1] /\ call \in Calls /\ 1 \in DOMAIN r.calls
      /\ \A j \in DOMAIN r.calls : j # 1 =>
            j - 1 \in DOMAIN Tail(r.calls) /\ Tail(r.calls)[j - 1] = r.calls[j]
  BY <1>1, TailFacts
<1>4. /\ Fits(c, call) /\ ~r.opts.dry /\ c.obj \in DOMAIN cluster
      /\ c.kind = "update" /\ Takes(call) => \E j \in DOMAIN r.calls : j > 1 /\ Gives(r.calls[j])
  BY <1>1, <1>2, <1>3 DEF CallInv, PlanInv
<1>5. c \in Changes
  BY <1>1, <1>2
<1> HIDE DEF c, call
<1>6. CASE new = cluster /\ ~(Answer(c.obj, call, cluster) = "ok" /\ new = Effect(c.obj, call, cluster))
  BY <1>6 DEF c, call
<1>7. CASE Answer(c.obj, call, cluster) = "ok" /\ new = Effect(c.obj, call, cluster)
  <2>1. /\ DOMAIN new = DOMAIN cluster /\ ClusterState(new)
        /\ \A p \in DOMAIN cluster : new[p] = Absent /\ cluster[p] # Absent =>
              \/ p = c.obj /\ Takes(call)
              \/ In(c.obj, {"ha_resource"}) /\ In(p, {"ha_rule"})
        /\ Gives(call) => new[c.obj] # Absent
        /\ cluster[c.obj] = Absent => Gives(call) \/ Takes(call)
    BY <1>3, <1>4, <1>7, EffectFacts
  <2>2. ASSUME NEW d \in r.changes, d # c, new[d.obj] = Absent, cluster[d.obj] # Absent
        PROVE  Doomed(r, d)
    <3>1. d.obj \in DOMAIN cluster /\ d.obj # c.obj /\ d \in Changes
      BY <1>1, <1>2, <2>2 DEF PlanInv
    <3>2. In(c.obj, {"ha_resource"}) /\ In(d.obj, {"ha_rule"})
      BY <2>1, <2>2, <3>1
    <3>3. InOrder(c, d)
      BY <1>5, <3>1, <3>2, ResourceFirst
    <3>4. d \in Pending(r)
      BY <1>1, <1>2, <2>2, <3>3 DEF PlanInv, Pending
    <3> QED
      BY <1>4, <3>2, <3>4 DEF Doomed
  <2>3. ASSUME c.kind = "update", new[c.obj] = Absent
        PROVE  \E j \in DOMAIN Tail(r.calls) : Gives(Tail(r.calls)[j])
    <3>1. Takes(call)
      BY <1>4, <2>1, <2>3 DEF In
    <3>2. PICK j \in DOMAIN r.calls : j > 1 /\ Gives(r.calls[j])
      BY <1>4, <2>3, <3>1
    <3> QED
      BY <1>3, <3>2
  <2> QED
    BY <2>1, <2>2, <2>3 DEF c, call
<1> QED
  BY <1>6, <1>7 DEF Touches, c, call


\* A call is sent.
LEMMA AfterCallOK ==
    ASSUME NEW r, NEW source, NEW cluster, NEW new, NEW answer, RunOK(r, source, cluster),
           ClusterState(cluster), r.pc = "apply", r.calls # <<>>,
           Touches(Current(r), Head(r.calls), cluster, new),
           answer = "ok" => /\ Answer(Current(r).obj, Head(r.calls), cluster) = "ok"
                            /\ new = Effect(Current(r).obj, Head(r.calls), cluster)
    PROVE  RunOK(AfterCall(r, answer), source, new)
<1> DEFINE c == Current(r)
           s == [r EXCEPT !.sent = r.sent \cup {c}]
           t == [s EXCEPT !.calls = Tail(r.calls)]
<1>1. /\ IsRun(r) /\ RunType(r, cluster) /\ PlanInv(r, cluster) /\ CallInv(r) /\ TraceInv(r)
      /\ r.changes \subseteq Changes /\ r.calls \in Seq(Calls) /\ Pending(r) # {}
  BY DEF RunOK, RunType, IsRun
<1>2. c \in Pending(r) /\ c \in r.changes
  BY <1>1, FirstFacts DEF Current, Pending
<1>3. /\ DOMAIN new = DOMAIN cluster
      /\ \A d \in r.changes : d # c /\ new[d.obj] = Absent /\ cluster[d.obj] # Absent
           => Doomed(r, d)
      /\ answer = "ok" /\ c.kind = "update" /\ new[c.obj] = Absent
           => \E j \in DOMAIN Tail(r.calls) : Gives(Tail(r.calls)[j])
  <2>1. /\ DOMAIN new = DOMAIN cluster /\ ClusterState(new)
        /\ \A d \in r.changes : d # Current(r) /\ new[d.obj] = Absent /\ cluster[d.obj] # Absent
             => Doomed(r, d)
        /\ Answer(Current(r).obj, Head(r.calls), cluster) = "ok" /\ new = Effect(Current(r).obj, Head(r.calls), cluster)
             /\ Current(r).kind = "update" /\ new[Current(r).obj] = Absent
             => \E j \in DOMAIN Tail(r.calls) : Gives(Tail(r.calls)[j])
    BY TouchFacts, ZenonT(60)
  <2> QED
    BY <2>1, ZenonT(60)
<1>4. r.alone =>
        \A d \in r.changes : d # c /\ d.kind = "update" /\ new[d.obj] = Absent =>
           (d \in DOMAIN r.outs /\ r.outs[d] \in {"failed", "aborted"}) \/ Doomed(r, d)
  <2>1. r.entry = "none"
    BY <1>1 DEF TraceInv
  <2> QED
    BY <1>3, <2>1 DEF RunOK, LossInv
<1>5. ~r.opts.dry /\ Dispatched(c, r.opts.prune) /\ \A i \in DOMAIN r.calls : Fits(c, r.calls[i])
  BY <1>1 DEF CallInv
<1>6. /\ IsRun(s) /\ s.alone = r.alone /\ s.pc = r.pc /\ s.rec = r.rec /\ s.opts = r.opts
      /\ s.doc = r.doc /\ s.snap = r.snap /\ s.changes = r.changes /\ s.calls = r.calls
      /\ s.outs = r.outs /\ s.sent = r.sent \cup {c} /\ s.entry = "none"
  <2>1. r.sent \cup {c} \in SUBSET Changes
    BY <1>1, <1>2 DEF IsRun
  <2>2. r.entry = "none"
    BY <1>1 DEF TraceInv
  <2> HIDE DEF c
  <2> QED
    BY <1>1, <2>1, <2>2 DEF IsRun
<1>7. \/ AfterCall(r, answer) = t /\ answer = "ok" /\ Len(r.calls) > 1
      \/ AfterCall(r, answer) = Outcome(s, "applied") /\ answer = "ok" /\ Len(r.calls) = 1
      \/ AfterCall(r, answer) = Outcome(s, "applied") /\ c.kind = "delete"
      \/ AfterCall(r, answer) = Outcome(s, "failed")
  BY <1>1, <1>6 DEF AfterCall, Tolerated
<1> HIDE DEF s
<1>8. Pending(s) = Pending(r) /\ Current(s) = c
  BY <1>6 DEF Pending, Current
<1>9. RunType(s, new) /\ PlanInv(s, new) /\ s.sent \subseteq s.changes
  <2>1. RunType(s, new)
    BY <1>1, <1>3, <1>6, <1>8 DEF RunType
  <2>2. PlanInv(s, new)
    BY <1>1, <1>3, <1>6, <1>8 DEF PlanInv
  <2>3. s.sent \subseteq s.changes
    BY <1>1, <1>2, <1>6 DEF TraceInv
  <2> QED
    BY <2>1, <2>2, <2>3
<1>10. ASSUME NEW out \in {"applied", "failed"},
              out = "applied" => ~(c.kind = "update" /\ new[c.obj] = Absent)
       PROVE  RunOK(Outcome(s, out), source, new)
  <2> HIDE DEF c
  <2>1. s.alone =>
          \A d \in s.changes : d.kind = "update" /\ new[d.obj] = Absent =>
             \/ d \in DOMAIN s.outs /\ s.outs[d] \in {"failed", "aborted"}
             \/ d = Current(s) /\ out \in {"failed", "aborted"}
             \/ d # Current(s) /\ Doomed(s, d)
    BY <1>4, <1>6, <1>8, <1>10 DEF Doomed
  <2>2. out \in Results /\ s.pc = "apply" /\ Pending(s) # {}
    BY <1>1, <1>6, <1>8 DEF Results
  <2> QED
    BY <1>5, <1>6, <1>9, <2>1, <2>2, OutcomeOK
<1>11. CASE AfterCall(r, answer) = Outcome(s, "failed")
  BY <1>10, <1>11
<1>12. CASE AfterCall(r, answer) = Outcome(s, "applied") /\ c.kind = "delete"
  BY <1>10, <1>12
<1>13. CASE AfterCall(r, answer) = Outcome(s, "applied") /\ answer = "ok" /\ Len(r.calls) = 1
  <2>1. \A j \in DOMAIN Tail(r.calls) : FALSE
    BY <1>1, <1>13, TailFacts
  <2> QED
    BY <1>3, <1>10, <1>13, <2>1
<1>14. CASE AfterCall(r, answer) = t /\ answer = "ok" /\ Len(r.calls) > 1
  <2>1. /\ Tail(r.calls) \in Seq(Calls) /\ Tail(r.calls) # <<>>
        /\ \A j \in DOMAIN r.calls : j # 1 =>
              j - 1 \in DOMAIN Tail(r.calls) /\ Tail(r.calls)[j - 1] = r.calls[j]
        /\ \A j \in DOMAIN Tail(r.calls) :
              j + 1 \in DOMAIN r.calls /\ Tail(r.calls)[j] = r.calls[j + 1]
    BY <1>1, <1>14, TailFacts
  <2>2. /\ IsRun(t) /\ t.alone = r.alone /\ t.pc = r.pc /\ t.rec = r.rec /\ t.opts = r.opts
        /\ t.doc = r.doc /\ t.snap = r.snap /\ t.changes = r.changes /\ t.calls = Tail(r.calls)
        /\ t.outs = r.outs /\ t.sent = r.sent \cup {c} /\ t.entry = "none"
    BY <1>6, <2>1 DEF IsRun
  <2> HIDE DEF t
  <2>3. Pending(t) = Pending(r) /\ Current(t) = c
    BY <2>2 DEF Pending, Current
  <2> HIDE DEF c
  <2>4. RunType(t, new)
    BY <1>1, <1>9, <1>6, <2>2, <2>3 DEF RunType
  <2>5. PlanInv(t, new) /\ SeenInv(t, source, new)
    BY <1>6, <1>8, <1>9, <2>2, <2>3 DEF PlanInv, SeenInv, Reads
  <2>6. CallInv(t)
    <3>1. \A i \in DOMAIN t.calls : Fits(c, t.calls[i])
      BY <1>5, <2>1, <2>2
    <3>2. ASSUME c.kind = "update", NEW i \in DOMAIN t.calls, Takes(t.calls[i])
          PROVE  \E j \in DOMAIN t.calls : j > i /\ Gives(t.calls[j])
      <4>1. i + 1 \in DOMAIN r.calls /\ Takes(r.calls[i + 1]) /\ i \in Nat
        BY <1>1, <2>1, <2>2, <3>2
      <4>2. PICK j \in DOMAIN r.calls : j > i + 1 /\ Gives(r.calls[j])
        BY <1>1, <1>8, <3>2, <4>1 DEF CallInv, c
      <4>3. j \in Nat /\ j # 1 /\ j - 1 > i
        BY <1>1, <4>1, <4>2
      <4> QED
        BY <2>1, <2>2, <4>2, <4>3
    <3> QED
      BY <1>5, <2>2, <2>3, <3>1, <3>2 DEF CallInv
  <2>7. TraceInv(t)
    BY <1>5, <1>6, <1>9, <2>1, <2>2 DEF TraceInv
  <2>8. LossInv(t, new)
    BY <1>3, <1>4, <1>14, <2>2, <2>3 DEF LossInv, Doomed
  <2> QED
    BY <1>14, <2>4, <2>5, <2>6, <2>7, <2>8 DEF RunOK
<1> QED
  BY <1>7, <1>11, <1>12, <1>13, <1>14


\* The write gate refuses the call.
LEMMA LockedOK ==
    ASSUME NEW r, NEW source, NEW cluster, RunOK(r, source, cluster),
           r.pc = "apply", r.calls # <<>>
    PROVE  RunOK([Outcome(r, "failed") EXCEPT !.hurt = TRUE], source, cluster)
<1>1. /\ RunType(r, cluster) /\ PlanInv(r, cluster) /\ Pending(r) # {}
      /\ r.sent \subseteq r.changes /\ r.entry = "none" /\ (r.opts.dry => r.sent = {})
      /\ "failed" \in Results
  BY DEF RunOK, RunType, TraceInv, Results
<1>2. r.alone =>
        \A c \in r.changes : c.kind = "update" /\ cluster[c.obj] = Absent =>
           \/ c \in DOMAIN r.outs /\ r.outs[c] \in {"failed", "aborted"}
           \/ c = Current(r) /\ "failed" \in {"failed", "aborted"}
           \/ c # Current(r) /\ Doomed(r, c)
  BY <1>1 DEF RunOK, LossInv
<1>3. RunOK(Outcome(r, "failed"), source, cluster)
  BY <1>1, <1>2, OutcomeOK
<1> QED
  BY <1>3, HurtOK

\* The end of the loop, for the daemon and for the command.
LEMMA ReportOK ==
    ASSUME NEW a, NEW r, NEW cluster, RunOK(r, doc, cluster), r.pc = "apply", Pending(r) = {},
           ClusterState(doc.decl), DOMAIN doc.decl = DOMAIN cluster
    PROVE  \A e \in Written(r) : RunOK(Reported(a, [r EXCEPT !.entry = e]), doc, cluster)
<1> TAKE e \in Written(r)
<1> DEFINE u == [r EXCEPT !.entry = e]
           s == Reported(a, u)
<1>1. /\ IsRun(r) /\ RunType(r, cluster) /\ PlanInv(r, cluster) /\ TraceInv(r)
      /\ r.calls = <<>> /\ r.entry = "none"
  BY DEF RunOK, RunType, TraceInv
<1>2. /\ e \in {"none", "done", "lost"} /\ (r.sent # {} => e # "none") /\ (r.opts.dry => e = "none")
      /\ r.opts.dry => r.sent = {}
  BY <1>1 DEF TraceInv, Written
<1>3. /\ IsRun(u) /\ u.alone = r.alone /\ u.pc = r.pc /\ u.rec = r.rec /\ u.opts = r.opts
      /\ u.doc = r.doc /\ u.snap = r.snap /\ u.changes = r.changes /\ u.calls = r.calls
      /\ u.outs = r.outs /\ u.sent = r.sent /\ u.entry = e
  BY <1>1, <1>2 DEF IsRun, Entries
<1> HIDE DEF u
<1>4. /\ IsRun(s) /\ s.alone = r.alone /\ s.rec = r.rec /\ s.opts = r.opts
      /\ s.changes = r.changes /\ s.calls = r.calls
      /\ s.outs = r.outs /\ s.sent = r.sent /\ s.entry = e
      /\ (s.pc = "recheck" /\ s.doc = doc /\ s.snap = Nothing) \/ (s.pc = "over" /\ s.snap = r.snap)
  BY <1>3 DEF IsRun, Reported, StartRead, Points
<1> HIDE DEF s
<1>5. Pending(s) = {}
  BY <1>4 DEF Pending
<1>6. ClusterState(s.snap) /\ DOMAIN s.snap \subseteq DOMAIN cluster
  BY <1>1, <1>4, NothingFacts DEF RunType
<1>7. RunType(s, cluster)
  BY <1>1, <1>4, <1>6 DEF RunType
<1>8. SeenInv(s, doc, cluster)
  BY <1>4, NothingFacts DEF SeenInv, Reads
<1>9. PlanInv(s, cluster)
  BY <1>1, <1>4, <1>5 DEF PlanInv
<1>10. CallInv(s)
  BY <1>1, <1>4 DEF CallInv
<1>11. TraceInv(s)
  BY <1>1, <1>2, <1>4 DEF TraceInv
<1>12. LossInv(s, cluster)
  <2>1. \A j \in DOMAIN r.calls : FALSE
    BY <1>1
  <2> QED
    BY <1>1, <1>4, <2>1 DEF RunOK, LossInv, Doomed
<1> QED
  BY <1>7, <1>8, <1>9, <1>10, <1>11, <1>12 DEF RunOK, s, u

\* The run is dropped wherever it waits.
LEMMA StopOK ==
    ASSUME NEW r, NEW source, NEW cluster, RunOK(r, source, cluster)
    PROVE  \A e \in Dropped(r) : RunOK([r EXCEPT !.pc = "stopped", !.entry = e], source, cluster)
<1> TAKE e \in Dropped(r)
<1> DEFINE s == [r EXCEPT !.pc = "stopped", !.entry = e]
<1>1. /\ IsRun(r) /\ RunType(r, cluster) /\ PlanInv(r, cluster) /\ CallInv(r) /\ TraceInv(r)
      /\ LossInv(r, cluster) /\ r.pc \in Points /\ r.entry \in Entries
  BY DEF RunOK, RunType, IsRun
<1>2. e \in Entries /\ (Armed(r) => e \in {"interrupted", "unrecorded"}) /\ (~Armed(r) => e = r.entry)
  BY <1>1 DEF Entries, Dropped
<1>3. /\ IsRun(s) /\ s.alone = r.alone /\ s.pc = "stopped" /\ s.rec = r.rec /\ s.opts = r.opts
      /\ s.doc = r.doc /\ s.snap = r.snap /\ s.changes = r.changes /\ s.calls = r.calls
      /\ s.outs = r.outs /\ s.sent = r.sent /\ s.entry = e
  BY <1>1, <1>2 DEF IsRun, Points
<1> HIDE DEF s
<1>4. Pending(s) = Pending(r) /\ Current(s) = Current(r)
  BY <1>3 DEF Pending, Current
<1>5. RunType(s, cluster)
  BY <1>1, <1>3, <1>4 DEF RunType
<1>6. SeenInv(s, source, cluster)
  BY <1>3 DEF SeenInv, Reads
<1>7. PlanInv(s, cluster)
  BY <1>1, <1>3, <1>4 DEF PlanInv
<1>8. CallInv(s)
  BY <1>1, <1>3, <1>4 DEF CallInv
<1>9. TraceInv(s)
  <2>1. ASSUME r.sent # {} PROVE e # "none"
    <3>1. r.pc \in {"apply", "recheck", "over", "stopped"} /\ r.changes # {} /\ ~r.opts.dry
      BY <1>1, <2>1 DEF TraceInv, PlanInv, Points
    <3>2. r.pc = "apply" => Armed(r)
      BY <3>1 DEF Armed
    <3> QED
      BY <1>1, <1>2, <2>1, <3>1, <3>2 DEF TraceInv
  <2>2. r.opts.dry => r.sent = {} /\ e = "none"
    BY <1>1, <1>2 DEF TraceInv, Armed
  <2> QED
    BY <1>1, <1>3, <2>1, <2>2 DEF TraceInv
<1>10. LossInv(s, cluster)
  <2>1. ASSUME s.alone, e \notin {"interrupted", "unrecorded"},
               NEW c \in r.changes, c.kind = "update", cluster[c.obj] = Absent
        PROVE  c \in DOMAIN r.outs /\ r.outs[c] \in {"failed", "aborted"}
    <3>1. ~Armed(r) /\ r.entry \notin {"interrupted", "unrecorded"} /\ r.alone
      BY <1>2, <1>3, <2>1
    <3>2. r.pc \notin {"idle", "check", "read"}
      BY <1>1, <2>1 DEF PlanInv
    <3>3. CASE r.pc = "apply"
      <4>1. r.opts.dry
        BY <2>1, <3>1, <3>3 DEF Armed
      <4>2. r.calls = <<>>
        BY <1>1, <4>1 DEF CallInv
      <4>3. \A j \in DOMAIN r.calls : FALSE
        BY <4>2
      <4> QED
        BY <1>1, <2>1, <3>1, <3>3, <4>1, <4>3 DEF LossInv, Doomed
    <3>4. CASE r.pc \in {"recheck", "over", "stopped"}
      BY <1>1, <2>1, <3>1, <3>4 DEF LossInv
    <3> QED
      BY <1>1, <3>2, <3>3, <3>4 DEF Points
  <2> QED
    BY <1>3, <2>1 DEF LossInv
<1> QED
  BY <1>5, <1>6, <1>7, <1>8, <1>9, <1>10 DEF RunOK, s


\* What a step of the loop leaves alone.
Kept(r, s) ==
    /\ s.pc = r.pc /\ s.rec = r.rec /\ s.opts = r.opts /\ s.doc = r.doc /\ s.changes = r.changes
    /\ s.alone = r.alone

LEMMA OutcomeKept ==
    ASSUME NEW r, IsRun(r), NEW out
    PROVE  Kept(r, Outcome(r, out)) /\ Outcome(r, out).sent = r.sent
  BY DEF IsRun, Outcome, Kept

LEMMA TakeUpKept ==
    ASSUME NEW r, IsRun(r)
    PROVE  Kept(r, TakeUp(r)) /\ TakeUp(r).sent = r.sent
<1> DEFINE t == [r EXCEPT !.calls = CallsOf(Current(r))]
<1>1. (\E out \in Results : TakeUp(r) = Outcome(r, out)) \/ TakeUp(r) = t
  BY DEF TakeUp, Results
<1>2. Kept(r, t) /\ t.sent = r.sent
  BY DEF IsRun, Kept
<1> QED
  BY <1>1, <1>2, OutcomeKept

LEMMA AfterCallKept ==
    ASSUME NEW r, IsRun(r), NEW answer, Current(r) \in Changes
    PROVE  Kept(r, AfterCall(r, answer)) /\ AfterCall(r, answer).sent = r.sent \cup {Current(r)}
<1> DEFINE c == Current(r)
           s == [r EXCEPT !.sent = r.sent \cup {c}]
           t == [s EXCEPT !.calls = Tail(r.calls)]
<1>1. c \in Changes /\ r.sent \subseteq Changes
  BY DEF IsRun
<1> HIDE DEF c
<1>2. /\ IsRun(s) /\ s.alone = r.alone /\ s.pc = r.pc /\ s.rec = r.rec /\ s.opts = r.opts
      /\ s.doc = r.doc /\ s.changes = r.changes /\ s.sent = r.sent \cup {c} /\ s.calls = r.calls
  BY <1>1 DEF IsRun
<1>3. (\E out \in Results : AfterCall(r, answer) = Outcome(s, out)) \/ AfterCall(r, answer) = t
  BY <1>2 DEF AfterCall, Results, c
<1> HIDE DEF s
<1>4. Kept(s, t) /\ t.sent = s.sent
  BY <1>2 DEF IsRun, Kept
<1>5. Kept(s, AfterCall(r, answer)) /\ AfterCall(r, answer).sent = s.sent
  BY <1>2, <1>3, <1>4, OutcomeKept
<1> QED
  BY <1>2, <1>5 DEF Kept, c

----------------------------------------------------------------------------
(* The daemon's gate                                                       *)

LEMMA GateBlank ==
    ASSUME NEW r, IsRun(r), r.changes = {}, r.sent = {},
           r.pc = "read" => r.rec.on /\ r.opts = Unmanned(r.rec)
    PROVE  GateInv(r)
<1>1. r.rec.cap \in Nat \cup {NoCap}
  BY DEF IsRun, Cfgs, NoCfg
<1>2. {c \in r.changes : Dispatched(c, r.opts.prune)} = {}
  OBVIOUS
<1>3. ~OverCap(r.rec, r.changes, r.opts.prune)
  BY <1>1, <1>2, FS_EmptySet DEF OverCap
<1> QED
  BY <1>3 DEF GateInv

LEMMA GateSame ==
    ASSUME NEW r, NEW s, GateInv(r), s.rec = r.rec, s.opts = r.opts, s.changes = r.changes,
           s.pc = "apply" => r.pc = "apply" /\ s.doc = r.doc,
           s.pc = "read" => r.pc = "read",
           \A c \in s.sent : Dispatched(c, r.opts.prune)
    PROVE  GateInv(s)
  BY DEF GateInv

LEMMA GateBegin ==
    ASSUME NEW r, NEW source, NEW cluster, RunOK(r, source, cluster), GateInv(r), r.pc = "read",
           NEW mine, mine = Allowed(r.rec, DriftOf(r)),
           ~OverCap(r.rec, mine, r.opts.prune), ~Refused(mine, FALSE, r.opts.prune, Bulk)
    PROVE  mine \in SUBSET DriftOf(r) /\ GateInv(Begin(r, mine))
<1> DEFINE s == Begin(r, mine)
<1>1. IsRun(r) /\ r.sent = {}
  BY DEF RunOK, RunType, PlanInv
<1>2. /\ s.pc = "apply" /\ s.rec = r.rec /\ s.opts = r.opts /\ s.doc = r.doc
      /\ s.changes = mine /\ s.sent = {}
  BY <1>1 DEF IsRun, Begin
<1> HIDE DEF s
<1>3. \A c \in mine : /\ c \in DriftOf(r)
                      /\ r.rec.allowed = {} \/ FamilyOf[c.obj] \in r.rec.allowed
  BY DEF Allowed
<1>4. \A c \in DriftOf(r) : FamilyOf[c.obj] \in r.doc.managed
  BY DiffForm DEF DriftOf
<1>5. \A c \in mine : Dispatched(c, r.opts.prune) => ~Severe(c)
  BY DEF Refused
<1>6. r.rec.on /\ r.opts = Unmanned(r.rec)
  BY DEF GateInv
<1>7. GateInv(s)
  BY <1>2, <1>3, <1>4, <1>5, <1>6 DEF GateInv
<1> QED
  BY <1>3, <1>7 DEF s

----------------------------------------------------------------------------
(* The state: one run moves, the cluster with it or not                    *)

LEMMA DiffSame ==
    ASSUME NEW declared, NEW managed, NEW s, NEW t, DOMAIN s = DOMAIN t,
           \A o \in DOMAIN s : s[o] = t[o]
    PROVE  Diff(declared, managed, s) = Diff(declared, managed, t)
<1> DEFINE mine == {o \in DOMAIN s : FamilyOf[o] \in managed}
<1>1. mine = {o \in DOMAIN t : FamilyOf[o] \in managed} /\ \A o \in mine : s[o] = t[o]
  OBVIOUS
<1> HIDE DEF mine
<1>2. Deleted(declared, mine, s) = Deleted(declared, mine, t)
  BY <1>1 DEF Deleted
<1>3. Updated(declared, mine, s) = Updated(declared, mine, t)
  BY <1>1 DEF Updated
<1>4. Created(declared, mine, s) = Created(declared, mine, t)
  BY <1>1 DEF Created
<1> QED
  BY <1>1, <1>2, <1>3, <1>4 DEF Diff, mine

\* A run that read everything undisturbed has found the drift there is.
LEMMA DriftSeen ==
    ASSUME NEW r, RunOK(r, doc, live), r.pc \in Reads, r.alone, DOMAIN live \subseteq DOMAIN r.snap
    PROVE  DriftOf(r) = Drift
<1>1. DOMAIN r.snap = DOMAIN live
  BY DEF RunOK, RunType
<1>2. r.doc = doc /\ \A o \in DOMAIN r.snap : r.snap[o] = Exported(o, live[o])
  BY DEF RunOK, SeenInv
<1> DEFINE e == [o \in DOMAIN live |-> Exported(o, live[o])]
<1>3. DOMAIN e = DOMAIN r.snap /\ \A o \in DOMAIN r.snap : r.snap[o] = e[o]
  BY <1>1, <1>2
<1> HIDE DEF e
<1>4. Diff(doc.decl, doc.managed, r.snap) = Diff(doc.decl, doc.managed, e)
  BY <1>3, DiffSame
<1> QED
  BY <1>2, <1>4 DEF DriftOf, Drift, e


\* What the persisted status says of a drift.
StatusOf(r, st, drift) ==
    /\ r.pc = "idle" /\ r.alone /\ ~r.hurt /\ r.saved /\ st # "none" => (st = "sync" <=> drift = {})
    /\ r.pc = "read" /\ r.alone => drift # {} /\ (r.saved => st = "drift")

\* The rest of the state.
Scene ==
    /\ ClusterState(live) /\ ClusterState(doc.decl) /\ DOMAIN doc.decl = DOMAIN live
    /\ cfg \in Configs /\ locked \in BOOLEAN /\ events \in 0..MaxEvents
    /\ status \in {"none", "sync", "drift"}

\* The invariant in the form the proof goes by: both runs are runs.
ProofInv ==
    /\ Scene /\ run = [a \in Actors |-> run[a]]
    /\ \A a \in Actors : RunOK(run[a], doc, live)
    /\ GateInv(run["daemon"]) /\ StatusOf(run["daemon"], status, Drift)

LEMMA ProofInvSuffices ==
    ASSUME ProofInv PROVE TypeOK /\ ReconcileInv
<1>1. \A a \in Actors : IsRun(run[a]) /\ RunOK(run[a], doc, live)
  BY DEF ProofInv, RunOK, RunType
<1>2. TypeOK
  BY <1>1 DEF ProofInv, Scene, TypeOK, RunOK, RunType, IsRun, Entries
<1>3. StatusInv
  BY DEF ProofInv, StatusOf, StatusInv, StatusIsTrue
<1>4. ReconcileInv
  BY <1>1, <1>3 DEF ReconcileInv, ProofInv, RunOK
<1> QED
  BY <1>2, <1>4

\* One run moves, and nothing else of the cluster or the source.
LEMMA OwnStep ==
    ASSUME ProofInv, NEW a \in Actors, NEW s, run' = [run EXCEPT ![a] = s],
           UNCHANGED <<doc, live>>, Scene', RunOK(s, doc, live),
           a = "daemon" => GateInv(s) /\ StatusOf(s, status', Drift),
           a # "daemon" => status' = status
    PROVE  ProofInv'
<1>1. /\ run' = [b \in Actors |-> run'[b]] /\ run'[a] = s
      /\ \A b \in Actors : b # a => run'[b] = run[b]
  BY DEF ProofInv
<1>2. \A b \in Actors : RunOK(run[b], doc, live)
  BY DEF ProofInv
<1>3. \A b \in Actors : RunOK(run'[b], doc', live')
  BY <1>1, <1>2
<1>4. Drift' = Drift
  BY DEF Drift
<1>5. GateInv(run'["daemon"]) /\ StatusOf(run'["daemon"], status', Drift)
  BY <1>1 DEF ProofInv, Actors
<1> QED
  BY <1>1, <1>3, <1>4, <1>5 DEF ProofInv

\* Everybody is disturbed, or everybody but the one who did it.
LEMMA DisturbedFacts ==
    ASSUME NEW r, IsRun(r)
    PROVE  LET s == [r EXCEPT !.alone = FALSE]
           IN  /\ ~s.alone /\ s.pc = r.pc /\ s.rec = r.rec /\ s.opts = r.opts
               /\ s.changes = r.changes /\ s.doc = r.doc /\ s.sent = r.sent
  BY DEF IsRun

LEMMA DisturbedStep ==
    ASSUME ProofInv, run' = Disturbed, DOMAIN live' = DOMAIN live, Scene'
    PROVE  ProofInv'
<1>1. run' = [b \in Actors |-> [run[b] EXCEPT !.alone = FALSE]]
  BY DEF Disturbed
<1>2. run' = [b \in Actors |-> run'[b]]
  BY <1>1
<1>3. \A b \in Actors : run'[b] = [run[b] EXCEPT !.alone = FALSE]
  BY <1>1
<1>4. \A b \in Actors : RunOK(run[b], doc, live) /\ IsRun(run[b])
  BY DEF ProofInv, RunOK, RunType
<1>5. \A b \in Actors : RunOK(run'[b], doc', live')
  <2>1. \A b \in Actors : RunOK([run[b] EXCEPT !.alone = FALSE], doc', live')
    BY <1>4, DisturbedOK
  <2> QED
    BY <1>3, <2>1
<1> DEFINE r == run["daemon"]
           s == [r EXCEPT !.alone = FALSE]
<1>6. run'["daemon"] = s /\ IsRun(r) /\ GateInv(r)
  BY <1>3, <1>4 DEF Actors, ProofInv
<1> HIDE DEF r
<1>7. /\ ~s.alone /\ s.pc = r.pc /\ s.rec = r.rec /\ s.opts = r.opts
      /\ s.changes = r.changes /\ s.doc = r.doc /\ s.sent = r.sent
  BY <1>6, DisturbedFacts
<1> HIDE DEF s
<1>8. GateInv(s)
  <2>1. \A c \in s.sent : Dispatched(c, r.opts.prune)
    BY <1>6, <1>7 DEF GateInv
  <2> QED
    BY <1>6, <1>7, <2>1, GateSame
<1>9. StatusOf(s, status', Drift')
  BY <1>7 DEF StatusOf
<1> QED
  BY <1>2, <1>5, <1>6, <1>8, <1>9 DEF ProofInv

\* One run moves and takes the cluster with it.
LEMMA CallStep ==
    ASSUME ProofInv, NEW a \in Actors, NEW s, run' = [Reached(a, live') EXCEPT ![a] = s],
           UNCHANGED <<doc, status>>, DOMAIN live' = DOMAIN live, Scene', RunOK(s, doc, live'),
           a = "daemon" => GateInv(s) /\ s.pc = "apply"
    PROVE  ProofInv'
<1> DEFINE d(b) == [run[b] EXCEPT !.alone = FALSE]
<1>1. /\ run' = [b \in Actors |-> run'[b]] /\ run'[a] = s
      /\ \A b \in Actors : b # a => run'[b] = IF live' = live THEN run[b] ELSE d(b)
  BY DEF Reached
<1>2. \A b \in Actors : RunOK(run[b], doc, live) /\ IsRun(run[b])
  BY DEF ProofInv, RunOK, RunType
<1>3. \A b \in Actors : RunOK(d(b), doc, live')
  BY <1>2, DisturbedOK
<1>4. \A b \in Actors : RunOK(run'[b], doc', live')
  <2> HIDE DEF d
  <2> QED
    BY <1>1, <1>2, <1>3
<1>5. CASE a = "daemon"
  <2>1. GateInv(run'["daemon"]) /\ StatusOf(run'["daemon"], status', Drift')
    BY <1>1, <1>5 DEF StatusOf
  <2> QED
    BY <1>1, <1>4, <2>1 DEF ProofInv
<1>6. CASE a # "daemon" /\ live' = live
  <2>1. Drift' = Drift /\ run'["daemon"] = run["daemon"]
    BY <1>1, <1>6 DEF Drift, Actors
  <2> QED
    BY <1>1, <1>4, <2>1 DEF ProofInv
<1>7. CASE a # "daemon" /\ live' # live
  <2> DEFINE r == run["daemon"]
             t == [r EXCEPT !.alone = FALSE]
  <2>1. run'["daemon"] = t /\ IsRun(r) /\ GateInv(r)
    BY <1>1, <1>2, <1>7 DEF Actors, ProofInv
  <2> HIDE DEF r
  <2>2. /\ ~t.alone /\ t.pc = r.pc /\ t.rec = r.rec /\ t.opts = r.opts
        /\ t.changes = r.changes /\ t.doc = r.doc /\ t.sent = r.sent
    BY <2>1, DisturbedFacts
  <2> HIDE DEF t
  <2>3. \A c \in t.sent : Dispatched(c, r.opts.prune)
    BY <2>1, <2>2 DEF GateInv
  <2>4. GateInv(t)
    BY <2>1, <2>2, <2>3, GateSame
  <2>5. StatusOf(t, status', Drift')
    BY <2>2 DEF StatusOf
  <2> QED
    BY <1>1, <1>4, <2>1, <2>4, <2>5 DEF ProofInv
<1> QED
  BY <1>5, <1>6, <1>7


----------------------------------------------------------------------------
(* The actions                                                             *)

LEMMA InitOK == Init => ProofInv
<1> SUFFICES ASSUME Init PROVE ProofInv
  OBVIOUS
<1>1. PICK w \in Worlds : doc = [decl |-> w.decl, managed |-> w.managed] /\ live = w.live
  BY DEF Init
<1>2. Scene
  <2>1. /\ ClusterState(w.decl) /\ ClusterState(w.live) /\ DOMAIN w.decl = DOMAIN w.live
        /\ MaxEvents \in Nat
    BY ReconcileAssumption
  <2>2. doc.decl = w.decl /\ live = w.live
    BY <1>1
  <2>3. cfg \in Configs /\ locked = FALSE /\ events = 0 /\ status = "none"
    BY DEF Init
  <2>4. ClusterState(live) /\ ClusterState(doc.decl) /\ DOMAIN doc.decl = DOMAIN live
    BY <2>1, <2>2
  <2>5. events \in 0..MaxEvents
    BY <2>1, <2>3
  <2> QED
    BY <2>3, <2>4, <2>5 DEF Scene
<1>3. run = [a \in Actors |-> Idle]
  BY DEF Init
<1>4. run = [a \in Actors |-> run[a]] /\ \A a \in Actors : run[a] = Idle
  BY <1>3
<1>5. RunOK(Idle, doc, live) /\ GateInv(Idle)
  <2>1. SeenInv(Idle, doc, live)
    BY IdleFacts DEF SeenInv, Reads
  <2>2. RunOK(Idle, doc, live)
    BY <2>1, IdleFacts, NothingFacts, BlankOK
  <2>3. GateInv(Idle)
    BY IdleFacts, GateBlank
  <2> QED
    BY <2>2, <2>3
<1>6. StatusOf(Idle, status, Drift)
  BY IdleFacts DEF Init, StatusOf
<1> QED
  BY <1>2, <1>4, <1>5, <1>6 DEF ProofInv, Actors

LEMMA EventFacts ==
    ASSUME Scene, Event PROVE events' \in 0..MaxEvents
  BY ReconcileAssumption DEF Scene, Event

\* A write that may fail counts as an event when it does.
LEMMA FaultFacts ==
    ASSUME ProofInv, NEW ok, FaultUnless(ok) PROVE events' \in 0..MaxEvents
  BY EventFacts DEF ProofInv, Scene, FaultUnless

LEMMA EditOK ==
    ASSUME ProofInv, NEW o \in DOMAIN live, NEW v \in Edits[o], Edit(o, v)
    PROVE  ProofInv'
<1>1. Scene /\ ClusterState(live) /\ o \in Obj
  BY DEF ProofInv, Scene, ClusterState
<1>2. v = Absent \/ v \in Decl(o)
  BY <1>1, ReconcileAssumption
<1>3. DOMAIN live' = DOMAIN live /\ ClusterState(live')
  <2>1. live' = Purged(o, live) \/ live' = [live EXCEPT ![o] = v]
    BY DEF Edit
  <2> QED
    BY <1>1, <1>2, <2>1, PurgedFacts, WrittenFacts
<1>4. Scene'
  <2>1. events' \in 0..MaxEvents
    BY <1>1, EventFacts DEF Edit
  <2> QED
    BY <1>1, <1>3, <2>1 DEF Scene, Edit
<1> QED
  BY <1>3, <1>4, DisturbedStep DEF Edit

LEMMA PushOK ==
    ASSUME ProofInv, NEW d \in Documents, Push(d)
    PROVE  ProofInv'
<1>1. Scene
  BY DEF ProofInv
<1>2. ClusterState(d.decl)
  BY ReconcileAssumption
<1>3. events' \in 0..MaxEvents
  BY <1>1, EventFacts DEF Push
<1>4. Scene' /\ DOMAIN live' = DOMAIN live
  BY <1>1, <1>2, <1>3 DEF Scene, Push
<1> QED
  BY <1>4, DisturbedStep DEF Push

LEMMA LockOK ==
    ASSUME ProofInv, Lock PROVE ProofInv'
<1>1. Scene
  BY DEF ProofInv
<1>2. events' \in 0..MaxEvents
  BY <1>1, EventFacts DEF Lock
<1>3. Scene' /\ DOMAIN live' = DOMAIN live
  BY <1>1, <1>2 DEF Scene, Lock
<1> QED
  BY <1>3, DisturbedStep DEF Lock

LEMMA ReloadOK ==
    ASSUME ProofInv, NEW c \in Configs, Reload(c) PROVE ProofInv'
<1>1. Scene
  BY DEF ProofInv
<1>2. events' \in 0..MaxEvents
  BY <1>1, EventFacts DEF Reload
<1>3. Scene'
  BY <1>1, <1>2 DEF Scene, Reload
<1>4. Drift' = Drift /\ UNCHANGED <<doc, live, status, run>>
  BY DEF Reload, Drift
<1> QED
  BY <1>3, <1>4 DEF ProofInv

LEMMA ExportStep ==
    ASSUME ProofInv, NEW a \in Actors, Export(a)
    PROVE  ProofInv'
<1> DEFINE r == run[a]
<1>1. PICK o \in DOMAIN live :
         run' = [run EXCEPT ![a].snap = Extended(@, o, Exported(o, live[o]))]
  <2> DEFINE U == Unread(r)
             P(p) == \A q \in U : FamilyRank[p] <= FamilyRank[q]
  <2>1. U # {} /\ U \subseteq Obj /\ U \subseteq DOMAIN live
    BY DEF Export, Unread, ProofInv, Scene, ClusterState
  <2>2. \E p \in U : P(p)
    <3> HIDE DEF U
    <3> DEFINE T == {FamilyRank[p] : p \in U}
    <3>1. T \in SUBSET Nat /\ T # {}
      BY <2>1, RankFacts
    <3>2. PICK x \in T : \A y \in T : ~(y < x)
      BY <3>1, LeastOf
    <3>3. PICK p \in U : x = FamilyRank[p]
      BY <3>2
    <3>4. ASSUME NEW q \in U PROVE FamilyRank[p] <= FamilyRank[q]
      <4>1. FamilyRank[q] \in T /\ FamilyRank[q] \in Nat /\ x \in Nat
        BY <3>1
      <4> QED
        BY <3>2, <3>3, <4>1
    <3> QED
      BY <3>4
  <2>3. (CHOOSE p \in U : P(p)) \in U
    BY <2>2
  <2> QED
    BY <2>1, <2>3 DEF Export
<1> DEFINE x == Extended(r.snap, o, Exported(o, live[o]))
           s == [r EXCEPT !.snap = x]
<1>2. run' = [run EXCEPT ![a] = s]
  BY <1>1 DEF ProofInv
<1>3. RunOK(r, doc, live) /\ ClusterState(live) /\ r.pc \in Reads /\ IsRun(r)
  BY DEF ProofInv, Scene, Export, Reads, RunOK, RunType
<1>4. RunOK(s, doc, live)
  BY <1>3, ExportOK
<1>5. Scene' /\ UNCHANGED <<doc, live, status>>
  BY DEF ProofInv, Scene, Export
<1>6. a = "daemon" => GateInv(r) /\ StatusOf(r, status, Drift)
  BY DEF ProofInv
<1> HIDE DEF r
<1>7. /\ s.pc = r.pc /\ s.rec = r.rec /\ s.opts = r.opts /\ s.changes = r.changes
      /\ s.doc = r.doc /\ s.sent = r.sent /\ s.alone = r.alone /\ s.hurt = r.hurt
      /\ s.saved = r.saved
  BY <1>3 DEF IsRun
<1> HIDE DEF s
<1>8. a = "daemon" => GateInv(s) /\ StatusOf(s, status, Drift)
  <2>1. GateInv(r) => \A c \in s.sent : Dispatched(c, r.opts.prune)
    BY <1>7 DEF GateInv
  <2>2. GateInv(r) => GateInv(s)
    BY <1>7, <2>1, GateSame
  <2> QED
    BY <1>6, <1>7, <2>2 DEF StatusOf
<1> QED
  BY <1>2, <1>4, <1>5, <1>8, OwnStep


\* A run without a plan, as it is before the gate.
Blank(r) ==
    IsRun(r) /\ r.changes = {} /\ r.sent = {} /\ r.calls = <<>> /\ DOMAIN r.outs = {} /\ r.entry = "none"

LEMMA BlankBefore ==
    ASSUME NEW r, NEW source, NEW cluster, RunOK(r, source, cluster), r.pc \in {"check", "read"}
    PROVE  Blank(r)
  BY DEF RunOK, RunType, PlanInv, TraceInv, Blank

\* The source is loaded and the export begins.
LEMMA ReadOK ==
    ASSUME Scene, NEW r, Blank(r), NEW pc \in {"check", "read"}
    PROVE  LET s == StartRead(r, pc)
           IN  /\ RunOK(s, doc, live) /\ Blank(s)
               /\ s.pc = pc /\ s.rec = r.rec /\ s.opts = r.opts /\ s.alone = r.alone
               /\ s.saved = r.saved
<1> DEFINE s == StartRead(r, pc)
<1>1. /\ IsRun(s) /\ s.pc = pc /\ s.rec = r.rec /\ s.opts = r.opts /\ s.changes = {}
      /\ s.sent = {} /\ s.calls = <<>> /\ s.outs = r.outs /\ s.entry = "none"
      /\ s.snap = Nothing /\ s.doc = doc /\ s.alone = r.alone /\ s.saved = r.saved
  BY DEF Blank, IsRun, StartRead, Points
<1> HIDE DEF s
<1>2. Blank(s)
  BY <1>1 DEF Blank
<1>3. SeenInv(s, doc, live)
  BY <1>1, NothingFacts DEF SeenInv, Scene
<1>4. RunOK(s, doc, live)
  BY <1>1, <1>2, <1>3, NothingFacts, BlankOK DEF Blank
<1> QED
  BY <1>1, <1>2, <1>4 DEF s

\* The run is over and the loop waits for the next tick.
LEMMA EndedOK ==
    ASSUME NEW r, IsRun(r), NEW source, NEW cluster
    PROVE  LET s == Ended(r)
           IN  /\ RunOK(s, source, cluster) /\ GateInv(s)
               /\ s.pc = "idle" /\ s.alone = r.alone /\ s.hurt = r.hurt /\ s.saved = r.saved
<1> DEFINE s == Ended(r)
<1>1. r.alone \in BOOLEAN /\ r.hurt \in BOOLEAN /\ r.saved \in BOOLEAN
  BY DEF IsRun
<1>2. /\ IsRun(s) /\ s.pc = "idle" /\ s.changes = {} /\ s.sent = {} /\ s.calls = <<>>
      /\ DOMAIN s.outs = {} /\ s.snap = Nothing /\ s.entry = "none"
      /\ s.alone = r.alone /\ s.hurt = r.hurt /\ s.saved = r.saved
  BY <1>1, IdleFacts DEF Ended, IsRun
<1> HIDE DEF s
<1>3. SeenInv(s, source, cluster)
  BY <1>2 DEF SeenInv, Reads
<1>4. RunOK(s, source, cluster)
  BY <1>2, <1>3, NothingFacts, BlankOK
<1>5. GateInv(s)
  BY <1>2, GateBlank
<1> QED
  BY <1>2, <1>4, <1>5 DEF s

LEMMA RestartStep ==
    ASSUME ProofInv, Restart PROVE ProofInv'
<1> DEFINE s == [Idle EXCEPT !.alone = FALSE]
<1>1. run' = [run EXCEPT !["daemon"] = s] /\ UNCHANGED <<doc, live, cfg, locked, status, events>>
  BY DEF Restart
<1>2. /\ IsRun(s) /\ s.pc = "idle" /\ s.changes = {} /\ s.sent = {} /\ s.calls = <<>>
      /\ DOMAIN s.outs = {} /\ s.snap = Nothing /\ s.entry = "none" /\ ~s.alone
  BY IdleFacts DEF IsRun
<1> HIDE DEF s
<1>3. SeenInv(s, doc, live)
  BY <1>2 DEF SeenInv, Reads
<1>4. RunOK(s, doc, live)
  BY <1>2, <1>3, NothingFacts, BlankOK
<1>5. GateInv(s) /\ StatusOf(s, status', Drift)
  BY <1>2, GateBlank DEF StatusOf
<1>6. Scene'
  BY <1>1 DEF ProofInv, Scene
<1> QED
  BY <1>1, <1>4, <1>5, <1>6, OwnStep DEF Actors

LEMMA ExportFailsStep ==
    ASSUME ProofInv, NEW a \in Actors, ExportFails(a) PROVE ProofInv'
<1> DEFINE pc == IF a = "daemon" THEN "idle" ELSE "over"
           e == run[a].entry
           s == [Idle EXCEPT !.pc = pc, !.entry = e, !.hurt = TRUE]
<1>1. /\ run' = [run EXCEPT ![a] = s] /\ UNCHANGED <<doc, live, cfg, locked, status>> /\ Event
  BY DEF ExportFails
<1>2. e \in Entries /\ pc \in {"idle", "over"} /\ pc \in Points
  BY DEF ProofInv, RunOK, RunType, IsRun, Points
<1> HIDE DEF e, pc
<1>3. /\ IsRun(s) /\ s.pc = pc /\ s.changes = {} /\ s.sent = {} /\ s.calls = <<>> /\ s.hurt
      /\ DOMAIN s.outs = {} /\ s.snap = Nothing /\ ~s.opts.dry
  BY <1>2, IdleFacts DEF IsRun
<1> HIDE DEF s
<1>4. SeenInv(s, doc, live)
  BY <1>2, <1>3 DEF SeenInv, Reads
<1>5. RunOK(s, doc, live)
  BY <1>2, <1>3, <1>4, NothingFacts, BlankOK
<1>6. GateInv(s) /\ StatusOf(s, status', Drift)
  BY <1>2, <1>3, GateBlank DEF StatusOf
<1>7. Scene'
  <2>1. events' \in 0..MaxEvents
    BY <1>1, EventFacts DEF ProofInv
  <2> QED
    BY <1>1, <2>1 DEF ProofInv, Scene
<1> QED
  BY <1>1, <1>5, <1>6, <1>7, OwnStep

LEMMA TickStep ==
    ASSUME ProofInv, Tick PROVE ProofInv'
<1> DEFINE i == [Idle EXCEPT !.rec = cfg]
           s == StartRead(i, "check")
<1>1. run' = [run EXCEPT !["daemon"] = s] /\ UNCHANGED <<doc, live, cfg, locked, status, events>>
  BY DEF Tick
<1>2. Scene /\ cfg \in Cfgs \cup {NoCfg}
  BY ReconcileAssumption DEF ProofInv, Scene
<1>3. Blank(i)
  BY <1>2, IdleFacts DEF IsRun, Blank
<1> HIDE DEF i
<1>4. RunOK(s, doc, live) /\ Blank(s) /\ s.pc = "check"
  BY <1>2, <1>3, ReadOK
<1> HIDE DEF s
<1>5. GateInv(s) /\ StatusOf(s, status', Drift)
  BY <1>4, GateBlank DEF StatusOf, Blank
<1>6. Scene'
  BY <1>1, <1>2 DEF Scene
<1> QED
  BY <1>1, <1>4, <1>5, <1>6, OwnStep DEF Actors

LEMMA CommandStep ==
    ASSUME ProofInv, NEW opts \in Options, Command(opts) PROVE ProofInv'
<1> DEFINE i == [Idle EXCEPT !.opts = opts]
           s == StartRead(i, "read")
<1>1. run' = [run EXCEPT !["operator"] = s] /\ UNCHANGED <<doc, live, cfg, locked, status, events>>
  BY DEF Command
<1>2. Scene /\ opts \in Opts
  BY ReconcileAssumption DEF ProofInv
<1>3. Blank(i)
  BY <1>2, IdleFacts DEF IsRun, Blank
<1> HIDE DEF i
<1>4. RunOK(s, doc, live)
  BY <1>2, <1>3, ReadOK
<1> HIDE DEF s
<1>5. Scene'
  BY <1>1, <1>2 DEF Scene
<1> QED
  BY <1>1, <1>4, <1>5, OwnStep DEF Actors


LEMMA CheckedStep ==
    ASSUME ProofInv, Checked PROVE ProofInv'
<1> DEFINE r == run["daemon"]
           drift == DriftOf(r)
           go == drift # {} /\ r.rec.on /\ ~locked
<1>0. PICK saved \in BOOLEAN :
        LET t == [r EXCEPT !.saved = saved]
        IN  /\ r.pc = "check" /\ Unread(r) = {} /\ SaveStatus(drift, saved) /\ FaultUnless(saved)
            /\ run' = [run EXCEPT !["daemon"] =
                          IF go THEN StartRead([t EXCEPT !.opts = Unmanned(r.rec)], "read") ELSE Ended(t)]
            /\ UNCHANGED <<doc, live, cfg, locked>>
  BY DEF Checked
<1> DEFINE t == [r EXCEPT !.saved = saved]
           i == [t EXCEPT !.opts = Unmanned(r.rec)]
           s == IF go THEN StartRead(i, "read") ELSE Ended(t)
           st == IF ~saved THEN status ELSE IF drift = {} THEN "sync" ELSE "drift"
<1>1. /\ r.pc = "check" /\ Unread(r) = {} /\ status' = st
      /\ run' = [run EXCEPT !["daemon"] = s] /\ UNCHANGED <<doc, live, cfg, locked>>
  BY <1>0 DEF SaveStatus
<1>2. Scene /\ RunOK(r, doc, live)
  BY DEF ProofInv, Actors
<1>3. r.alone => drift = Drift
  BY <1>1, <1>2, DriftSeen DEF Reads, Unread
<1>4. Scene'
  <2>1. st \in {"none", "sync", "drift"}
    BY <1>2 DEF Scene
  <2>2. events' \in 0..MaxEvents
    BY <1>0, FaultFacts
  <2> HIDE DEF st
  <2> QED
    BY <1>1, <1>2, <2>1, <2>2 DEF Scene
<1> HIDE DEF r, drift
<1>5. /\ Blank(t) /\ IsRun(t) /\ t.alone = r.alone /\ t.hurt = r.hurt /\ t.saved = saved
      /\ t.rec = r.rec
  <2>1. Blank(r) /\ IsRun(r)
    BY <1>1, <1>2, BlankBefore DEF Blank
  <2> QED
    BY <2>1 DEF Blank, IsRun
<1> HIDE DEF t
<1>6. CASE go
  <2>1. Unmanned(r.rec) \in Opts
    <3> DEFINE p == r.rec.prune /\ r.rec.cap # NoCap
    <3>1. p \in BOOLEAN
      OBVIOUS
    <3>2. Unmanned(r.rec) = [dry |-> FALSE, prune |-> p, cont |-> FALSE, force |-> FALSE,
                             asks |-> FALSE]
      BY DEF Unmanned
    <3> HIDE DEF p
    <3> QED
      BY <3>1, <3>2 DEF Opts
  <2>2. /\ Blank(i) /\ i.opts = Unmanned(r.rec) /\ i.rec = r.rec /\ i.alone = r.alone
        /\ i.saved = saved
    BY <1>5, <2>1 DEF IsRun, Blank
  <2> HIDE DEF i
  <2>3. /\ RunOK(s, doc, live) /\ Blank(s) /\ s.pc = "read" /\ s.rec = r.rec
        /\ s.opts = Unmanned(r.rec) /\ s.alone = r.alone /\ s.saved = saved
    BY <1>2, <1>6, <2>2, ReadOK
  <2>4. r.rec.on /\ drift # {}
    BY <1>6
  <2> HIDE DEF s, go
  <2>5. GateInv(s)
    BY <2>3, <2>4, GateBlank DEF Blank
  <2>6. StatusOf(s, st, Drift)
    BY <1>3, <2>3, <2>4 DEF StatusOf
  <2> HIDE DEF st
  <2> QED
    BY <1>1, <1>4, <2>3, <2>5, <2>6, OwnStep DEF Actors
<1>7. CASE ~go
  <2>1. /\ RunOK(s, doc, live) /\ GateInv(s)
        /\ s.pc = "idle" /\ s.alone = r.alone /\ s.hurt = r.hurt /\ s.saved = saved
    BY <1>5, <1>7, EndedOK
  <2> HIDE DEF s, go
  <2>2. StatusOf(s, st, Drift)
    BY <1>3, <2>1 DEF StatusOf
  <2> HIDE DEF st
  <2> QED
    BY <1>1, <1>4, <2>1, <2>2, OwnStep DEF Actors
<1> QED
  BY <1>6, <1>7

LEMMA RecheckedStep ==
    ASSUME ProofInv, Rechecked PROVE ProofInv'
<1> DEFINE r == run["daemon"]
           drift == DriftOf(r)
<1>0. PICK saved \in BOOLEAN :
        /\ r.pc = "recheck" /\ Unread(r) = {} /\ SaveStatus(drift, saved) /\ FaultUnless(saved)
        /\ run' = [run EXCEPT !["daemon"] = Ended([r EXCEPT !.saved = saved])]
        /\ UNCHANGED <<doc, live, cfg, locked>>
  BY DEF Rechecked
<1> DEFINE t == [r EXCEPT !.saved = saved]
           s == Ended(t)
           st == IF ~saved THEN status ELSE IF drift = {} THEN "sync" ELSE "drift"
<1>1. /\ r.pc = "recheck" /\ Unread(r) = {} /\ status' = st
      /\ run' = [run EXCEPT !["daemon"] = s] /\ UNCHANGED <<doc, live, cfg, locked>>
  BY <1>0 DEF SaveStatus
<1>2. Scene /\ RunOK(r, doc, live) /\ IsRun(r)
  BY DEF ProofInv, Actors, RunOK, RunType
<1>3. r.alone => drift = Drift
  BY <1>1, <1>2, DriftSeen DEF Reads, Unread
<1>4. Scene'
  <2>1. st \in {"none", "sync", "drift"}
    BY <1>2 DEF Scene
  <2>2. events' \in 0..MaxEvents
    BY <1>0, FaultFacts
  <2> HIDE DEF st
  <2> QED
    BY <1>1, <1>2, <2>1, <2>2 DEF Scene
<1> HIDE DEF r, drift
<1>5. /\ RunOK(s, doc, live) /\ GateInv(s)
      /\ s.pc = "idle" /\ s.alone = r.alone /\ s.hurt = r.hurt /\ s.saved = saved
  <2>1. IsRun(t) /\ t.alone = r.alone /\ t.hurt = r.hurt /\ t.saved = saved
    BY <1>2 DEF IsRun
  <2> HIDE DEF t
  <2> QED
    BY <2>1, EndedOK
<1> HIDE DEF s
<1>6. StatusOf(s, st, Drift)
  BY <1>3, <1>5 DEF StatusOf
<1> HIDE DEF st
<1> QED
  BY <1>1, <1>4, <1>5, <1>6, OwnStep DEF Actors

LEMMA UnmannedGateStep ==
    ASSUME ProofInv, UnmannedGate PROVE ProofInv'
<1> DEFINE r == run["daemon"]
           mine == Allowed(r.rec, DriftOf(r))
           refused == OverCap(r.rec, mine, r.opts.prune) \/ Refused(mine, FALSE, r.opts.prune, Bulk)
           s == IF refused THEN Ended(r) ELSE Begin(r, mine)
<1>1. /\ r.pc = "read" /\ Unread(r) = {}
      /\ run' = [run EXCEPT !["daemon"] = s] /\ UNCHANGED <<doc, live, cfg, locked, status, events>>
  BY DEF UnmannedGate
<1>2. /\ Scene /\ RunOK(r, doc, live) /\ IsRun(r) /\ GateInv(r) /\ ClusterState(live)
      /\ StatusOf(r, status, Drift) /\ DOMAIN live \subseteq DOMAIN r.snap
  BY <1>1 DEF ProofInv, Actors, RunOK, RunType, Scene, Unread
<1>3. Scene'
  BY <1>1, <1>2 DEF Scene
<1> HIDE DEF r, mine
<1>4. CASE refused
  <2>1. /\ RunOK(s, doc, live) /\ GateInv(s)
        /\ s.pc = "idle" /\ s.alone = r.alone /\ s.hurt = r.hurt /\ s.saved = r.saved
    BY <1>2, <1>4, EndedOK
  <2> HIDE DEF s, refused
  <2>2. StatusOf(s, status, Drift)
    BY <1>1, <1>2, <2>1 DEF StatusOf
  <2> QED
    BY <1>1, <1>3, <2>1, <2>2, OwnStep DEF Actors
<1>5. CASE ~refused
  <2>1. mine \in SUBSET DriftOf(r) /\ GateInv(Begin(r, mine))
    BY <1>1, <1>2, <1>5, GateBegin DEF mine
  <2>2. RunOK(Begin(r, mine), doc, live) /\ Begin(r, mine).pc = "apply"
    <3>1. Begin(r, mine).pc = "apply"
      BY <1>2 DEF IsRun, Begin
    <3> QED
      BY <1>1, <1>2, <2>1, <3>1, BeginOK
  <2>3. s = Begin(r, mine)
    BY <1>5
  <2> HIDE DEF s, refused
  <2>4. StatusOf(s, status, Drift)
    BY <2>2, <2>3 DEF StatusOf
  <2> QED
    BY <1>1, <1>3, <2>1, <2>2, <2>3, <2>4, OwnStep DEF Actors
<1> QED
  BY <1>4, <1>5

LEMMA OperatorGateStep ==
    ASSUME ProofInv, OperatorGate PROVE ProofInv'
<1> DEFINE r == run["operator"]
           drift == DriftOf(r)
<1>1. /\ r.pc = "read" /\ Unread(r) = {} /\ UNCHANGED <<doc, live, cfg, locked, status, events>>
      /\ \/ run' = [run EXCEPT !["operator"].pc = "over"]
         \/ \E no \in SUBSET {o \in DOMAIN live : r.opts.asks /\ ~r.opts.dry} :
               run' = [run EXCEPT !["operator"] =
                         Begin(r, {c \in drift : ~(c.obj \in no /\ Confirmable(c, r.opts))})]
  BY DEF OperatorGate
<1>2. /\ Scene /\ RunOK(r, doc, live) /\ IsRun(r) /\ ClusterState(live)
      /\ DOMAIN live \subseteq DOMAIN r.snap
  BY <1>1 DEF ProofInv, Actors, RunOK, RunType, Scene, Unread
<1>3. Scene'
  BY <1>1, <1>2 DEF Scene
<1>4. CASE run' = [run EXCEPT !["operator"].pc = "over"]
  <2> DEFINE s == [r EXCEPT !.pc = "over"]
  <2>1. run' = [run EXCEPT !["operator"] = s]
    BY <1>4 DEF ProofInv
  <2>2. Blank(r)
    BY <1>1, <1>2, BlankBefore
  <2> HIDE DEF r
  <2>3. Blank(s) /\ s.pc = "over" /\ s.snap = r.snap
    BY <2>2 DEF Blank, IsRun, Points
  <2> HIDE DEF s
  <2>4. SeenInv(s, doc, live)
    BY <2>3 DEF SeenInv, Reads
  <2>5. ClusterState(s.snap) /\ DOMAIN s.snap \subseteq DOMAIN live
    BY <1>2, <2>3 DEF RunOK, RunType
  <2>6. RunOK(s, doc, live)
    BY <2>3, <2>4, <2>5, BlankOK DEF Blank
  <2> QED
    BY <1>1, <1>3, <2>1, <2>6, OwnStep DEF Actors
<1>5. CASE \E no \in SUBSET {o \in DOMAIN live : r.opts.asks /\ ~r.opts.dry} :
             run' = [run EXCEPT !["operator"] =
                       Begin(r, {c \in drift : ~(c.obj \in no /\ Confirmable(c, r.opts))})]
  <2>1. PICK S \in SUBSET DriftOf(r) : run' = [run EXCEPT !["operator"] = Begin(r, S)]
    BY <1>5
  <2> HIDE DEF r
  <2>2. RunOK(Begin(r, S), doc, live)
    BY <1>1, <1>2, BeginOK
  <2> QED
    BY <1>1, <1>3, <2>1, <2>2, OwnStep DEF Actors
<1> QED
  BY <1>1, <1>4, <1>5


\* A step of the loop keeps the gate's promises, when it calls for what may be sent.
LEMMA LoopGate ==
    ASSUME NEW r, NEW s, Kept(r, s), GateInv(r), r.pc = "apply",
           \A c \in s.sent : c \in r.sent \/ Dispatched(c, r.opts.prune)
    PROVE  GateInv(s)
<1>1. \A c \in s.sent : Dispatched(c, r.opts.prune)
  BY DEF GateInv
<1> QED
  BY <1>1, GateSame DEF Kept

LEMMA NextChangeStep ==
    ASSUME ProofInv, NEW a \in Actors, NextChange(a) PROVE ProofInv'
<1> DEFINE r == run[a]
           s == TakeUp(r)
<1>1. /\ r.pc = "apply" /\ r.calls = <<>> /\ Pending(r) # {} /\ run' = [run EXCEPT ![a] = s]
      /\ UNCHANGED <<doc, live, cfg, locked, status, events>>
  BY DEF NextChange
<1>2. RunOK(r, doc, live) /\ IsRun(r) /\ (a = "daemon" => GateInv(r))
  BY DEF ProofInv, RunOK, RunType
<1>3. Scene'
  BY <1>1 DEF ProofInv, Scene
<1> HIDE DEF r
<1>4. RunOK(s, doc, live)
  BY <1>1, <1>2, TakeUpOK
<1>5. Kept(r, s) /\ s.sent = r.sent
  BY <1>2, TakeUpKept
<1> HIDE DEF s
<1>6. a = "daemon" => GateInv(s)
  BY <1>1, <1>2, <1>5, LoopGate
<1>7. StatusOf(s, status', Drift)
  BY <1>1, <1>5 DEF StatusOf, Kept
<1> QED
  BY <1>1, <1>3, <1>4, <1>6, <1>7, OwnStep

LEMMA CallLockedStep ==
    ASSUME ProofInv, NEW a \in Actors, CallLocked(a) PROVE ProofInv'
<1> DEFINE r == run[a]
           o == Outcome(r, "failed")
           s == [o EXCEPT !.hurt = TRUE]
<1>1. /\ r.pc = "apply" /\ r.calls # <<>> /\ run' = [run EXCEPT ![a] = s]
      /\ UNCHANGED <<doc, live, cfg, locked, status, events>>
  BY DEF CallLocked
<1>2. RunOK(r, doc, live) /\ IsRun(r) /\ (a = "daemon" => GateInv(r))
  BY DEF ProofInv, RunOK, RunType
<1>3. Scene'
  BY <1>1 DEF ProofInv, Scene
<1> HIDE DEF r
<1>4. RunOK(s, doc, live)
  BY <1>1, <1>2, LockedOK
<1>5. Kept(r, s) /\ s.sent = r.sent
  BY <1>2 DEF Outcome, IsRun, Kept
<1> HIDE DEF s
<1>6. a = "daemon" => GateInv(s)
  BY <1>1, <1>2, <1>5, LoopGate
<1>7. StatusOf(s, status', Drift)
  BY <1>1, <1>5 DEF StatusOf, Kept
<1> QED
  BY <1>1, <1>3, <1>4, <1>6, <1>7, OwnStep

LEMMA ReportStep ==
    ASSUME ProofInv, NEW a \in Actors, Report(a) PROVE ProofInv'
<1> DEFINE r == run[a]
<1>0. PICK e \in Written(r) : /\ run' = [run EXCEPT ![a] = Reported(a, [r EXCEPT !.entry = e])]
                             /\ FaultUnless(e # "lost")
  BY DEF Report
<1> DEFINE u == [r EXCEPT !.entry = e]
           s == Reported(a, u)
<1>1. RunOK(r, doc, live) /\ IsRun(r) /\ (a = "daemon" => GateInv(r)) /\ Scene
  BY DEF ProofInv, RunOK, RunType
<1>2. /\ r.pc = "apply" /\ Pending(r) = {} /\ run' = [run EXCEPT ![a] = s]
      /\ UNCHANGED <<doc, live, cfg, locked, status>>
  BY <1>0 DEF Report
<1>3. Scene'
  <2>1. events' \in 0..MaxEvents
    BY <1>0, FaultFacts
  <2> QED
    BY <1>1, <1>2, <2>1 DEF Scene
<1> HIDE DEF r
<1>4. RunOK(s, doc, live)
  BY <1>1, <1>2, ReportOK DEF Scene
<1>5. e \in Entries
  BY <1>1 DEF IsRun, Entries, Written
<1>6. /\ s.pc \in {"recheck", "over"} /\ s.rec = r.rec /\ s.opts = r.opts
      /\ s.changes = r.changes /\ s.sent = r.sent
  <2>1. /\ IsRun(u) /\ u.rec = r.rec /\ u.opts = r.opts /\ u.changes = r.changes
        /\ u.sent = r.sent
    BY <1>1, <1>5 DEF IsRun
  <2> HIDE DEF u
  <2> QED
    BY <2>1 DEF Reported, StartRead, IsRun
<1> HIDE DEF s
<1>7. a = "daemon" => GateInv(s)
  <2>1. GateInv(r) => \A c \in s.sent : Dispatched(c, r.opts.prune)
    BY <1>6 DEF GateInv
  <2> QED
    BY <1>1, <1>6, <2>1, GateSame
<1>8. StatusOf(s, status', Drift)
  BY <1>6 DEF StatusOf
<1> QED
  BY <1>2, <1>3, <1>4, <1>7, <1>8, OwnStep

LEMMA StopStep ==
    ASSUME ProofInv, Stop PROVE ProofInv'
<1> DEFINE r == run["daemon"]
<1>0. PICK e \in Dropped(r) : run' = [run EXCEPT !["daemon"].pc = "stopped", !["daemon"].entry = e]
  BY DEF Stop
<1> DEFINE s == [r EXCEPT !.pc = "stopped", !.entry = e]
<1>1. RunOK(r, doc, live) /\ IsRun(r) /\ GateInv(r) /\ Scene
  BY DEF ProofInv, RunOK, RunType, Actors
<1>2. run' = [run EXCEPT !["daemon"] = s] /\ UNCHANGED <<doc, live, cfg, locked, status>> /\ Event
  <2>1. run' = [run EXCEPT !["daemon"].pc = "stopped", !["daemon"].entry = e]
    BY <1>0
  <2>2. run = [b \in Actors |-> run[b]] /\ "daemon" \in Actors
    BY DEF ProofInv, Actors
  <2>3. r \in [pc : Points, rec : Cfgs \cup {NoCfg}, opts : Opts, doc : {r.doc}, snap : {r.snap},
               changes : SUBSET Changes, calls : Seq(Calls), outs : {r.outs},
               sent : SUBSET Changes, entry : Entries, alone : BOOLEAN, hurt : BOOLEAN,
           saved : BOOLEAN]
    BY <1>1 DEF IsRun
  <2>4. run' = [run EXCEPT !["daemon"] = s]
    BY <2>1, <2>2, <2>3
  <2> QED
    BY <2>4 DEF Stop
<1>3. Scene'
  <2>1. events' \in 0..MaxEvents
    BY <1>1, <1>2, EventFacts
  <2> QED
    BY <1>1, <1>2, <2>1 DEF Scene
<1> HIDE DEF r
<1>4. RunOK(s, doc, live)
  BY <1>1, StopOK
<1>5. e \in Entries
  BY <1>1 DEF IsRun, Entries, Dropped
<1>6. /\ s.pc = "stopped" /\ s.rec = r.rec /\ s.opts = r.opts
      /\ s.changes = r.changes /\ s.sent = r.sent
  BY <1>1, <1>5 DEF IsRun
<1> HIDE DEF s
<1>7. GateInv(s)
  <2>1. \A c \in s.sent : Dispatched(c, r.opts.prune)
    BY <1>1, <1>6 DEF GateInv
  <2> QED
    BY <1>1, <1>6, <2>1, GateSame
<1>8. StatusOf(s, status', Drift)
  BY <1>6 DEF StatusOf
<1> QED
  BY <1>2, <1>3, <1>4, <1>7, <1>8, OwnStep DEF Actors


\* What a run that is at a call knows.
LEMMA AtCall ==
    ASSUME NEW r, NEW source, NEW cluster, RunOK(r, source, cluster), r.calls # <<>>
    PROVE  Current(r) \in Changes /\ Dispatched(Current(r), r.opts.prune)
<1>1. r.changes \subseteq Changes /\ Pending(r) # {} /\ CallInv(r)
  BY DEF RunOK, RunType, IsRun
<1>2. Current(r) \in Pending(r)
  BY <1>1, FirstFacts DEF Current, Pending
<1> QED
  BY <1>1, <1>2 DEF CallInv, Pending

\* The cluster stays one.
LEMMA TouchedState ==
    ASSUME NEW r, NEW source, NEW cluster, NEW new, RunOK(r, source, cluster),
           ClusterState(cluster), r.pc = "apply", r.calls # <<>>,
           Touches(Current(r), Head(r.calls), cluster, new)
    PROVE  DOMAIN new = DOMAIN cluster /\ ClusterState(new)
  BY TouchFacts, ZenonT(60)

\* The call that was sent, answered or not, and what it did to the cluster.
LEMMA SentStep ==
    ASSUME ProofInv, NEW a \in Actors, run[a].pc = "apply", run[a].calls # <<>>,
           NEW answer, NEW s,
           s = AfterCall(run[a], answer) \/ s = [AfterCall(run[a], answer) EXCEPT !.hurt = TRUE],
           run' = [Reached(a, live') EXCEPT ![a] = s],
           Touches(Current(run[a]), Head(run[a].calls), live, live'),
           answer = "ok" => /\ Answer(Current(run[a]).obj, Head(run[a].calls), live) = "ok"
                            /\ live' = Effect(Current(run[a]).obj, Head(run[a].calls), live),
           UNCHANGED <<doc, cfg, locked, status>>, events' \in 0..MaxEvents
    PROVE  ProofInv'
<1> DEFINE r == run[a]
           t == AfterCall(r, answer)
           u == [t EXCEPT !.hurt = TRUE]
<1>1. RunOK(r, doc, live) /\ IsRun(r) /\ (a = "daemon" => GateInv(r)) /\ Scene /\ ClusterState(live)
  BY DEF ProofInv, RunOK, RunType, Scene
<1>2. DOMAIN live' = DOMAIN live /\ ClusterState(live')
  <2>1. /\ r.pc = "apply" /\ r.calls # <<>>
        /\ Touches(Current(r), Head(r.calls), live, live')
    OBVIOUS
  <2> HIDE DEF r
  <2> QED
    BY <1>1, <2>1, TouchedState
<1>3. Scene'
  BY <1>1, <1>2 DEF Scene
<1>4. RunOK(t, doc, live') /\ IsRun(t)
  <2>1. RunOK(t, doc, live')
    BY <1>1, AfterCallOK
  <2> HIDE DEF t
  <2> QED
    BY <2>1 DEF RunOK, RunType
<1>5. Current(r) \in Changes /\ Dispatched(Current(r), r.opts.prune)
  BY <1>1, AtCall
<1>6. Kept(r, t) /\ t.sent = r.sent \cup {Current(r)}
  BY <1>1, <1>5, AfterCallKept
<1>7. s = t \/ s = u
  OBVIOUS
<1>8. r.pc = "apply"
  OBVIOUS
<1> HIDE DEF r, t
<1>9. RunOK(u, doc, live') /\ Kept(r, u) /\ u.sent = r.sent \cup {Current(r)}
  <2>1. RunOK(u, doc, live')
    BY <1>4, HurtOK
  <2> QED
    BY <1>4, <1>6, <2>1 DEF IsRun, Kept
<1> HIDE DEF u
<1>10. RunOK(s, doc, live') /\ Kept(r, s) /\ s.sent = r.sent \cup {Current(r)}
  BY <1>4, <1>6, <1>7, <1>9
<1>11. s.pc = "apply"
  BY <1>8, <1>10 DEF Kept
<1>12. a = "daemon" => GateInv(s)
  BY <1>1, <1>5, <1>8, <1>10, LoopGate
<1> QED
  BY <1>2, <1>3, <1>10, <1>11, <1>12, CallStep

LEMMA SendCallStep ==
    ASSUME ProofInv, NEW a \in Actors, SendCall(a) PROVE ProofInv'
<1> DEFINE r == run[a]
           c == Current(r)
           answer == Answer(c.obj, Head(r.calls), live)
           s == AfterCall(r, answer)
<1>1. /\ r.pc = "apply" /\ r.calls # <<>>
      /\ live' = IF answer = "ok" THEN Effect(c.obj, Head(r.calls), live) ELSE live
      /\ run' = [Reached(a, live') EXCEPT ![a] = s]
      /\ UNCHANGED <<doc, cfg, locked, status, events>>
  BY DEF SendCall
<1>2. Touches(c, Head(r.calls), live, live')
  BY <1>1 DEF Touches
<1>3. answer = "ok" => live' = Effect(c.obj, Head(r.calls), live)
  BY <1>1
<1>4. events' \in 0..MaxEvents
  BY <1>1 DEF ProofInv, Scene
<1> QED
  BY <1>1, <1>2, <1>3, <1>4, SentStep

LEMMA CallFailsStep ==
    ASSUME ProofInv, NEW a \in Actors, CallFails(a) PROVE ProofInv'
<1> DEFINE r == run[a]
           c == Current(r)
           call == Head(r.calls)
           s == [AfterCall(r, "error") EXCEPT !.hurt = TRUE]
<1>1. /\ r.pc = "apply" /\ r.calls # <<>> /\ Event
      /\ live' \in {live} \cup (IF Answer(c.obj, call, live) = "ok"
                               THEN {Effect(c.obj, call, live)} ELSE {})
      /\ run' = [Reached(a, live') EXCEPT ![a] = s]
      /\ UNCHANGED <<doc, cfg, locked, status>>
  BY DEF CallFails
<1>2. Touches(c, call, live, live')
  BY <1>1 DEF Touches
<1>3. events' \in 0..MaxEvents
  BY <1>1, EventFacts DEF ProofInv
<1> QED
  BY <1>1, <1>2, <1>3, SentStep

----------------------------------------------------------------------------
(* The theorems                                                            *)

LEMMA StutterOK ==
    ASSUME ProofInv, UNCHANGED vars PROVE ProofInv'
<1>1. UNCHANGED <<doc, live, cfg, locked, status, run, events>>
  BY DEF vars
<1>2. Drift' = Drift /\ Scene'
  BY <1>1 DEF Drift, ProofInv, Scene
<1> QED
  BY <1>1, <1>2 DEF ProofInv

LEMMA NextOK ==
    ASSUME ProofInv, [Next]_vars PROVE ProofInv'
<1> USE DEF Actors
<1>1. CASE DaemonStep
  BY <1>1, TickStep, CheckedStep, UnmannedGateStep, RecheckedStep, ExportStep, NextChangeStep,
     SendCallStep, CallLockedStep, ReportStep DEF DaemonStep
<1>2. CASE OperatorStep
  BY <1>2, OperatorGateStep, ExportStep, NextChangeStep, SendCallStep, CallLockedStep, ReportStep
     DEF OperatorStep
<1>3. CASE Restart \/ Stop \/ Lock
  BY <1>3, RestartStep, StopStep, LockOK
<1>4. CASE \E opts \in Options : Command(opts)
  BY <1>4, CommandStep
<1>5. CASE \E a \in Actors : ExportFails(a) \/ CallFails(a)
  BY <1>5, ExportFailsStep, CallFailsStep
<1>6. CASE \E o \in DOMAIN live : \E v \in Edits[o] : Edit(o, v)
  BY <1>6, EditOK
<1>7. CASE \E d \in Documents : Push(d)
  BY <1>7, PushOK
<1>8. CASE \E c \in Configs : Reload(c)
  BY <1>8, ReloadOK
<1>9. CASE UNCHANGED vars
  BY <1>9, StutterOK
<1> QED
  BY <1>1, <1>2, <1>3, <1>4, <1>5, <1>6, <1>7, <1>8, <1>9 DEF Next

\* The inductive invariant holds in every run of the reconciliation, whatever the
\* documents, the sections, the options and the edits (Scene, RunOK and GateInv
\* together imply the typing of the state).
THEOREM ReconcileInvariance == Spec => [](TypeOK /\ ReconcileInv)
<1>1. Init => ProofInv
  BY InitOK
<1>2. ProofInv /\ [Next]_vars => ProofInv'
  BY NextOK
<1>3. ProofInv => TypeOK /\ ReconcileInv
  BY ProofInvSuffices
<1> QED
  BY <1>1, <1>2, <1>3, PTL DEF Spec

\* The gate's set bounds what is sent.
LEMMA InsideOK ==
    ASSUME TypeOK, ReconcileInv PROVE UnmannedStaysInside
<1> DEFINE r == run["daemon"]
           D == {c \in r.changes : Dispatched(c, r.opts.prune)}
<1>0. r.rec \in Cfgs \cup {NoCfg}
  BY DEF TypeOK, Actors
<1>1. GateInv(r) /\ TraceInv(r) /\ PlanInv(r, live)
  BY DEF ReconcileInv, Actors
<1>2. r.sent \subseteq D
  BY <1>1 DEF GateInv, TraceInv
<1>3. IsFiniteSet(D)
  BY <1>1, FS_Subset DEF PlanInv
<1>4. /\ Cardinality(r.sent) <= Cardinality(D)
      /\ Cardinality(r.sent) \in Nat /\ Cardinality(D) \in Nat
  BY <1>2, <1>3, FS_Subset, FS_CardinalityType
<1> HIDE DEF r
<1>5. ASSUME r.rec.cap # NoCap PROVE Cardinality(r.sent) <= r.rec.cap
  <2>1. ~(Cardinality(D) > r.rec.cap)
    BY <1>1, <1>5 DEF GateInv, OverCap
  <2>2. r.rec.cap \in Nat
    BY <1>5, <1>0 DEF Cfgs, NoCfg
  <2> QED
    BY <1>4, <2>1, <2>2
<1>6. \A c \in r.sent :
        /\ r.rec.on
        /\ r.pc = "apply" => FamilyOf[c.obj] \in r.doc.managed
        /\ r.rec.allowed = {} \/ FamilyOf[c.obj] \in r.rec.allowed
        /\ c.kind = "delete" => r.rec.prune /\ r.rec.cap # NoCap
        /\ ~Severe(c)
  <2> SUFFICES ASSUME NEW c \in r.sent
               PROVE  /\ r.rec.on
                      /\ r.pc = "apply" => FamilyOf[c.obj] \in r.doc.managed
                      /\ r.rec.allowed = {} \/ FamilyOf[c.obj] \in r.rec.allowed
                      /\ c.kind = "delete" => r.rec.prune /\ r.rec.cap # NoCap
                      /\ ~Severe(c)
    OBVIOUS
  <2>1. c \in r.changes /\ Dispatched(c, r.opts.prune)
    BY <1>2
  <2>2. r.rec.on /\ r.opts = Unmanned(r.rec)
    BY <1>1, <2>1 DEF GateInv
  <2>3. c.kind = "delete" => r.rec.prune /\ r.rec.cap # NoCap
    <3>1. Unmanned(r.rec).prune = (r.rec.prune /\ r.rec.cap # NoCap)
      BY DEF Unmanned
    <3> QED
      BY <2>1, <2>2, <3>1 DEF Dispatched
  <2> QED
    BY <1>1, <2>1, <2>2, <2>3 DEF GateInv
<1> QED
  BY <1>5, <1>6 DEF UnmannedStaysInside, r

\* The unmanned converge never calls Proxmox for what its tick did not allow: other
\* families, more changes than the cap, deletes without converge_prune and a cap, or
\* anything Severe (run_auto_converge), for every cap, list of families and document.
THEOREM ReconcileInside == Spec => []UnmannedStaysInside
<1>1. TypeOK /\ ReconcileInv => UnmannedStaysInside
  BY InsideOK
<1> QED
  BY <1>1, ReconcileInvariance, PTL

LEMMA AccountedOK ==
    ASSUME TypeOK, ReconcileInv PROVE RunsAreAccounted
<1>1. RunsLeaveTrace
  BY DEF ReconcileInv, TraceInv, RunsLeaveTrace
<1>2. NoSilentLoss
  <2> SUFFICES ASSUME NEW a \in Actors, run[a].pc \in {"recheck", "over", "stopped"}, run[a].alone,
                      NEW c \in run[a].changes, c.kind = "update", live[c.obj] = Absent,
                      run[a].entry \notin {"interrupted", "unrecorded"}
               PROVE  c \in DOMAIN run[a].outs /\ run[a].outs[c] \in {"failed", "aborted"}
    BY DEF NoSilentLoss
  <2>1. LossInv(run[a], live)
    BY DEF ReconcileInv
  <2> QED
    BY <2>1 DEF LossInv
<1>3. StatusIsTrue
  BY DEF ReconcileInv, StatusInv
<1> QED
  BY <1>1, <1>2, <1>3 DEF RunsAreAccounted

\* Every run can be accounted for: an entry for what it sent, a failure or an
\* interruption for what it lost, and a status that is true between the ticks
\* (apply_and_audit, InterruptedRunGuard, repersist_drift), wherever the daemon is
\* stopped and whichever calls fail or lose their answers.  An entry that cannot be
\* written leaves an error in the log instead, and a status that cannot be saved is
\* excepted.
THEOREM ReconcileAccounted == Spec => []RunsAreAccounted
<1>1. TypeOK /\ ReconcileInv => RunsAreAccounted
  BY AccountedOK
<1> QED
  BY <1>1, ReconcileInvariance, PTL
----------------------------------------------------------------------------
(* What the calls that are left are for                                    *)

\* A finite set is listed without repetition and to the end.
LEMMA SetToSeqBijective ==
    ASSUME NEW S, IsFiniteSet(S)
    PROVE  /\ \A i, j \in 1..Cardinality(S) : SetToSeq(S)[i] = SetToSeq(S)[j] => i = j
           /\ \A x \in S : \E i \in 1..Cardinality(S) : SetToSeq(S)[i] = x
<1> DEFINE D == 1..Cardinality(S)
           f == SetToSeq(S)
<1>1. PICK g : g \in Bijection(D, S)
  BY FS_CardinalityType DEF ExistsBijection
<1>2. g \in [D -> S] /\ IsInjective(g)
  BY <1>1 DEF Bijection, Injection
<1>3. f \in [D -> S] /\ IsInjective(f)
  BY <1>2 DEF SetToSeq
<1>4. f \in Injection(D, S)
  BY <1>3 DEF Injection
<1>5. IsFiniteSet(D) /\ Cardinality(D) = Cardinality(S)
  <2>1. Cardinality(S) \in Nat
    BY FS_CardinalityType
  <2> HIDE DEF f
  <2> QED
    BY <2>1, FS_Interval
<1> HIDE DEF f, D
<1>6. f \in Surjection(D, S)
  BY <1>4, <1>5, FS_Injection
<1>7. \A x \in S : \E i \in D : f[i] = x
  BY <1>6 DEF Surjection
<1>8. \A i, j \in D : f[i] = f[j] => i = j
  BY <1>3 DEF IsInjective
<1> QED
  BY <1>7, <1>8 DEF f, D

LEMMA ConcatPlaces ==
    ASSUME NEW s \in Seq(Calls), NEW t \in Seq(Calls)
    PROVE  /\ s \o t \in Seq(Calls)
           /\ \A i \in DOMAIN (s \o t) :
                \/ i \in DOMAIN s /\ (s \o t)[i] = s[i] /\ i \in Nat
                \/ i - Len(s) \in DOMAIN t /\ (s \o t)[i] = t[i - Len(s)] /\ i \in Nat /\ i > Len(s)
           /\ \A i \in DOMAIN s : i \in DOMAIN (s \o t) /\ (s \o t)[i] = s[i] /\ i <= Len(s)
           /\ \A i \in DOMAIN t : i + Len(s) \in DOMAIN (s \o t) /\ (s \o t)[i + Len(s)] = t[i]
  OBVIOUS

\* What there is in one of two sequences.
LEMMA LeftConcat ==
    ASSUME NEW s \in Seq(Calls), NEW t \in Seq(Calls), NEW op
    PROVE  /\ Has(s \o t, op) <=> Has(s, op) \/ Has(t, op)
           /\ For(s \o t, op) = For(s, op) \cup For(t, op)
<1> DEFINE u == s \o t
<1>1. /\ \A i \in DOMAIN u : (\E j \in DOMAIN s : u[i] = s[j]) \/ (\E j \in DOMAIN t : u[i] = t[j])
      /\ \A j \in DOMAIN s : \E i \in DOMAIN u : u[i] = s[j]
      /\ \A j \in DOMAIN t : \E i \in DOMAIN u : u[i] = t[j]
  <2>1. /\ \A i \in DOMAIN u : \/ i \in DOMAIN s /\ u[i] = s[i]
                               \/ i - Len(s) \in DOMAIN t /\ u[i] = t[i - Len(s)]
        /\ \A i \in DOMAIN s : i \in DOMAIN u /\ u[i] = s[i]
        /\ \A i \in DOMAIN t : i + Len(s) \in DOMAIN u /\ u[i + Len(s)] = t[i]
    BY ConcatPlaces
  <2> HIDE DEF u
  <2>2. ASSUME NEW i \in DOMAIN u
        PROVE  (\E j \in DOMAIN s : u[i] = s[j]) \/ (\E j \in DOMAIN t : u[i] = t[j])
    BY <2>1
  <2>3. \A j \in DOMAIN s : \E i \in DOMAIN u : u[i] = s[j]
    BY <2>1
  <2>4. ASSUME NEW j \in DOMAIN t PROVE \E i \in DOMAIN u : u[i] = t[j]
    BY <2>1
  <2> QED
    BY <2>2, <2>3, <2>4
<1> HIDE DEF u
<1>2. Has(u, op) <=> Has(s, op) \/ Has(t, op)
  BY <1>1 DEF Has
<1>3. For(u, op) = For(s, op) \cup For(t, op)
  BY <1>1 DEF For
<1> QED
  BY <1>2, <1>3 DEF u

LEMMA StagedConcat ==
    ASSUME NEW s \in Seq(Calls), NEW t \in Seq(Calls), Staged(s), Staged(t),
           \A i \in DOMAIN s, j \in DOMAIN t : Before(s[i], t[j])
    PROVE  Staged(s \o t)
<1> DEFINE u == s \o t
<1>1. SUFFICES ASSUME NEW i \in DOMAIN u, NEW j \in DOMAIN u, i < j PROVE Before(u[i], u[j])
  BY DEF Staged
<1>2. /\ \/ i \in DOMAIN s /\ u[i] = s[i] /\ i \in Nat
         \/ i - Len(s) \in DOMAIN t /\ u[i] = t[i - Len(s)] /\ i \in Nat /\ i > Len(s)
      /\ \/ j \in DOMAIN s /\ u[j] = s[j] /\ j \in Nat
         \/ j - Len(s) \in DOMAIN t /\ u[j] = t[j - Len(s)] /\ j \in Nat /\ j > Len(s)
      /\ \A k \in DOMAIN s : k <= Len(s)
      /\ Len(s) \in Nat
  BY ConcatPlaces
<1> HIDE DEF u
<1>3. CASE i \in DOMAIN s /\ u[i] = s[i] /\ j \in DOMAIN s /\ u[j] = s[j]
  BY <1>1, <1>3 DEF Staged
<1>4. CASE i \in DOMAIN s /\ u[i] = s[i] /\ j - Len(s) \in DOMAIN t /\ u[j] = t[j - Len(s)]
  BY <1>4
<1>5. CASE /\ i - Len(s) \in DOMAIN t /\ u[i] = t[i - Len(s)] /\ i > Len(s)
           /\ j - Len(s) \in DOMAIN t /\ u[j] = t[j - Len(s)]
  <2>1. i - Len(s) < j - Len(s)
    BY <1>1, <1>2
  <2> QED
    BY <1>5, <2>1 DEF Staged
<1>6. ~(i - Len(s) \in DOMAIN t /\ i > Len(s) /\ j \in DOMAIN s)
  BY <1>1, <1>2
<1> QED
  BY <1>2, <1>3, <1>4, <1>5, <1>6

\* None, one, or one for each name.
LEMMA LeftNone ==
    /\ <<>> \in Seq(Calls) /\ Staged(<<>>)
    /\ \A op : ~Has(<<>>, op) /\ For(<<>>, op) = {}
  BY DEF Staged, Has, For

LEMMA LeftOne ==
    ASSUME NEW x \in Calls
    PROVE  /\ <<x>> \in Seq(Calls) /\ Staged(<<x>>)
           /\ \A op : /\ Has(<<x>>, op) <=> x.op = op
                      /\ For(<<x>>, op) = IF x.op = op THEN x.set \cap Names ELSE {}
           /\ \A i \in DOMAIN <<x>> : <<x>>[i] = x
<1> DEFINE s == <<x>>
<1>1. s \in Seq(Calls) /\ DOMAIN s = {1} /\ s[1] = x
  OBVIOUS
<1> HIDE DEF s
<1>2. \A op : /\ Has(s, op) <=> x.op = op
              /\ For(s, op) = IF x.op = op THEN x.set \cap Names ELSE {}
  BY <1>1 DEF Has, For
<1>3. Staged(s)
  BY <1>1 DEF Staged
<1> QED
  BY <1>1, <1>2, <1>3 DEF s

LEMMA LeftOnly ==
    ASSUME NEW b \in BOOLEAN, NEW x \in Calls
    PROVE  LET s == Only(b, x)
           IN  /\ s \in Seq(Calls) /\ Staged(s)
               /\ \A op : /\ Has(s, op) <=> b /\ x.op = op
                          /\ For(s, op) = IF b /\ x.op = op THEN x.set \cap Names ELSE {}
               /\ \A i \in DOMAIN s : s[i] = x
<1>1. CASE b
  BY <1>1, LeftOne DEF Only
<1>2. CASE ~b
  <2>1. Only(b, x) = <<>> /\ DOMAIN <<>> = {}
    BY <1>2 DEF Only
  <2> QED
    BY <1>2, <2>1, LeftNone
<1> QED
  BY <1>1, <1>2

LEMMA LeftEach ==
    ASSUME NEW o \in {"remove", "add"}, NEW val \in Marks, NEW names \in SUBSET Names
    PROVE  LET s == Each(o, names, val)
           IN  /\ s \in Seq(Calls) /\ Staged(s)
               /\ \A op : /\ Has(s, op) <=> o = op /\ names # {}
                          /\ For(s, op) = IF o = op THEN names ELSE {}
               /\ \A i \in DOMAIN s : s[i].op = o /\ s[i].set \subseteq names /\ s[i].val = val
<1> DEFINE s == Each(o, names, val)
           D == 1..Cardinality(names)
           f == SetToSeq(names)
<1>1. IsFiniteSet(names)
  BY StateApplyAssumption, FS_Subset
<1>2. /\ f \in [D -> names] /\ Cardinality(names) \in Nat
      /\ \A i, j \in D : f[i] = f[j] => i = j
      /\ \A x \in names : \E i \in D : f[i] = x
  BY <1>1, SetToSeqFacts, SetToSeqBijective, FS_CardinalityType
<1>3. s = [i \in D |-> Call(o, {f[i]}, val)] /\ DOMAIN s = D
  BY DEF Each
<1>4. \A n \in Names : /\ Call(o, {n}, val) \in Calls /\ Call(o, {n}, val).op = o
                       /\ Call(o, {n}, val).set = {n} /\ Call(o, {n}, val).val = val
  BY DEF Call, Calls, Ops
<1> HIDE DEF s, f
<1>5. \A i \in D : /\ s[i] \in Calls /\ s[i].op = o /\ s[i].set = {f[i]} /\ s[i].val = val
                   /\ f[i] \in names
  BY <1>2, <1>3, <1>4
<1>6. s \in Seq(Calls)
  <2>1. s = [i \in 1..Cardinality(names) |-> s[i]]
    BY <1>3
  <2> QED
    BY <1>2, <1>5, <2>1
<1> HIDE DEF D
<1>7. ASSUME NEW op PROVE Has(s, op) <=> o = op /\ names # {}
  <2>1. ASSUME Has(s, op) PROVE o = op /\ names # {}
    BY <1>3, <1>5, <2>1 DEF Has
  <2>2. ASSUME o = op, names # {} PROVE Has(s, op)
    <3>1. PICK i \in D : f[i] \in names
      BY <1>2, <2>2
    <3> QED
      BY <1>3, <1>5, <2>2, <3>1 DEF Has
  <2> QED
    BY <2>1, <2>2
<1>8. ASSUME NEW op PROVE For(s, op) = IF o = op THEN names ELSE {}
  <2>1. \A n \in For(s, op) : o = op /\ n \in names
    BY <1>3, <1>5 DEF For
  <2>2. ASSUME NEW n \in names, o = op PROVE n \in For(s, op)
    <3>1. PICK i \in D : f[i] = n
      BY <1>2
    <3>2. i \in DOMAIN s /\ s[i].op = op /\ n \in s[i].set
      BY <1>3, <1>5, <2>2, <3>1
    <3> QED
      BY <3>2 DEF For
  <2> QED
    BY <2>1, <2>2
<1>9. Staged(s)
  <2>1. ASSUME NEW i \in DOMAIN s, NEW j \in DOMAIN s, i < j PROVE Before(s[i], s[j])
    <3>1. i # j
      BY <1>3, <2>1 DEF D
    <3>2. s[i].set \cap s[j].set = {} /\ s[i].op = o /\ s[j].op = o
      BY <1>2, <1>3, <1>5, <3>1
    <3> QED
      BY <3>2 DEF Before
  <2> QED
    BY <2>1 DEF Staged
<1>10. \A i \in DOMAIN s : s[i].op = o /\ s[i].set \subseteq names /\ s[i].val = val
  BY <1>3, <1>5
<1> QED
  BY <1>6, <1>7, <1>8, <1>9, <1>10 DEF s

\* The first call and what comes after it.
LEMMA LeftTail ==
    ASSUME NEW s \in Seq(Calls), s # <<>>, Staged(s)
    PROVE  LET h == Head(s)
               t == Tail(s)
           IN  /\ h \in Calls /\ t \in Seq(Calls) /\ Staged(t)
               /\ \A op : /\ Has(s, op) <=> h.op = op \/ Has(t, op)
                          /\ For(s, op) = For(t, op) \cup (IF h.op = op THEN h.set \cap Names ELSE {})
               /\ \A i \in DOMAIN t : Before(h, t[i])
               /\ \E i \in DOMAIN s : h = s[i]
               /\ \A i \in DOMAIN t : \E j \in DOMAIN s : t[i] = s[j]
<1> DEFINE h == Head(s)
           t == Tail(s)
<1>1. /\ h = s[1] /\ h \in Calls /\ 1 \in DOMAIN s /\ t \in Seq(Calls)
      /\ \A j \in DOMAIN s : j # 1 => j - 1 \in DOMAIN t /\ t[j - 1] = s[j]
      /\ \A j \in DOMAIN t : j + 1 \in DOMAIN s /\ t[j] = s[j + 1]
  BY TailFacts
<1>2. \A j \in DOMAIN t : j \in Nat /\ j >= 1
  BY <1>1
<1> HIDE DEF h, t
<1>3. /\ \A i \in DOMAIN s : s[i] = h \/ \E j \in DOMAIN t : s[i] = t[j]
      /\ \A i \in DOMAIN t : \E j \in DOMAIN s : t[i] = s[j]
      /\ \E i \in DOMAIN s : h = s[i]
  BY <1>1
<1>4. \A op : Has(s, op) <=> h.op = op \/ Has(t, op)
  BY <1>3 DEF Has
<1>5. \A op : For(s, op) = For(t, op) \cup (IF h.op = op THEN h.set \cap Names ELSE {})
  BY <1>3 DEF For
<1>6. Staged(t)
  <2>1. ASSUME NEW i \in DOMAIN t, NEW j \in DOMAIN t, i < j PROVE Before(t[i], t[j])
    <3>1. i + 1 < j + 1 /\ i + 1 \in DOMAIN s /\ j + 1 \in DOMAIN s
      BY <1>1, <1>2, <2>1
    <3>2. Before(s[i + 1], s[j + 1])
      BY <3>1 DEF Staged
    <3> QED
      BY <1>1, <3>2
  <2> QED
    BY <2>1 DEF Staged
<1>7. ASSUME NEW i \in DOMAIN t PROVE Before(h, t[i])
  <2>1. 1 < i + 1 /\ i + 1 \in DOMAIN s /\ t[i] = s[i + 1]
    BY <1>1, <1>2
  <2> QED
    BY <1>1, <2>1 DEF Staged
<1> QED
  BY <1>1, <1>3, <1>4, <1>5, <1>6, <1>7 DEF h, t

\* The calls of a pool or an IP set: of these kinds, removing and adding these names.
Shape(c, s, ops, removed, added) ==
    /\ s \in Seq(Calls) /\ Staged(s) /\ \A i \in DOMAIN s : Member(c, s[i])
    /\ \A op : Has(s, op) <=> op \in ops
    /\ For(s, "remove") = removed /\ For(s, "add") = added

LEMMA ShapeConcat ==
    ASSUME NEW c, NEW s, NEW t, NEW O1, NEW O2, NEW R1, NEW R2, NEW A1, NEW A2,
           Shape(c, s, O1, R1, A1), Shape(c, t, O2, R2, A2),
           \A x \in O1, y \in O2 : Stage(x) < Stage(y)
    PROVE  Shape(c, s \o t, O1 \cup O2, R1 \cup R2, A1 \cup A2)
<1> DEFINE u == s \o t
<1>1. s \in Seq(Calls) /\ t \in Seq(Calls) /\ Staged(s) /\ Staged(t)
  BY DEF Shape
<1>2. \A i \in DOMAIN s, j \in DOMAIN t : Before(s[i], t[j])
  <2>1. ASSUME NEW i \in DOMAIN s, NEW j \in DOMAIN t PROVE Before(s[i], t[j])
    <3>1. Has(s, s[i].op) /\ Has(t, t[j].op)
      BY DEF Has
    <3>2. s[i].op \in O1 /\ t[j].op \in O2
      BY <3>1 DEF Shape
    <3> QED
      BY <3>2 DEF Before
  <2> QED
    BY <2>1
<1>3. u \in Seq(Calls) /\ Staged(u)
  BY <1>1, <1>2, ConcatPlaces, StagedConcat
<1>4. \A i \in DOMAIN u : Member(c, u[i])
  <2>1. ASSUME NEW i \in DOMAIN u PROVE Member(c, u[i])
    <3>1. \/ i \in DOMAIN s /\ u[i] = s[i]
          \/ i - Len(s) \in DOMAIN t /\ u[i] = t[i - Len(s)]
      BY <1>1, ConcatPlaces
    <3> HIDE DEF u
    <3> QED
      BY <3>1 DEF Shape
  <2> QED
    BY <2>1
<1>5. \A op : /\ Has(u, op) <=> Has(s, op) \/ Has(t, op)
              /\ For(u, op) = For(s, op) \cup For(t, op)
  BY <1>1, LeftConcat
<1> HIDE DEF u
<1>6. \A op : Has(u, op) <=> op \in O1 \cup O2
  BY <1>5 DEF Shape
<1>7. For(u, "remove") = R1 \cup R2 /\ For(u, "add") = A1 \cup A2
  BY <1>5 DEF Shape
<1> QED
  BY <1>3, <1>4, <1>6, <1>7 DEF Shape, u

LEMMA ShapeOnly ==
    ASSUME NEW c, NEW b \in BOOLEAN, NEW x \in Calls, Member(c, x)
    PROVE  Shape(c, Only(b, x), IF b THEN {x.op} ELSE {},
                 IF b /\ x.op = "remove" THEN x.set ELSE {}, IF b /\ x.op = "add" THEN x.set ELSE {})
<1> DEFINE s == Only(b, x)
<1>1. /\ s \in Seq(Calls) /\ Staged(s)
      /\ \A op : /\ Has(s, op) <=> b /\ x.op = op
                 /\ For(s, op) = IF b /\ x.op = op THEN x.set \cap Names ELSE {}
      /\ \A i \in DOMAIN s : s[i] = x
  BY LeftOnly
<1> HIDE DEF s
<1>2. x.op \in {"remove", "add"} => x.set \cap Names = x.set
  BY DEF Member
<1>3. \A op : Has(s, op) <=> op \in (IF b THEN {x.op} ELSE {})
  BY <1>1
<1>4. /\ For(s, "remove") = IF b /\ x.op = "remove" THEN x.set ELSE {}
      /\ For(s, "add") = IF b /\ x.op = "add" THEN x.set ELSE {}
  BY <1>1, <1>2
<1>5. \A i \in DOMAIN s : Member(c, s[i])
  BY <1>1
<1> QED
  BY <1>1, <1>3, <1>4, <1>5 DEF Shape, s

LEMMA ShapeOne ==
    ASSUME NEW c, NEW x \in Calls, Member(c, x), x.op \in {"delete", "create"}
    PROVE  Shape(c, <<x>>, {x.op}, {}, {})
<1> DEFINE s == <<x>>
<1>1. /\ s \in Seq(Calls) /\ Staged(s)
      /\ \A op : /\ Has(s, op) <=> x.op = op
                 /\ For(s, op) = IF x.op = op THEN x.set \cap Names ELSE {}
      /\ \A i \in DOMAIN s : s[i] = x
  BY LeftOne
<1> HIDE DEF s
<1>2. \A op : Has(s, op) <=> op \in {x.op}
  BY <1>1
<1>3. For(s, "remove") = {} /\ For(s, "add") = {}
  BY <1>1
<1> QED
  BY <1>1, <1>2, <1>3 DEF Shape, s

LEMMA ShapeEach ==
    ASSUME NEW c, NEW o \in {"remove", "add"}, NEW val \in Marks, NEW names \in SUBSET Names,
           o = "add" => val = c.after
    PROVE  Shape(c, Each(o, names, val), IF names # {} THEN {o} ELSE {},
                 IF o = "remove" THEN names ELSE {}, IF o = "add" THEN names ELSE {})
<1> DEFINE s == Each(o, names, val)
<1>1. /\ s \in Seq(Calls) /\ Staged(s)
      /\ \A op : /\ Has(s, op) <=> o = op /\ names # {}
                 /\ For(s, op) = IF o = op THEN names ELSE {}
      /\ \A i \in DOMAIN s : s[i].op = o /\ s[i].set \subseteq names /\ s[i].val = val
  BY LeftEach
<1> HIDE DEF s
<1>2. \A op : Has(s, op) <=> op \in (IF names # {} THEN {o} ELSE {})
  BY <1>1
<1>3. /\ For(s, "remove") = IF o = "remove" THEN names ELSE {}
      /\ For(s, "add") = IF o = "add" THEN names ELSE {}
  BY <1>1
<1>4. \A i \in DOMAIN s : Member(c, s[i])
  <2>1. ASSUME NEW i \in DOMAIN s PROVE Member(c, s[i])
    <3>1. s[i].op = o /\ s[i].set \subseteq Names /\ s[i].val = val
      BY <1>1
    <3> QED
      BY <3>1 DEF Member
  <2> QED
    BY <2>1
<1> QED
  BY <1>1, <1>2, <1>3, <1>4 DEF Shape, s

\* The stages, one after another.
LEMMA StageFacts ==
    /\ Stage("put") = 1 /\ Stage("remove") = 2 /\ Stage("delete") = 3 /\ Stage("create") = 4
    /\ Stage("add") = 5
  BY DEF Stage

LEMMA PoolShape ==
    ASSUME NEW c, Sound(c), In(c.obj, {"pool"})
    PROVE  LET removed == PartsOf(c.before) \ PartsOf(c.after)
               added == PartsOf(c.after) \ PartsOf(c.before)
               opt(b, op) == IF b THEN {op} ELSE {}
           IN  /\ c.kind = "create" =>
                    Shape(c, PoolCalls(c), {"create"} \cup opt(added # {}, "add"), {}, added)
               /\ c.kind = "delete" =>
                    Shape(c, PoolCalls(c), opt(removed # {}, "remove") \cup {"delete"}, removed, {})
               /\ c.kind = "update" =>
                    Shape(c, PoolCalls(c), (opt(c.before.note # c.after.note, "put")
                             \cup opt(removed # {}, "remove")) \cup opt(added # {}, "add"), removed, added)
<1> DEFINE removed == PartsOf(c.before) \ PartsOf(c.after)
           added == PartsOf(c.after) \ PartsOf(c.before)
           opt(b, op) == IF b THEN {op} ELSE {}
           create == Call("create", {}, [c.after EXCEPT !.parts = NoParts])
           put == Call("put", {"note"}, c.after)
           remove == Call("remove", removed, c.after)
           add == Call("add", added, c.after)
           delete == Call("delete", {}, c.after)
           noted == c.before.note # c.after.note
<1>1. /\ c.after \in Marks /\ c.before \in Marks
      /\ c.kind # "delete" => [c.after EXCEPT !.parts = NoParts] \in Marks
  BY SoundFacts
<1>2. removed \in SUBSET Names /\ added \in SUBSET Names
  BY <1>1, PartsType
<1> HIDE DEF removed, added
<1>3. /\ remove \in Calls /\ remove.op = "remove" /\ remove.set = removed /\ Member(c, remove)
      /\ add \in Calls /\ add.op = "add" /\ add.set = added /\ Member(c, add)
      /\ put \in Calls /\ put.op = "put" /\ Member(c, put)
      /\ delete \in Calls /\ delete.op = "delete" /\ Member(c, delete)
  BY <1>1, <1>2 DEF Call, Calls, Ops, Fields, Member
<1>4. c.kind # "delete" => create \in Calls /\ create.op = "create" /\ Member(c, create)
  BY <1>1 DEF Call, Calls, Ops, Member
<1> HIDE DEF create, put, remove, add, delete
<1>5. Shape(c, Only(removed # {}, remove), opt(removed # {}, "remove"), removed, {})
  <2> DEFINE b == removed # {}
  <2>1. b \in BOOLEAN /\ (IF b THEN removed ELSE {}) = removed
    OBVIOUS
  <2> HIDE DEF b
  <2>2. Shape(c, Only(b, remove), IF b THEN {"remove"} ELSE {}, IF b THEN removed ELSE {}, {})
    BY <1>3, <2>1, ShapeOnly
  <2> QED
    BY <2>1, <2>2 DEF b
<1>6. Shape(c, Only(added # {}, add), opt(added # {}, "add"), {}, added)
  <2> DEFINE b == added # {}
  <2>1. b \in BOOLEAN /\ (IF b THEN added ELSE {}) = added
    OBVIOUS
  <2> HIDE DEF b
  <2>2. Shape(c, Only(b, add), IF b THEN {"add"} ELSE {}, {}, IF b THEN added ELSE {})
    BY <1>3, <2>1, ShapeOnly
  <2> QED
    BY <2>1, <2>2 DEF b
<1>7. Shape(c, Only(noted, put), opt(noted, "put"), {}, {})
  <2>1. noted \in BOOLEAN
    OBVIOUS
  <2> HIDE DEF noted
  <2> QED
    BY <1>3, <2>1, ShapeOnly
<1>8. CASE c.kind = "create"
  <2>1. Shape(c, <<create>>, {"create"}, {}, {})
    BY <1>4, <1>8, ShapeOne
  <2>2. \A x \in {"create"}, y \in opt(added # {}, "add") : Stage(x) < Stage(y)
    BY StageFacts
  <2> DEFINE oa == opt(added # {}, "add")
  <2> HIDE DEF opt, oa
  <2>3. Shape(c, <<create>> \o Only(added # {}, add), {"create"} \cup oa, {} \cup {}, {} \cup added)
    BY <1>6, <2>1, <2>2, ShapeConcat DEF oa
  <2>4. {} \cup {} = {} /\ {} \cup added = added
    OBVIOUS
  <2>5. PoolCalls(c) = <<create>> \o Only(added # {}, add)
    BY <1>8 DEF PoolCalls, create, add, added
  <2>6. Shape(c, PoolCalls(c), {"create"} \cup oa, {}, added)
    BY <2>3, <2>4, <2>5
  <2> QED
    BY <1>8, <2>6 DEF added, oa, opt
<1>9. CASE c.kind = "delete"
  <2>1. Shape(c, <<delete>>, {"delete"}, {}, {})
    BY <1>3, ShapeOne
  <2>2. \A x \in opt(removed # {}, "remove"), y \in {"delete"} : Stage(x) < Stage(y)
    BY StageFacts
  <2> DEFINE om == opt(removed # {}, "remove")
  <2> HIDE DEF opt, om
  <2>3. Shape(c, Only(removed # {}, remove) \o <<delete>>, om \cup {"delete"}, removed \cup {}, {} \cup {})
    BY <1>5, <2>1, <2>2, ShapeConcat DEF om
  <2>4. {} \cup {} = {} /\ removed \cup {} = removed
    OBVIOUS
  <2>5. PoolCalls(c) = Only(removed # {}, remove) \o <<delete>>
    BY <1>9 DEF PoolCalls, delete, remove, removed
  <2>6. Shape(c, PoolCalls(c), om \cup {"delete"}, removed, {})
    BY <2>3, <2>4, <2>5
  <2> QED
    BY <1>9, <2>6 DEF removed, om, opt
<1>10. CASE c.kind = "update"
  <2> DEFINE om == opt(removed # {}, "remove")
             oa == opt(added # {}, "add")
             op == opt(noted, "put")
  <2>1. /\ \A x \in op, y \in om : Stage(x) < Stage(y)
        /\ \A x \in op \cup om, y \in oa : Stage(x) < Stage(y)
    BY StageFacts
  <2> HIDE DEF opt, om, oa, op
  <2>2. Shape(c, Only(noted, put) \o Only(removed # {}, remove), op \cup om, {} \cup removed, {} \cup {})
    BY <1>5, <1>7, <2>1, ShapeConcat DEF om, op
  <2>3. {} \cup {} = {} /\ {} \cup removed = removed /\ removed \cup {} = removed /\ {} \cup added = added
    OBVIOUS
  <2>4. Shape(c, Only(noted, put) \o Only(removed # {}, remove), op \cup om, removed, {})
    BY <2>2, <2>3
  <2>5. Shape(c, (Only(noted, put) \o Only(removed # {}, remove)) \o Only(added # {}, add),
              (op \cup om) \cup oa, removed \cup {}, {} \cup added)
    BY <1>6, <2>1, <2>4, ShapeConcat DEF oa
  <2>6. PoolCalls(c) = (Only(noted, put) \o Only(removed # {}, remove)) \o Only(added # {}, add)
    BY <1>10 DEF PoolCalls, noted, put, remove, removed, add, added
  <2>7. Shape(c, PoolCalls(c), (op \cup om) \cup oa, removed, added)
    BY <2>3, <2>5, <2>6
  <2> QED
    BY <1>10, <2>7 DEF removed, added, om, oa, op, opt, noted
<1> QED
  BY <1>8, <1>9, <1>10, SoundFacts

LEMMA IpsetShape ==
    ASSUME NEW c, Sound(c), In(c.obj, {"firewall_ipset"})
    PROVE  LET moved == {n \in Names : c.before.parts[n] # c.after.parts[n]}
               out == moved \cap PartsOf(c.before)
               in == moved \cap PartsOf(c.after)
               opt(S, op) == IF S # {} THEN {op} ELSE {}
               down == opt(PartsOf(c.before), "remove") \cup {"delete"}
               up == {"create"} \cup opt(PartsOf(c.after), "add")
           IN  /\ c.kind = "create" => Shape(c, IpsetCalls(c), up, {}, PartsOf(c.after))
               /\ c.kind = "delete" => Shape(c, IpsetCalls(c), down, PartsOf(c.before), {})
               /\ c.kind = "update" /\ c.before.note # c.after.note =>
                    Shape(c, IpsetCalls(c), down \cup up, PartsOf(c.before), PartsOf(c.after))
               /\ c.kind = "update" /\ c.before.note = c.after.note =>
                    Shape(c, IpsetCalls(c), opt(out, "remove") \cup opt(in, "add"), out, in)
<1> DEFINE moved == {n \in Names : c.before.parts[n] # c.after.parts[n]}
           out == moved \cap PartsOf(c.before)
           in == moved \cap PartsOf(c.after)
           opt(S, op) == IF S # {} THEN {op} ELSE {}
           P == PartsOf(c.before)
           Q == PartsOf(c.after)
           down == opt(P, "remove") \cup {"delete"}
           up == {"create"} \cup opt(Q, "add")
           create == Call("create", {}, [c.after EXCEPT !.parts = NoParts])
           delete == Call("delete", {}, Absent)
           teardown == Each("remove", P, Absent) \o <<delete>>
           buildup == <<create>> \o Each("add", Q, c.after)
<1>1. /\ c.after \in Marks /\ c.before \in Marks /\ Absent \in Marks
      /\ c.kind # "delete" => [c.after EXCEPT !.parts = NoParts] \in Marks
  BY SoundFacts
<1>2. P \in SUBSET Names /\ Q \in SUBSET Names /\ out \in SUBSET Names /\ in \in SUBSET Names
  BY <1>1, PartsType
<1>3. delete \in Calls /\ delete.op = "delete" /\ Member(c, delete)
  BY <1>1 DEF Call, Calls, Ops, Member
<1>4. c.kind # "delete" => create \in Calls /\ create.op = "create" /\ Member(c, create)
  BY <1>1 DEF Call, Calls, Ops, Member
<1> HIDE DEF P, Q, out, in, create, delete
<1>5. ASSUME NEW S \in SUBSET Names
      PROVE  /\ Shape(c, Each("remove", S, Absent), opt(S, "remove"), S, {})
             /\ Shape(c, Each("add", S, c.after), opt(S, "add"), {}, S)
  <2>1. Shape(c, Each("remove", S, Absent), opt(S, "remove"), S, {})
    BY <1>1, ShapeEach
  <2>2. Shape(c, Each("add", S, c.after), opt(S, "add"), {}, S)
    BY <1>1, ShapeEach
  <2> QED
    BY <2>1, <2>2
<1>6. /\ \A S : \A x \in opt(S, "remove"), y \in {"delete"} : Stage(x) < Stage(y)
      /\ \A S : \A x \in {"create"}, y \in opt(S, "add") : Stage(x) < Stage(y)
      /\ \A S, T : \A x \in opt(S, "remove"), y \in opt(T, "add") : Stage(x) < Stage(y)
      /\ \A x \in down, y \in up : Stage(x) < Stage(y)
  BY StageFacts
<1>7. \A S : S \cup {} = S /\ {} \cup S = S
  OBVIOUS
<1> HIDE DEF opt
<1>8. Shape(c, teardown, down, P, {})
  <2>1. Shape(c, <<delete>>, {"delete"}, {}, {})
    BY <1>3, ShapeOne
  <2>2. Shape(c, Each("remove", P, Absent), opt(P, "remove"), P, {})
    BY <1>2, <1>5
  <2>3. Shape(c, teardown, down, P \cup {}, {} \cup {})
    BY <1>6, <2>1, <2>2, ShapeConcat
  <2> HIDE DEF teardown, down
  <2> QED
    BY <1>7, <2>3
<1>9. c.kind # "delete" => Shape(c, buildup, up, {}, Q)
  <2>1. SUFFICES ASSUME c.kind # "delete" PROVE Shape(c, buildup, up, {}, Q)
    OBVIOUS
  <2>2. Shape(c, <<create>>, {"create"}, {}, {})
    BY <1>4, <2>1, ShapeOne
  <2>3. Shape(c, Each("add", Q, c.after), opt(Q, "add"), {}, Q)
    BY <1>2, <1>5
  <2>4. Shape(c, buildup, up, {} \cup {}, {} \cup Q)
    BY <1>6, <2>2, <2>3, ShapeConcat
  <2> HIDE DEF buildup, up
  <2> QED
    BY <1>7, <2>4
<1>10. c.kind # "delete" => Shape(c, teardown \o buildup, down \cup up, P, Q)
  <2> HIDE DEF teardown, buildup, down, up
  <2>1. c.kind # "delete" => Shape(c, teardown \o buildup, down \cup up, P \cup {}, {} \cup Q)
    <3>1. SUFFICES ASSUME c.kind # "delete"
                   PROVE  Shape(c, teardown \o buildup, down \cup up, P \cup {}, {} \cup Q)
      OBVIOUS
    <3> QED
      BY <1>6, <1>8, <1>9, <3>1, ShapeConcat
  <2> QED
    BY <1>7, <2>1
<1>11. Shape(c, Each("remove", out, Absent) \o Each("add", in, c.after),
             opt(out, "remove") \cup opt(in, "add"), out, in)
  <2>1. Shape(c, Each("remove", out, Absent), opt(out, "remove"), out, {})
    BY <1>2, <1>5
  <2>2. Shape(c, Each("add", in, c.after), opt(in, "add"), {}, in)
    BY <1>2, <1>5
  <2>3. Shape(c, Each("remove", out, Absent) \o Each("add", in, c.after),
              opt(out, "remove") \cup opt(in, "add"), out \cup {}, {} \cup in)
    BY <1>6, <2>1, <2>2, ShapeConcat
  <2> QED
    BY <1>7, <2>3
<1>12. /\ c.kind = "create" => IpsetCalls(c) = buildup
       /\ c.kind = "delete" => IpsetCalls(c) = teardown
       /\ c.kind = "update" /\ c.before.note # c.after.note => IpsetCalls(c) = teardown \o buildup
       /\ c.kind = "update" /\ c.before.note = c.after.note =>
            IpsetCalls(c) = Each("remove", out, Absent) \o Each("add", in, c.after)
  BY DEF IpsetCalls, P, Q, out, in, create, delete
<1> HIDE DEF teardown, buildup
<1>13. /\ c.kind = "create" => Shape(c, IpsetCalls(c), up, {}, Q)
       /\ c.kind = "delete" => Shape(c, IpsetCalls(c), down, P, {})
       /\ c.kind = "update" /\ c.before.note # c.after.note => Shape(c, IpsetCalls(c), down \cup up, P, Q)
       /\ c.kind = "update" /\ c.before.note = c.after.note =>
            Shape(c, IpsetCalls(c), opt(out, "remove") \cup opt(in, "add"), out, in)
  BY <1>8, <1>9, <1>10, <1>11, <1>12
<1> QED
  BY <1>13 DEF P, Q, out, in, opt

\* What an export shows of an object is what there is of it.
LEMMA SeenFacts ==
    ASSUME NEW o \in Obj, NEW v, v = Absent \/ v \in Decl(o), NEW b, Exported(o, v) = b
    PROVE  /\ v = Absent <=> b = Absent
           /\ PartsOf(b) = PartsOf(v)
           /\ \A n \in Names : b.parts[n] = v.parts[n]
           /\ v # Absent => /\ b.note = v.note /\ b.fixed = v.fixed /\ b.parts = v.parts
                            /\ b \in Decl(o) /\ (~In(o, {"ha_resource"}) => b.flag = v.flag)
<1>1. CASE v = Absent
  BY <1>1 DEF Exported
<1>2. CASE v # Absent
  <2>1. v \in Decl(o) /\ v \in Values
    BY <1>2, DeclFacts
  <2>2. b # Absent /\ b \in Decl(o)
    BY <1>2, ExportedFacts
  <2>3. b = Sorted(v) \/ (In(o, {"ha_resource"}) /\ b = [Sorted(v) EXCEPT !.flag = 1])
    BY <1>2 DEF Exported, export_ha_resources
  <2>4. /\ b.note = v.note /\ b.fixed = v.fixed /\ b.parts = v.parts
        /\ ~In(o, {"ha_resource"}) => b.flag = v.flag
    BY <2>1, <2>3 DEF Sorted, Values
  <2> QED
    BY <1>2, <2>2, <2>4 DEF PartsOf
<1> QED
  BY <1>1, <1>2

\* What Filling asks, for a delete and for the others.
Sized(c, s) == s \in Seq(Calls) /\ Staged(s) /\ \A i \in DOMAIN s : Member(c, s[i])

LEMMA ShapeFacts ==
    ASSUME NEW c, NEW s, NEW ops, NEW R, NEW A, Shape(c, s, ops, R, A)
    PROVE  Sized(c, s) /\ For(s, "remove") = R /\ For(s, "add") = A
  BY DEF Shape, Sized

LEMMA FillDelete ==
    ASSUME NEW c, NEW s, NEW v, Sized(c, s), c.kind = "delete",
           v # Absent, ~Has(s, "create"), ~Has(s, "add"), Has(s, "delete"),
           For(s, "remove") = PartsOf(v)
    PROVE  Filling(c, s, v)
  BY DEF Filling, Sized

LEMMA FillOther ==
    ASSUME NEW c, NEW s, NEW v, Sized(c, s), c.kind # "delete",
           Has(s, "put") \/ Has(s, "remove") => v # Absent, For(s, "remove") \subseteq PartsOf(v),
           Has(s, "delete") => PartsOf(v) \subseteq For(s, "remove") /\ Has(s, "create"),
           v = Absent <=> Has(s, "create") /\ ~Has(s, "delete"),
           Has(s, "create") \/ Has(s, "put") \/ v.note = c.after.note,
           \A n \in For(s, "add") : In(c.obj, {"pool"}) \/ Base(s, v, n) = 0,
           \A n \in Names : n \notin For(s, "add") => c.after.parts[n] = Base(s, v, n)
    PROVE  Filling(c, s, v)
<1>1. \A n \in Names : IF n \in For(s, "add") THEN In(c.obj, {"pool"}) \/ Base(s, v, n) = 0
                       ELSE c.after.parts[n] = Base(s, v, n)
  OBVIOUS
<1> QED
  BY <1>1 DEF Filling, Sized

\* The calls of a change lead from what it was planned for to what is declared.
LEMMA FillStart ==
    ASSUME NEW c, Sound(c), Formed(c), In(c.obj, {"pool", "firewall_ipset"}),
           NEW v, v = Absent \/ v \in Decl(c.obj), Exported(c.obj, v) = c.before
    PROVE  Filling(c, CallsOf(c), v)
<1> DEFINE s == CallsOf(c)
<1>1. /\ c.obj \in Obj /\ c.kind \in {"create", "update", "delete"}
      /\ c.kind # "delete" => c.after \in Decl(c.obj)
  BY SoundFacts
<1>2. /\ v = Absent <=> c.before = Absent
      /\ PartsOf(c.before) = PartsOf(v)
      /\ \A n \in Names : c.before.parts[n] = v.parts[n]
      /\ v # Absent => c.before.note = v.note
  BY <1>1, SeenFacts
<1>3. PartsOf(Absent) = {} /\ \A n \in Names : Absent.parts[n] = 0
  BY AbsentFacts DEF PartsOf, NoParts
<1>4. /\ c.kind = "create" <=> v = Absent
      /\ c.kind = "delete" <=> c.after = Absent
  BY <1>2 DEF Formed
<1>5. \A n \in Names : v.parts[n] # 0 <=> n \in PartsOf(v)
  BY DEF PartsOf
<1>6. \A n \in Names : c.after.parts[n] # 0 <=> n \in PartsOf(c.after)
  BY DEF PartsOf
<1>7. CASE In(c.obj, {"pool"})
  <2> DEFINE removed == PartsOf(c.before) \ PartsOf(c.after)
             added == PartsOf(c.after) \ PartsOf(c.before)
             opt(b, op) == IF b THEN {op} ELSE {}
  <2>1. s = PoolCalls(c)
    BY <1>7 DEF CallsOf, In
  <2>2. /\ c.kind = "create" => Shape(c, s, {"create"} \cup opt(added # {}, "add"), {}, added)
        /\ c.kind = "delete" =>
             Shape(c, s, opt(removed # {}, "remove") \cup {"delete"}, removed, {})
        /\ c.kind = "update" =>
             Shape(c, s, (opt(c.before.note # c.after.note, "put")
                      \cup opt(removed # {}, "remove")) \cup opt(added # {}, "add"), removed, added)
    BY <1>7, <2>1, PoolShape
  <2> SUFFICES Filling(c, s, v)
    OBVIOUS
  <2> HIDE DEF s
  <2>3. CASE c.kind = "create"
    <3>1. Shape(c, s, {"create"} \cup opt(added # {}, "add"), {}, added)
      BY <2>2, <2>3
    <3>2. Has(s, "create") /\ ~Has(s, "delete") /\ ~Has(s, "put") /\ ~Has(s, "remove")
      BY <3>1 DEF Shape
    <3>3. v = Absent /\ added = PartsOf(c.after)
      BY <1>2, <1>3, <1>4, <2>3
    <3> HIDE DEF added, opt
    <3>4. Sized(c, s) /\ For(s, "remove") = {} /\ For(s, "add") = added
      BY <3>1, ShapeFacts
    <3>5. \A n \in Names : n \notin For(s, "add") => c.after.parts[n] = Base(s, v, n)
      BY <1>6, <3>2, <3>3, <3>4 DEF Base
    <3>6. \A n \in For(s, "add") : In(c.obj, {"pool"}) \/ Base(s, v, n) = 0
      BY <1>7
    <3> QED
      BY <2>3, <3>2, <3>3, <3>4, <3>5, <3>6, FillOther
  <2>4. CASE c.kind = "delete"
    <3>1. Shape(c, s, opt(removed # {}, "remove") \cup {"delete"}, removed, {})
      BY <2>2, <2>4
    <3>2. ~Has(s, "create") /\ Has(s, "delete") /\ ~Has(s, "add")
      BY <3>1 DEF Shape
    <3>3. v # Absent /\ removed = PartsOf(v)
      BY <1>2, <1>3, <1>4, <2>4
    <3> HIDE DEF removed, opt
    <3>4. Sized(c, s) /\ For(s, "remove") = removed
      BY <3>1, ShapeFacts
    <3> QED
      BY <2>4, <3>2, <3>3, <3>4, FillDelete
  <2>5. CASE c.kind = "update"
    <3>1. Shape(c, s, (opt(c.before.note # c.after.note, "put")
                   \cup opt(removed # {}, "remove")) \cup opt(added # {}, "add"), removed, added)
      BY <2>2, <2>5
    <3>2. /\ ~Has(s, "create") /\ ~Has(s, "delete")
          /\ Has(s, "put") <=> c.before.note # c.after.note
          /\ For(s, "remove") = PartsOf(v) \ PartsOf(c.after)
          /\ For(s, "add") = PartsOf(c.after) \ PartsOf(v)
      BY <1>2, <3>1 DEF Shape
    <3>3. v # Absent /\ v \in Decl(c.obj) /\ c.after \in Decl(c.obj)
      BY <1>1, <1>4, <2>5
    <3>4. \A n \in Names : v.parts[n] \in 0..1 /\ c.after.parts[n] \in 0..1
      <4>1. v.parts \in [Names -> Amounts(c.obj)] /\ c.after.parts \in [Names -> Amounts(c.obj)]
        BY <1>1, <3>3, DeclFacts
      <4> QED
        BY <1>7, <4>1 DEF Amounts
    <3>5. \A n \in Names : n \notin For(s, "add") => c.after.parts[n] = Base(s, v, n)
      <4>1. ASSUME NEW n \in Names, n \notin For(s, "add") PROVE c.after.parts[n] = Base(s, v, n)
        <5>1. CASE n \in PartsOf(v) /\ n \in PartsOf(c.after)
          BY <1>5, <1>6, <3>2, <3>4, <5>1 DEF Base
        <5>2. CASE n \in PartsOf(v) /\ n \notin PartsOf(c.after)
          BY <1>6, <3>2, <5>2 DEF Base
        <5>3. CASE n \notin PartsOf(v)
          BY <1>5, <1>6, <3>2, <4>1, <5>3 DEF Base
        <5> QED
          BY <5>1, <5>2, <5>3
      <4> QED
        BY <4>1
    <3>7. Has(s, "create") \/ Has(s, "put") \/ v.note = c.after.note
      BY <1>2, <3>2, <3>3
    <3>8. For(s, "remove") \subseteq PartsOf(v)
      BY <3>2
    <3> HIDE DEF removed, added, opt
    <3>9. Sized(c, s)
      BY <3>1, ShapeFacts
    <3>10. \A n \in For(s, "add") : In(c.obj, {"pool"}) \/ Base(s, v, n) = 0
      BY <1>7
    <3> QED
      BY <2>5, <3>2, <3>3, <3>5, <3>7, <3>8, <3>9, <3>10, FillOther
  <2> QED
    BY <1>1, <2>3, <2>4, <2>5
<1>8. CASE In(c.obj, {"firewall_ipset"})
  <2> DEFINE moved == {n \in Names : c.before.parts[n] # c.after.parts[n]}
             out == moved \cap PartsOf(c.before)
             in == moved \cap PartsOf(c.after)
             opt(S, op) == IF S # {} THEN {op} ELSE {}
             down == opt(PartsOf(c.before), "remove") \cup {"delete"}
             up == {"create"} \cup opt(PartsOf(c.after), "add")
  <2>1. s = IpsetCalls(c)
    BY <1>8 DEF CallsOf, In
  <2>2. /\ c.kind = "create" => Shape(c, s, up, {}, PartsOf(c.after))
        /\ c.kind = "delete" => Shape(c, s, down, PartsOf(c.before), {})
        /\ c.kind = "update" /\ c.before.note # c.after.note =>
             Shape(c, s, down \cup up, PartsOf(c.before), PartsOf(c.after))
        /\ c.kind = "update" /\ c.before.note = c.after.note =>
             Shape(c, s, opt(out, "remove") \cup opt(in, "add"), out, in)
    BY <1>8, <2>1, IpsetShape
  <2> SUFFICES Filling(c, s, v)
    OBVIOUS
  <2> HIDE DEF s
  <2>3. CASE c.kind = "create"
    <3>1. Shape(c, s, up, {}, PartsOf(c.after))
      BY <2>2, <2>3
    <3>2. Has(s, "create") /\ ~Has(s, "delete") /\ ~Has(s, "put") /\ ~Has(s, "remove")
      BY <3>1 DEF Shape
    <3>3. v = Absent
      BY <1>4, <2>3
    <3>4. \A n \in Names : Base(s, v, n) = 0 /\ (n \notin PartsOf(c.after) => c.after.parts[n] = 0)
      BY <1>6, <3>2 DEF Base
    <3> HIDE DEF up, opt
    <3>5. Sized(c, s) /\ For(s, "remove") = {} /\ For(s, "add") = PartsOf(c.after)
      BY <3>1, ShapeFacts
    <3>6. \A n \in For(s, "add") : In(c.obj, {"pool"}) \/ Base(s, v, n) = 0
      BY <3>4 DEF For
    <3>7. \A n \in Names : n \notin For(s, "add") => c.after.parts[n] = Base(s, v, n)
      BY <3>4, <3>5
    <3> QED
      BY <2>3, <3>2, <3>3, <3>5, <3>6, <3>7, FillOther
  <2>4. CASE c.kind = "delete"
    <3>1. Shape(c, s, down, PartsOf(c.before), {})
      BY <2>2, <2>4
    <3>2. ~Has(s, "create") /\ Has(s, "delete") /\ ~Has(s, "add")
      BY <3>1 DEF Shape
    <3>3. v # Absent
      BY <1>4, <2>4
    <3> HIDE DEF down, opt
    <3>4. Sized(c, s) /\ For(s, "remove") = PartsOf(v)
      BY <1>2, <3>1, ShapeFacts
    <3> QED
      BY <2>4, <3>2, <3>3, <3>4, FillDelete
  <2>5. CASE c.kind = "update" /\ c.before.note # c.after.note
    <3>1. Shape(c, s, down \cup up, PartsOf(c.before), PartsOf(c.after))
      BY <2>2, <2>5
    <3>2. Has(s, "create") /\ Has(s, "delete")
      BY <3>1 DEF Shape
    <3>3. v # Absent
      BY <1>4, <2>5
    <3>4. \A n \in Names : Base(s, v, n) = 0 /\ (n \notin PartsOf(c.after) => c.after.parts[n] = 0)
      BY <1>6, <3>2 DEF Base
    <3> HIDE DEF down, up, opt
    <3>5. Sized(c, s) /\ For(s, "remove") = PartsOf(v) /\ For(s, "add") = PartsOf(c.after)
      BY <1>2, <3>1, ShapeFacts
    <3>6. \A n \in For(s, "add") : In(c.obj, {"pool"}) \/ Base(s, v, n) = 0
      BY <3>4 DEF For
    <3>7. \A n \in Names : n \notin For(s, "add") => c.after.parts[n] = Base(s, v, n)
      BY <3>4, <3>5
    <3> QED
      BY <2>5, <3>2, <3>3, <3>5, <3>6, <3>7, FillOther
  <2>6. CASE c.kind = "update" /\ c.before.note = c.after.note
    <3>1. Shape(c, s, opt(out, "remove") \cup opt(in, "add"), out, in)
      BY <2>2, <2>6
    <3>2. /\ ~Has(s, "create") /\ ~Has(s, "delete") /\ ~Has(s, "put")
          /\ For(s, "remove") = out /\ For(s, "add") = in
      BY <3>1 DEF Shape
    <3>3. v # Absent /\ v.note = c.after.note
      BY <1>2, <1>4, <2>6
    <3>4. /\ \A n \in Names : n \in out <=> v.parts[n] # c.after.parts[n] /\ v.parts[n] # 0
          /\ \A n \in Names : n \in in <=> v.parts[n] # c.after.parts[n] /\ c.after.parts[n] # 0
          /\ out \subseteq PartsOf(v)
      BY <1>2, <1>5, <1>6
    <3> HIDE DEF out, in, opt
    <3>5. /\ \A n \in Names : n \in in => Base(s, v, n) = 0
          /\ \A n \in Names : n \notin in => c.after.parts[n] = Base(s, v, n)
      BY <3>2, <3>4 DEF Base
    <3>6. Sized(c, s)
      BY <3>1, ShapeFacts
    <3>7. \A n \in For(s, "add") : In(c.obj, {"pool"}) \/ Base(s, v, n) = 0
      BY <3>2, <3>5 DEF For
    <3>8. /\ \A n \in Names : n \notin For(s, "add") => c.after.parts[n] = Base(s, v, n)
          /\ For(s, "remove") \subseteq PartsOf(v) /\ ~Has(s, "put")
      BY <3>2, <3>4, <3>5
    <3> QED
      BY <2>6, <3>2, <3>3, <3>6, <3>7, <3>8, FillOther
  <2> QED
    BY <1>1, <2>3, <2>4, <2>5, <2>6
<1> QED
  BY <1>7, <1>8 DEF In


\* What comes after the first call of a change of a pool or an IP set.
LEMMA LaterFacts ==
    ASSUME NEW c, NEW s, Sized(c, s), s # <<>>
    PROVE  LET h == Head(s)
               t == Tail(s)
           IN  /\ h \in Calls /\ Member(c, h) /\ Sized(c, t)
               /\ \A op : /\ Has(s, op) <=> h.op = op \/ Has(t, op)
                          /\ For(s, op) = For(t, op) \cup (IF h.op = op THEN h.set \cap Names ELSE {})
               /\ h.op = "put" => ~Has(t, "put")
               /\ h.op = "remove" => For(t, "remove") \cap h.set = {}
               /\ h.op \in {"delete", "create", "add"} =>
                    ~Has(t, "put") /\ ~Has(t, "remove") /\ ~Has(t, "delete") /\ For(t, "remove") = {}
               /\ h.op \in {"create", "add"} => ~Has(t, "create")
               /\ h.op = "add" => For(t, "add") \cap h.set = {}
<1> DEFINE h == Head(s)
           t == Tail(s)
<1>1. s \in Seq(Calls) /\ Staged(s) /\ \A i \in DOMAIN s : Member(c, s[i])
  BY DEF Sized
<1>2. /\ h \in Calls /\ t \in Seq(Calls) /\ Staged(t)
      /\ \A op : /\ Has(s, op) <=> h.op = op \/ Has(t, op)
                 /\ For(s, op) = For(t, op) \cup (IF h.op = op THEN h.set \cap Names ELSE {})
      /\ \A i \in DOMAIN t : Before(h, t[i])
      /\ \E i \in DOMAIN s : h = s[i]
  BY <1>1, LeftTail
<1>3. \A i \in DOMAIN t : i + 1 \in DOMAIN s /\ t[i] = s[i + 1]
  BY <1>1, TailFacts
<1> HIDE DEF h, t
<1>4. Member(c, h) /\ \A i \in DOMAIN t : Member(c, t[i])
  BY <1>1, <1>2, <1>3
<1>5. Sized(c, t)
  BY <1>2, <1>4 DEF Sized
<1>6. ASSUME NEW i \in DOMAIN t
      PROVE  /\ h.op = "put" => t[i].op # "put"
             /\ h.op = "remove" => t[i].op # "remove" \/ h.set \cap t[i].set = {}
             /\ h.op \in {"delete", "create", "add"} => t[i].op \notin {"put", "remove", "delete"}
             /\ h.op \in {"create", "add"} => t[i].op # "create"
             /\ h.op = "add" => t[i].op # "add" \/ h.set \cap t[i].set = {}
  <2>1. Before(h, t[i])
    BY <1>2
  <2> QED
    BY <2>1, StageFacts DEF Before
<1>7. /\ h.op = "put" => ~Has(t, "put")
      /\ h.op \in {"delete", "create", "add"} => ~Has(t, "put") /\ ~Has(t, "remove") /\ ~Has(t, "delete")
      /\ h.op \in {"create", "add"} => ~Has(t, "create")
  BY <1>6 DEF Has
<1>8. /\ h.op = "remove" => For(t, "remove") \cap h.set = {}
      /\ h.op = "add" => For(t, "add") \cap h.set = {}
      /\ h.op \in {"delete", "create", "add"} => For(t, "remove") = {}
  BY <1>6 DEF For
<1> QED
  BY <1>2, <1>4, <1>5, <1>7, <1>8 DEF h, t

\* Members set or taken out.
LEMMA SetPartsFacts ==
    ASSUME NEW o \in Obj, NEW v \in Decl(o), NEW names, NEW parts
    PROVE  LET w == SetParts(v, names, parts)
           IN  /\ w.fixed = v.fixed /\ w.note = v.note /\ w.flag = v.flag /\ w.order = v.order
               /\ \A n \in Names : w.parts[n] = IF n \in names THEN parts[n] ELSE v.parts[n]
<1>1. v \in Values
  BY DeclFacts
<1> QED
  BY <1>1 DEF SetParts, Values

\* One call after another keeps leading there, and none of them is refused.
LEMMA FillStep ==
    ASSUME NEW c, Sound(c), In(c.obj, {"pool", "firewall_ipset"}), NEW L, ClusterState(L),
           c.obj \in DOMAIN L, NEW s \in Seq(Calls), s # <<>>, Filling(c, s, L[c.obj])
    PROVE  /\ Answer(c.obj, Head(s), L) = "ok"
           /\ Filling(c, Tail(s), Effect(c.obj, Head(s), L)[c.obj])
<1> DEFINE o == c.obj
           v == L[o]
           h == Head(s)
           t == Tail(s)
           w == Effect(o, h, L)[o]
           ok == Answer(o, h, L) = "ok"
<1>1. /\ o \in Obj /\ c.kind \in {"create", "update", "delete"}
      /\ c.kind # "delete" => /\ c.after \in Decl(o)
                              /\ [c.after EXCEPT !.parts = NoParts] \in Decl(o)
  BY SoundFacts
<1>2. v = Absent \/ v \in Decl(o)
  BY DEF ClusterState
<1>3. Sized(c, s)
  BY DEF Filling, Sized
<1>4. /\ h \in Calls /\ Member(c, h) /\ Sized(c, t)
      /\ \A op : /\ Has(s, op) <=> h.op = op \/ Has(t, op)
                 /\ For(s, op) = For(t, op) \cup (IF h.op = op THEN h.set \cap Names ELSE {})
      /\ h.op = "put" => ~Has(t, "put")
      /\ h.op = "remove" => For(t, "remove") \cap h.set = {}
      /\ h.op \in {"delete", "create", "add"} =>
           ~Has(t, "put") /\ ~Has(t, "remove") /\ ~Has(t, "delete") /\ For(t, "remove") = {}
      /\ h.op \in {"create", "add"} => ~Has(t, "create")
      /\ h.op = "add" => For(t, "add") \cap h.set = {}
  BY <1>3, LaterFacts
<1>5. Filling(c, s, v)
  OBVIOUS
<1>6. /\ h.op \in {"put", "remove", "delete", "create", "add"}
      /\ h.op = "put" => h.set = {"note"} /\ h.val = c.after
      /\ h.op = "create" => h.val = [c.after EXCEPT !.parts = NoParts]
      /\ h.op = "add" => h.val = c.after
      /\ h.op \in {"remove", "add"} => h.set \subseteq Names
  BY <1>4 DEF Member
<1>7. ~In(o, {"ha_rule"}) /\ ~In(o, {"ha_resource"})
  BY DEF In
<1>8. \A x \in Decl(o) : x \in Values /\ x # Absent
  BY <1>1, DeclFacts
<1>9. PartsOf(Absent) = {}
  BY AbsentFacts DEF PartsOf, NoParts
<1> SUFFICES ok /\ Filling(c, t, w)
  OBVIOUS
<1>10. CASE h.op = "put"
  <2>1. v # Absent /\ v \in Decl(o) /\ v \in Values
    BY <1>2, <1>4, <1>5, <1>8, <1>10 DEF Filling
  <2>2. ok
    BY <1>6, <1>7, <1>10, <2>1 DEF Answer, Takeable, Refers
  <2>3. w = Merge(v, h)
    BY <1>10 DEF Effect
  <2>4. CASE c.kind # "delete"
    <3>1. w \in Decl(o) /\ w # Absent
      BY <1>1, <1>6, <1>8, <1>10, <2>1, <2>3, <2>4, MergeFits
    <3>2. w.note = c.after.note /\ w.parts = v.parts
      BY <1>6, <1>10, <2>1, <2>3 DEF Merge, Values
    <3> HIDE DEF v, h, t, w, o, ok
    <3>3. PartsOf(w) = PartsOf(v)
      BY <3>2 DEF PartsOf
    <3>4. /\ \A n \in Names : Base(t, w, n) = Base(s, v, n)
          /\ For(t, "add") = For(s, "add") /\ For(t, "remove") = For(s, "remove")
      BY <1>4, <1>10, <3>2 DEF Base
    <3>5. Filling(c, t, w)
      <4>1. \A n \in Names : IF n \in For(t, "add") THEN In(c.obj, {"pool"}) \/ Base(t, w, n) = 0
                             ELSE c.after.parts[n] = Base(t, w, n)
        BY <1>5, <2>4, <3>4 DEF Filling
      <4>2. /\ For(t, "remove") \subseteq PartsOf(w)
            /\ Has(t, "delete") => PartsOf(w) \subseteq For(t, "remove")
            /\ Has(t, "delete") => Has(t, "create")
            /\ w = Absent <=> Has(t, "create") /\ ~Has(t, "delete")
        BY <1>4, <1>5, <1>10, <2>1, <2>4, <3>1, <3>3, <3>4 DEF Filling
      <4> QED
        BY <1>4, <2>4, <3>1, <3>2, <4>1, <4>2 DEF Filling, Sized
    <3> QED
      BY <2>2, <3>5
  <2>5. CASE c.kind = "delete"
    <3>1. w.parts = v.parts
      BY <1>6, <1>10, <2>1, <2>3 DEF Merge, Values
    <3>2. w # Absent
      <4>1. w.fixed = v.fixed /\ v.fixed \in 0..1
        BY <2>1, <2>3 DEF Merge, Values
      <4>2. Absent.fixed = 9
        BY DEF Absent
      <4> HIDE DEF w, v
      <4> QED
        BY <4>1, <4>2
    <3> HIDE DEF v, h, t, w, o, ok
    <3>3. PartsOf(w) = PartsOf(v)
      BY <3>1 DEF PartsOf
    <3>4. Filling(c, t, w)
      BY <1>4, <1>5, <1>10, <2>1, <2>5, <3>2, <3>3 DEF Filling, Sized
    <3> QED
      BY <2>2, <3>4
  <2> QED
    BY <2>4, <2>5
<1>11. CASE h.op = "remove"
  <2>1. v # Absent /\ v \in Decl(o) /\ v \in Values
    BY <1>2, <1>4, <1>5, <1>8, <1>11 DEF Filling
  <2>2. h.set \subseteq PartsOf(v) /\ h.set \subseteq Names
    <3>1. For(s, "remove") \subseteq PartsOf(v)
      BY <1>5 DEF Filling
    <3> QED
      BY <1>4, <1>6, <1>11, <3>1
  <2>3. ok
    BY <1>11, <2>1, <2>2 DEF Answer, Takeable
  <2>4. w = SetParts(v, h.set, NoParts)
    BY <1>11 DEF Effect
  <2>5. w \in Decl(o) /\ w # Absent
    <3>1. NoParts \in [Names -> Amounts(o)] /\ In(o, {"pool", "firewall_ipset", "ha_rule"})
      BY <1>1, <2>1, DeclFacts DEF In
    <3> QED
      BY <1>1, <1>8, <2>1, <2>4, <3>1, SetPartsFits
  <2>6. /\ w.note = v.note
        /\ \A n \in Names : w.parts[n] = IF n \in h.set THEN 0 ELSE v.parts[n]
    BY <1>1, <2>1, <2>4, SetPartsFacts DEF NoParts
  <2> HIDE DEF v, h, t, w, o, ok
  <2>7. PartsOf(w) = PartsOf(v) \ h.set
    BY <2>6 DEF PartsOf
  <2>8. /\ For(t, "add") = For(s, "add") /\ For(s, "remove") = For(t, "remove") \cup h.set
        /\ \A n \in Names : Base(t, w, n) = Base(s, v, n)
    <3>1. For(t, "add") = For(s, "add") /\ For(s, "remove") = For(t, "remove") \cup h.set
      BY <1>4, <1>6, <1>11
    <3> QED
      BY <1>4, <1>11, <2>6, <3>1 DEF Base
  <2>9. /\ For(t, "remove") \subseteq PartsOf(w)
        /\ Has(t, "delete") => PartsOf(w) \subseteq For(t, "remove")
    BY <1>4, <1>5, <1>11, <2>7, <2>8 DEF Filling
  <2>10. CASE c.kind = "delete"
    <3>1. Filling(c, t, w)
      BY <1>4, <1>5, <1>11, <2>1, <2>5, <2>9, <2>10 DEF Filling, Sized
    <3> QED
      BY <2>3, <3>1
  <2>11. CASE c.kind # "delete"
    <3>1. \A n \in Names : IF n \in For(t, "add") THEN In(c.obj, {"pool"}) \/ Base(t, w, n) = 0
                           ELSE c.after.parts[n] = Base(t, w, n)
      BY <1>5, <2>8, <2>11 DEF Filling
    <3>2. /\ Has(t, "delete") => Has(t, "create")
          /\ w = Absent <=> Has(t, "create") /\ ~Has(t, "delete")
          /\ Has(t, "create") \/ Has(t, "put") \/ w.note = c.after.note
      BY <1>4, <1>5, <1>11, <2>1, <2>5, <2>6, <2>11 DEF Filling
    <3>3. Filling(c, t, w)
      BY <1>4, <2>5, <2>9, <2>11, <3>1, <3>2 DEF Filling, Sized
    <3> QED
      BY <2>3, <3>3
  <2> QED
    BY <2>10, <2>11
<1>12. CASE h.op = "delete"
  <2>1. Has(s, "delete") /\ For(s, "remove") = {} /\ For(s, "add") = For(t, "add")
    BY <1>4, <1>12
  <2>2. v # Absent /\ PartsOf(v) = {}
    BY <1>5, <2>1 DEF Filling
  <2>3. ok
    BY <1>12, <2>2 DEF Answer, Takeable
  <2>4. w = Absent
    BY <1>12 DEF Effect, Purged
  <2> HIDE DEF v, h, t, w, o, ok
  <2>5. CASE c.kind = "delete"
    <3>1. Filling(c, t, w)
      BY <1>4, <1>5, <1>9, <1>12, <2>4, <2>5 DEF Filling, Sized
    <3> QED
      BY <2>3, <3>1
  <2>6. CASE c.kind # "delete"
    <3>1. Has(t, "create")
      BY <1>4, <1>5, <1>12, <2>1, <2>6 DEF Filling
    <3>2. \A n \in Names : Base(t, w, n) = Base(s, v, n)
      BY <1>4, <3>1 DEF Base
    <3>3. \A n \in Names : IF n \in For(t, "add") THEN In(c.obj, {"pool"}) \/ Base(t, w, n) = 0
                           ELSE c.after.parts[n] = Base(t, w, n)
      BY <1>5, <2>1, <2>6, <3>2 DEF Filling
    <3>4. Filling(c, t, w)
      BY <1>4, <1>9, <1>12, <2>4, <2>6, <3>1, <3>3 DEF Filling, Sized
    <3> QED
      BY <2>3, <3>4
  <2> QED
    BY <2>5, <2>6
<1>13. CASE h.op = "create"
  <2>1. Has(s, "create") /\ ~Has(s, "delete") /\ For(s, "add") = For(t, "add")
    BY <1>4, <1>13
  <2>2. c.kind # "delete" /\ v = Absent
    BY <1>5, <2>1 DEF Filling
  <2>3. ok
    BY <1>7, <1>13, <2>2 DEF Answer, Refers
  <2>4. w = [c.after EXCEPT !.parts = NoParts] /\ w \in Decl(o) /\ w # Absent
    BY <1>1, <1>6, <1>8, <1>13, <2>2 DEF Effect
  <2>5. w.note = c.after.note /\ w.parts = NoParts
    <3>1. c.after \in Values
      BY <1>1, <1>8, <2>2
    <3> QED
      BY <2>4, <3>1 DEF Values
  <2> HIDE DEF v, h, t, w, o, ok
  <2>6. \A n \in Names : Base(t, w, n) = 0 /\ Base(s, v, n) = 0
    BY <1>4, <1>13, <2>1, <2>5 DEF Base, NoParts
  <2>7. \A n \in Names : IF n \in For(t, "add") THEN In(c.obj, {"pool"}) \/ Base(t, w, n) = 0
                         ELSE c.after.parts[n] = Base(t, w, n)
    BY <1>5, <2>1, <2>2, <2>6 DEF Filling
  <2>8. Filling(c, t, w)
    BY <1>4, <1>13, <2>2, <2>4, <2>5, <2>7 DEF Filling, Sized
  <2> QED
    BY <2>3, <2>8
<1>14. CASE h.op = "add"
  <2>1. /\ ~Has(s, "create") /\ ~Has(s, "put") /\ ~Has(s, "delete") /\ Has(s, "add")
        /\ For(s, "remove") = {}
        /\ For(s, "add") = For(t, "add") \cup h.set
    BY <1>4, <1>6, <1>14
  <2>2. c.kind # "delete" /\ v # Absent /\ v.note = c.after.note
    BY <1>5, <2>1 DEF Filling
  <2>3. v \in Decl(o) /\ v \in Values
    BY <1>2, <1>8, <2>2
  <2>4. \A n \in Names : IF n \in For(s, "add") THEN In(c.obj, {"pool"}) \/ v.parts[n] = 0
                         ELSE c.after.parts[n] = v.parts[n]
    BY <1>5, <2>1, <2>2 DEF Filling, Base
  <2>5. ok
    <3>1. ~In(o, {"pool"}) => h.set \cap PartsOf(v) = {}
      BY <1>6, <1>14, <2>1, <2>4 DEF PartsOf
    <3>2. In(o, {"firewall_ipset"}) => ~In(o, {"pool"})
      BY DEF In
    <3> QED
      BY <1>14, <2>2, <3>1, <3>2 DEF Answer, Takeable
  <2>6. w = SetParts(v, h.set, c.after.parts)
    BY <1>6, <1>14 DEF Effect
  <2>7. w \in Decl(o) /\ w # Absent
    <3>1. c.after.parts \in [Names -> Amounts(o)] /\ In(o, {"pool", "firewall_ipset", "ha_rule"})
      BY <1>1, <2>2, DeclFacts DEF In
    <3> QED
      BY <1>1, <1>8, <2>3, <2>6, <3>1, SetPartsFits
  <2>8. /\ w.note = v.note
        /\ \A n \in Names : w.parts[n] = IF n \in h.set THEN c.after.parts[n] ELSE v.parts[n]
    BY <1>1, <2>3, <2>6, SetPartsFacts
  <2> HIDE DEF v, h, t, w, o, ok
  <2>9. \A n \in Names : Base(t, w, n) = w.parts[n]
    BY <1>4, <1>14 DEF Base
  <2>10. \A n \in Names : IF n \in For(t, "add") THEN In(c.obj, {"pool"}) \/ Base(t, w, n) = 0
                          ELSE c.after.parts[n] = Base(t, w, n)
    BY <1>4, <1>14, <2>1, <2>4, <2>8, <2>9
  <2>11. Filling(c, t, w)
    BY <1>4, <1>14, <2>2, <2>7, <2>8, <2>10 DEF Filling, Sized
  <2> QED
    BY <2>5, <2>11
<1> QED
  BY <1>6, <1>10, <1>11, <1>12, <1>13, <1>14

\* What is exported like the declaration is what a change was to bring about.
LEMMA MatchDelivers ==
    ASSUME NEW c, c.kind # "delete", NEW v, v # Absent,
           Exported(c.obj, v) = Exported(c.obj, c.after)
    PROVE  Delivered(c, v)
  BY DEF Delivered, Unheard

\* An export shows every field but the order, and not the failback of a resource.
LEMMA SameExport ==
    ASSUME NEW o \in Obj, NEW v \in Decl(o), NEW w \in Decl(o), v.fixed = w.fixed, v.note = w.note,
           v.flag = w.flag \/ In(o, {"ha_resource"}), v.parts = w.parts
    PROVE  v # Absent /\ Exported(o, v) = Exported(o, w)
<1>1. v \in Values /\ w \in Values /\ v # Absent /\ w # Absent
  BY DeclFacts
<1>2. CASE In(o, {"ha_resource"})
  <2>1. [Sorted(v) EXCEPT !.flag = 1] = [Sorted(w) EXCEPT !.flag = 1]
    BY <1>1 DEF Sorted, Values
  <2> QED
    BY <1>1, <1>2, <2>1 DEF Exported, export_ha_resources
<1>3. CASE ~In(o, {"ha_resource"})
  <2>1. Sorted(v) = Sorted(w)
    BY <1>1, <1>3 DEF Sorted, Values
  <2> QED
    BY <1>1, <1>3, <2>1 DEF Exported
<1> QED
  BY <1>2, <1>3

\* The fields a family does not have.
LEMMA FieldFacts ==
    ASSUME NEW o \in Obj, NEW v \in Decl(o)
    PROVE  /\ v.fixed = 0 \/ In(o, {"storage", "ha_rule"})
           /\ v.flag = 0 \/ ~In(o, {"pool", "firewall_ipset", "firewall_group", "mapping_usb"})
           /\ v.parts = NoParts \/ In(o, {"pool", "firewall_ipset", "notification_matcher", "ha_rule",
                                          "mapping_pci", "mapping_usb"})
           /\ v.note = 0 \/ ~In(o, {"acl", "firewall_options"})
<1>1. FamilyOf[o] \in Families
  BY StateApplyAssumption
<1>2. CASE In(o, {"firewall_options"})
  <2>1. Decl(o) = FirewallOptionsDecl
    BY <1>2 DEF Decl, In
  <2> QED
    BY <1>2, <2>1, OptionsForm DEF In
<1>3. CASE In(o, {"pool"})
  <2>1. Decl(o) = PoolDecl
    BY <1>3 DEF Decl, In
  <2>2. v \in With({"note", "parts"})
    BY <2>1 DEF PoolDecl
  <2> QED
    BY <1>3, <2>2 DEF In, With
<1>4. CASE In(o, {"acl", "storage", "backup_job", "firewall_alias"})
  <2>1. /\ In(o, {"acl"}) => Decl(o) = AclDecl
        /\ In(o, {"storage"}) => Decl(o) = StorageDecl
        /\ In(o, {"backup_job"}) => Decl(o) = BackupJobDecl
        /\ In(o, {"firewall_alias"}) => Decl(o) = FirewallAliasDecl
    BY DEF Decl, In
  <2> QED
    BY <1>4, <2>1 DEF In, With, AclDecl, StorageDecl, BackupJobDecl, FirewallAliasDecl
<1>5. CASE In(o, {"firewall_ipset", "firewall_group", "notification_matcher", "ha_resource"})
  <2>1. /\ In(o, {"firewall_ipset"}) => Decl(o) = FirewallIpsetDecl
        /\ In(o, {"firewall_group"}) => Decl(o) = FirewallGroupDecl
        /\ In(o, {"notification_matcher"}) => Decl(o) = NotificationMatcherDecl
        /\ In(o, {"ha_resource"}) => Decl(o) = HaResourceDecl
    BY DEF Decl, In
  <2> QED
    BY <1>5, <2>1 DEF In, With, FirewallIpsetDecl, FirewallGroupDecl, NotificationMatcherDecl,
                      HaResourceDecl
<1>6. CASE In(o, {"ha_rule", "mapping_pci", "mapping_usb"})
  <2>1. /\ In(o, {"ha_rule"}) => Decl(o) = HaRuleDecl
        /\ In(o, {"mapping_pci"}) => Decl(o) = MappingPciDecl
        /\ In(o, {"mapping_usb"}) => Decl(o) = MappingUsbDecl
    BY DEF Decl, In
  <2> QED
    BY <1>6, <2>1 DEF In, With, HaRuleDecl, MappingPciDecl, MappingUsbDecl
<1> QED
  BY <1>1, <1>2, <1>3, <1>4, <1>5, <1>6, FamilyNames DEF In

\* With no call left there is what was declared.
LEMMA FillEnd ==
    ASSUME NEW c, Sound(c), In(c.obj, {"pool", "firewall_ipset"}), NEW v,
           v = Absent \/ v \in Decl(c.obj), Filling(c, <<>>, v)
    PROVE  Delivered(c, v)
<1>1. \A op : ~Has(<<>>, op) /\ For(<<>>, op) = {}
  BY LeftNone
<1> DEFINE s == <<>>
<1>2. Filling(c, s, v) /\ \A op : ~Has(s, op) /\ For(s, op) = {}
  BY <1>1
<1> HIDE DEF s
<1>3. CASE c.kind = "delete"
  BY <1>2, <1>3 DEF Filling, Delivered
<1>4. CASE c.kind # "delete"
  <2>1. c.obj \in Obj /\ c.after \in Decl(c.obj)
    BY <1>4, SoundFacts
  <2>2. v # Absent /\ v.note = c.after.note /\ \A n \in Names : c.after.parts[n] = v.parts[n]
    BY <1>2, <1>4 DEF Filling, Base
  <2>3. v.parts \in [Names -> Amounts(c.obj)] /\ c.after.parts \in [Names -> Amounts(c.obj)]
    BY <2>1, <2>2, DeclFacts
  <2>4. v.parts = c.after.parts
    BY <2>2, <2>3
  <2>5. v.fixed = c.after.fixed /\ v.flag = c.after.flag
    <3>1. ~In(c.obj, {"storage", "ha_rule"})
      BY DEF In
    <3>2. In(c.obj, {"pool", "firewall_ipset", "firewall_group", "mapping_usb"})
      BY DEF In
    <3>3. \A x \in Decl(c.obj) : x.fixed = 0 /\ x.flag = 0
      BY <2>1, <3>1, <3>2, FieldFacts
    <3> QED
      BY <2>1, <2>2, <3>3
  <2> QED
    BY <1>4, <2>1, <2>2, <2>4, <2>5, SameExport, MatchDelivers
<1> QED
  BY <1>3, <1>4

\* The same for a grant: no call of it is refused, and they lead to what is declared.
LEMMA GrantStart ==
    ASSUME NEW c, Sound(c), In(c.obj, {"acl"})
    PROVE  Granting(c, CallsOf(c), c.before) /\ CallsOf(c) # <<>>
<1> DEFINE clear == Call("clear", {}, Absent)
           set == Call("set", {}, c.after)
<1>1. CallsOf(c) = AclCalls(c)
  BY DEF CallsOf, In
<1>2. AclCalls(c) = Only(c.kind # "create", clear) \o Only(c.kind # "delete", set)
  BY DEF AclCalls
<1> HIDE DEF clear, set
<1>3. /\ c.kind = "delete" => AclCalls(c) = <<clear>>
      /\ c.kind = "create" => AclCalls(c) = <<set>>
      /\ c.kind = "update" => AclCalls(c) = <<clear, set>>
  <2>1. \A x : <<x>> \o <<>> = <<x>>
    OBVIOUS
  <2>2. \A x : <<>> \o <<x>> = <<x>>
    OBVIOUS
  <2>3. ASSUME NEW x, NEW y PROVE <<x>> \o <<y>> = <<x, y>>
    <3> DEFINE u == <<x>> \o <<y>>
               w == <<x, y>>
               S == {x, y}
    <3>1. u \in Seq(S) /\ Len(u) = 2 /\ u[1] = x /\ u[2] = y
      OBVIOUS
    <3>2. w \in Seq(S) /\ Len(w) = 2 /\ w[1] = x /\ w[2] = y
      OBVIOUS
    <3> HIDE DEF u, w, S
    <3>3. DOMAIN u = 1..2 /\ DOMAIN w = 1..2 /\ \A i \in 1..2 : i = 1 \/ i = 2
      BY <3>1, <3>2
    <3>4. u = [i \in 1..2 |-> u[i]] /\ w = [i \in 1..2 |-> w[i]]
      BY <3>1, <3>2, <3>3
    <3>5. \A i \in 1..2 : u[i] = w[i]
      BY <3>1, <3>2, <3>3
    <3>6. u = w
      BY <3>4, <3>5
    <3> QED
      BY <3>6 DEF u, w
  <2> QED
    BY <1>2, <2>1, <2>2, <2>3 DEF Only
<1>4. <<clear>> # <<>> /\ <<set>> # <<>> /\ <<clear, set>> # <<>>
  OBVIOUS
<1> QED
  BY <1>1, <1>3, <1>4, SoundFacts DEF Granting, clear, set

LEMMA GrantStep ==
    ASSUME NEW c, Sound(c), NEW L, c.obj \in DOMAIN L,
           NEW s \in Seq(Calls), s # <<>>, Granting(c, s, L[c.obj])
    PROVE  /\ Answer(c.obj, Head(s), L) = "ok"
           /\ Granting(c, Tail(s), Effect(c.obj, Head(s), L)[c.obj])
<1> DEFINE clear == Call("clear", {}, Absent)
           set == Call("set", {}, c.after)
<1>1. /\ clear.op = "clear" /\ set.op = "set" /\ set.val = c.after
  BY DEF Call
<1>2. /\ Answer(c.obj, clear, L) = "ok" /\ Answer(c.obj, set, L) = "ok"
      /\ Effect(c.obj, clear, L)[c.obj] = Absent /\ Effect(c.obj, set, L)[c.obj] = c.after
  BY <1>1 DEF Answer, Effect
<1>3. \/ c.kind = "delete" /\ s = <<clear>>
      \/ c.kind # "delete" /\ s = <<clear, set>>
      \/ c.kind # "delete" /\ s = <<set>>
  BY DEF Granting
<1> HIDE DEF clear, set
<1>4. /\ s = <<clear>> => Head(s) = clear /\ Tail(s) = <<>>
      /\ s = <<clear, set>> => Head(s) = clear /\ Tail(s) = <<set>>
      /\ s = <<set>> => Head(s) = set /\ Tail(s) = <<>>
  <2>1. \A x, y : /\ Head(<<x>>) = x /\ Tail(<<x>>) = <<>>
                /\ Head(<<x, y>>) = x /\ Tail(<<x, y>>) = <<y>>
    OBVIOUS
  <2> QED
    BY <2>1
<1>5. CASE c.kind = "delete" /\ s = <<clear>>
  BY <1>2, <1>4, <1>5 DEF Granting
<1>6. CASE c.kind # "delete" /\ s = <<clear, set>>
  BY <1>2, <1>4, <1>6 DEF Granting, clear, set
<1>7. CASE c.kind # "delete" /\ s = <<set>>
  BY <1>2, <1>4, <1>7 DEF Granting
<1> QED
  BY <1>3, <1>5, <1>6, <1>7

LEMMA GrantEnd ==
    ASSUME NEW c, Sound(c), NEW v, Granting(c, <<>>, v)
    PROVE  Delivered(c, v)
<1>1. \A x, y : <<>> # <<x>> /\ <<>> # <<x, y>>
  OBVIOUS
<1>2. IF c.kind = "delete" THEN v = Absent ELSE v = c.after
  BY <1>1 DEF Granting
<1>3. CASE c.kind = "delete"
  BY <1>2, <1>3 DEF Delivered
<1>4. CASE c.kind # "delete"
  <2>1. c.after # Absent
    BY <1>4, SoundFacts, DeclFacts
  <2> QED
    BY <1>2, <1>4, <2>1, MatchDelivers
<1> QED
  BY <1>3, <1>4

\* The options compare the keys that are declared.
LEMMA KeysCompare ==
    ASSUME NEW o \in Obj, In(o, {"firewall_options"})
    PROVE  FamilyDiffs[FamilyRank[o]].compare = "keys"
<1> DEFINE F(i) == FamilyDiffs[i].family
<1>1. DOMAIN FamilyDiffs = 1..13
  BY DEF FamilyDiffs
<1>2. /\ F(1) = "pool" /\ F(2) = "acl" /\ F(3) = "storage" /\ F(4) = "backup_job"
      /\ F(5) = "firewall_options" /\ F(6) = "firewall_alias" /\ F(7) = "firewall_ipset"
      /\ F(8) = "firewall_group" /\ F(9) = "notification_matcher" /\ F(10) = "ha_resource"
      /\ F(11) = "ha_rule" /\ F(12) = "mapping_pci" /\ F(13) = "mapping_usb"
      /\ FamilyDiffs[5].compare = "keys"
  BY DEF FamilyDiffs, FamilyDiff, diff_pools, diff_acl, diff_storage, diff_backup_jobs,
         diff_firewall_options, diff_firewall_aliases, diff_firewall_ipsets,
         diff_firewall_groups, diff_notification_matchers, diff_ha_resources, diff_ha_rules,
         diff_mappings_pci, diff_mappings_usb
<1>3. \A i \in 1..13 : \/ i = 1 \/ i = 2 \/ i = 3 \/ i = 4 \/ i = 5 \/ i = 6 \/ i = 7 \/ i = 8
                       \/ i = 9 \/ i = 10 \/ i = 11 \/ i = 12 \/ i = 13
  OBVIOUS
<1>4. FamilyOf[o] = "firewall_options"
  BY DEF In
<1>5. \E i \in 1..13 : F(i) = FamilyOf[o]
  BY <1>2, <1>4
<1>6. FamilyRank[o] \in 1..13 /\ F(FamilyRank[o]) = FamilyOf[o]
  BY <1>1, <1>5 DEF FamilyRank
<1> HIDE DEF F
<1>7. FamilyRank[o] = 5
  BY <1>2, <1>3, <1>4, <1>6
<1> QED
  BY <1>2, <1>7

\* The fields of an object with one PUT: what the update finds and what it leaves.
PutFrom(c, v) ==
    /\ v \in Decl(c.obj) /\ v.fixed = c.before.fixed
    /\ v.note = c.before.note \/ In(c.obj, {"ha_rule"})
    /\ v.flag = c.before.flag \/ In(c.obj, {"ha_resource"})
    /\ v.parts = c.before.parts \/ In(c.obj, {"ha_rule"})
PutTo(c, v, w) ==
    LET sent == SentBy(c.obj, c.before, c.after)
    IN  /\ w \in Decl(c.obj) /\ w.fixed = v.fixed
        /\ w.note = IF "note" \in sent THEN c.after.note ELSE v.note
        /\ w.flag = IF "flag" \in sent THEN c.after.flag ELSE v.flag
        /\ w.parts = IF "parts" \in sent THEN c.after.parts ELSE v.parts

\* One PUT of the fields sent leaves what was declared, or what it cannot bring about.
LEMMA PutDelivers ==
    ASSUME NEW c, Sound(c), c.kind = "update", ~Immutable(c),
           ~In(c.obj, {"pool", "acl", "firewall_ipset"}),
           NEW v, PutFrom(c, v), NEW w, PutTo(c, v, w)
    PROVE  Delivered(c, w)
<1> DEFINE o == c.obj
           a == c.after
           b == c.before
           sent == SentBy(o, b, a)
<1>1. o \in Obj /\ a \in Decl(o) /\ w \in Decl(o) /\ v \in Decl(o)
  BY SoundFacts DEF PutFrom, PutTo
<1>2. FamilyOf[o] \in {"storage", "backup_job", "firewall_options", "firewall_alias",
                       "notification_matcher", "ha_resource", "ha_rule", "mapping_pci",
                       "mapping_usb"}
  <2>1. FamilyOf[o] \in Families /\ FamilyOf[o] # "firewall_group"
    BY SoundFacts, RankFacts, StateApplyAssumption DEF Sound, In
  <2> QED
    BY <2>1, FamilyNames DEF In
<1>3. /\ v.fixed = b.fixed /\ w.fixed = v.fixed
      /\ v.note = b.note \/ In(o, {"ha_rule"})
      /\ v.flag = b.flag \/ In(o, {"ha_resource"})
      /\ v.parts = b.parts \/ In(o, {"ha_rule"})
      /\ w.note = IF "note" \in sent THEN a.note ELSE v.note
      /\ w.flag = IF "flag" \in sent THEN a.flag ELSE v.flag
      /\ w.parts = IF "parts" \in sent THEN a.parts ELSE v.parts
  BY DEF PutFrom, PutTo
<1>4. w # Absent
  BY <1>1, DeclFacts
<1>5. ASSUME w.fixed = a.fixed, w.note = a.note, w.flag = a.flag \/ In(o, {"ha_resource"}),
             w.parts = a.parts
      PROVE  Delivered(c, w)
  <2>1. Exported(o, w) = Exported(o, a)
    BY <1>1, <1>5, SameExport
  <2> QED
    BY <1>4, <2>1, MatchDelivers
<1>6. Unheard(c) => Delivered(c, w)
  BY <1>4 DEF Delivered
<1>7. /\ a.fixed = 0 \/ In(o, {"storage", "ha_rule"})
      /\ w.fixed = 0 \/ In(o, {"storage", "ha_rule"})
      /\ In(o, {"mapping_usb"}) => a.flag = 0 /\ w.flag = 0
  BY <1>1, FieldFacts DEF In
<1>8. ~In(o, {"pool", "firewall_ipset", "notification_matcher", "ha_rule", "mapping_pci",
              "mapping_usb"}) => a.parts = NoParts /\ w.parts = NoParts
  BY <1>1, FieldFacts
<1>9. w.fixed = a.fixed
  <2>1. In(o, {"storage", "ha_rule"}) => b.fixed = a.fixed
    BY DEF Immutable
  <2> QED
    BY <1>3, <1>7, <2>1
<1>10. CASE In(o, {"storage"})
  <2>1. sent = StorageSent(b, a)
    BY <1>10 DEF SentBy, In
  <2>2. /\ "note" \in sent <=> b.note # a.note
        /\ "flag" \in sent <=> b.flag # a.flag
    BY <2>1 DEF StorageSent
  <2>3. v.note = b.note /\ v.flag = b.flag /\ w.parts = a.parts
    BY <1>3, <1>8, <1>10 DEF In
  <2> HIDE DEF sent, a, b, o
  <2> QED
    BY <1>3, <1>5, <1>9, <2>2, <2>3
<1>11. CASE In(o, {"backup_job", "firewall_alias"})
  <2>1. sent = BackupJobSent(b, a) \/ sent = AliasSent(b, a)
    BY <1>11 DEF SentBy, In
  <2>2. "flag" \in sent /\ ("note" \in sent <=> a.note # 0)
    BY <2>1 DEF BackupJobSent, AliasSent
  <2>3. v.note = b.note /\ w.parts = a.parts
    BY <1>3, <1>8, <1>11 DEF In
  <2>4. a.note = 0 /\ b.note # 0 => Unheard(c)
    BY <1>11 DEF Unheard
  <2> HIDE DEF sent, a, b, o
  <2> QED
    BY <1>3, <1>5, <1>6, <1>9, <2>2, <2>3, <2>4
<1>12. CASE In(o, {"firewall_options"})
  <2>1. sent = OptionsSent(b, a)
    BY <1>12 DEF SentBy, In
  <2>2. "flag" \in sent <=> a.flag # Unset
    BY <2>1 DEF OptionsSent
  <2>3. Exported(o, w).flag = w.flag
    <3>1. w \in Values /\ ~In(o, {"ha_resource"})
      BY <1>1, <1>12, DeclFacts DEF In
    <3> QED
      BY <1>4, <3>1 DEF Exported, Sorted, Values
  <2>4. a.flag \in {Unset, Exported(o, w).flag}
    BY <1>3, <2>2, <2>3
  <2>5. ~Differs(o, a, Exported(o, w))
    BY <1>1, <1>12, <2>4, KeysCompare DEF Differs
  <2> QED
    BY <1>4, <2>5 DEF Delivered
<1>13. CASE In(o, {"notification_matcher"})
  <2>1. sent = MatcherSent(b, a)
    BY <1>13 DEF SentBy, In
  <2>2. "flag" \in sent /\ "note" \in sent /\ "parts" \in sent
    BY <2>1 DEF MatcherSent
  <2> HIDE DEF sent, a, b, o
  <2> QED
    BY <1>3, <1>5, <1>9, <2>2
<1>14. CASE In(o, {"ha_resource"})
  <2>1. sent = HaResourceSent(b, a)
    BY <1>14 DEF SentBy, In
  <2>2. "note" \in sent
    BY <2>1 DEF HaResourceSent
  <2>3. w.parts = a.parts
    BY <1>8, <1>14 DEF In
  <2> HIDE DEF sent, a, b, o
  <2> QED
    BY <1>3, <1>5, <1>9, <1>14, <2>2, <2>3
<1>15. CASE In(o, {"ha_rule"})
  <2>1. sent = HaRuleSent(b, a)
    BY <1>15 DEF SentBy, In
  <2>2. "note" \in sent /\ "parts" \in sent /\ ("flag" \in sent <=> a.fixed = 1)
    BY <2>1 DEF HaRuleSent
  <2>3. v.flag = b.flag
    BY <1>3, <1>15 DEF In
  <2>4. a.fixed = 0 /\ b.flag # a.flag => Unheard(c)
    BY <1>15 DEF Unheard
  <2>5. a.fixed = 0 \/ a.fixed = 1
    <3>1. a \in Values
      BY <1>1, DeclFacts
    <3> QED
      BY <3>1 DEF Values
  <2> HIDE DEF sent, a, b, o
  <2> QED
    BY <1>3, <1>5, <1>6, <1>9, <2>2, <2>3, <2>4, <2>5
<1>16. CASE In(o, {"mapping_pci", "mapping_usb"})
  <2>1. sent = MappingSent(b, a)
    BY <1>16 DEF SentBy, In
  <2>2. "note" \in sent /\ "flag" \in sent /\ ("parts" \in sent <=> PartsOf(a) # {})
    BY <2>1 DEF MappingSent
  <2>3. v.parts = b.parts
    BY <1>3, <1>16 DEF In
  <2>4. PartsOf(a) = {} /\ PartsOf(b) # {} => Unheard(c)
    BY <1>16 DEF Unheard
  <2>5. PartsOf(a) = {} /\ PartsOf(b) = {} => v.parts = a.parts
    <3>1. v.parts \in [Names -> Amounts(o)] /\ a.parts \in [Names -> Amounts(o)]
      BY <1>1, DeclFacts
    <3>2. PartsOf(a) = {} /\ PartsOf(b) = {} => \A n \in Names : a.parts[n] = 0 /\ v.parts[n] = 0
      BY <2>3 DEF PartsOf
    <3> HIDE DEF a, b
    <3> QED
      BY <3>1, <3>2
  <2> HIDE DEF sent, a, b, o
  <2> QED
    BY <1>3, <1>5, <1>6, <1>9, <2>2, <2>3, <2>4, <2>5
<1> QED
  BY <1>2, <1>10, <1>11, <1>12, <1>13, <1>14, <1>15, <1>16 DEF In

Plain(o) == ~In(o, {"pool", "acl", "firewall_ipset"})

\* A change that is up finds what it was planned for.
LEMMA FoundFacts ==
    ASSUME NEW c, Sound(c), Formed(c), NEW r, NEW v, v = Absent \/ v \in Decl(c.obj), Found(r, c, v)
    PROVE  /\ c.kind = "create" => v = Absent
           /\ c.kind # "create" /\ ~In(c.obj, {"ha_rule"}) => v # Absent
           /\ c.kind = "update" /\ v # Absent => PutFrom(c, v)
<1>1. c.obj \in Obj
  BY SoundFacts
<1>2. CASE In(c.obj, {"ha_rule"}) /\ c.kind # "create"
  BY <1>2 DEF Found, PutFrom
<1>3. CASE ~(In(c.obj, {"ha_rule"}) /\ c.kind # "create")
  <2>1. Exported(c.obj, v) = c.before
    BY <1>3 DEF Found
  <2>2. /\ v = Absent <=> c.before = Absent
        /\ v # Absent => /\ c.before.note = v.note /\ c.before.fixed = v.fixed
                         /\ c.before.parts = v.parts
                         /\ ~In(c.obj, {"ha_resource"}) => c.before.flag = v.flag
    BY <1>1, <2>1, SeenFacts
  <2> QED
    BY <1>3, <2>2 DEF Formed, PutFrom
<1> QED
  BY <1>2, <1>3

\* The call of a change of the other families.
LEMMA PlainShape ==
    ASSUME NEW c, Sound(c), Plain(c.obj)
    PROVE  LET sent == SentBy(c.obj, c.before, c.after)
           IN  /\ c.kind = "create" => CallsOf(c) = <<Call("create", {}, c.after)>>
               /\ c.kind = "delete" => CallsOf(c) = <<Call("delete", {}, c.after)>>
               /\ c.kind = "update" /\ sent # {} => CallsOf(c) = <<Call("put", sent, c.after)>>
               /\ c.kind = "update" /\ sent = {} => CallsOf(c) = <<>> /\ ~In(c.obj, {"ha_rule"})
<1>1. CallsOf(c) = PlainCalls(c)
  BY DEF Plain, CallsOf, In
<1>2. c.kind = "update" /\ SentBy(c.obj, c.before, c.after) = {} => ~In(c.obj, {"ha_rule"})
  BY SentByFields DEF Plain
<1> QED
  BY <1>1, <1>2 DEF PlainCalls, Only

\* A change that needs no call finds what is declared.
LEMMA PlainNone ==
    ASSUME NEW c, Sound(c), Formed(c), ~Immutable(c), Plain(c.obj), CallsOf(c) = <<>>,
           NEW r, NEW v, v = Absent \/ v \in Decl(c.obj), Found(r, c, v)
    PROVE  Delivered(c, v)
<1> DEFINE sent == SentBy(c.obj, c.before, c.after)
<1>1. \A x : <<x>> # <<>>
  OBVIOUS
<1>2. c.kind = "update" /\ sent = {} /\ ~In(c.obj, {"ha_rule"})
  BY <1>1, PlainShape, SoundFacts
<1>3. v # Absent /\ PutFrom(c, v)
  BY <1>2, FoundFacts
<1>4. PutTo(c, v, v)
  BY <1>2, <1>3 DEF PutTo, PutFrom
<1> QED
  BY <1>2, <1>3, <1>4, PutDelivers DEF Plain

\* What Proxmox answers to the one call, and what it leaves.
LEMMA PlainStep ==
    ASSUME NEW c, Sound(c), Formed(c), ~Immutable(c), Plain(c.obj), NEW L, ClusterState(L),
           c.obj \in DOMAIN L, NEW r, Found(r, c, L[c.obj]), CallsOf(c) # <<>>
    PROVE  LET h == Head(CallsOf(c))
               answer == Answer(c.obj, h, L)
           IN  /\ Len(CallsOf(c)) = 1
               /\ answer = "ok" => Delivered(c, Effect(c.obj, h, L)[c.obj])
               /\ Tolerated(c, answer) => Delivered(c, L[c.obj])
               /\ answer # "ok" /\ ~Tolerated(c, answer) /\ ~r.hurt =>
                    ~Refers(c.obj, c.after, L) \/ Orphaned(r, c)
<1> DEFINE o == c.obj
           v == L[o]
           sent == SentBy(o, c.before, c.after)
           h == Head(CallsOf(c))
           answer == Answer(o, h, L)
           w == Effect(o, h, L)[o]
<1>1. /\ o \in Obj /\ c.kind \in {"create", "update", "delete"}
      /\ c.kind # "delete" => c.after \in Decl(o)
  BY SoundFacts
<1>2. v = Absent \/ v \in Decl(o)
  BY DEF ClusterState
<1>3. /\ c.kind = "create" => v = Absent
      /\ c.kind # "create" /\ ~In(o, {"ha_rule"}) => v # Absent
      /\ c.kind = "update" /\ v # Absent => PutFrom(c, v)
  BY <1>2, FoundFacts
<1>4. \A x : Head(<<x>>) = x /\ Len(<<x>>) = 1
  OBVIOUS
<1>5. /\ c.kind = "create" => CallsOf(c) = <<Call("create", {}, c.after)>>
      /\ c.kind = "delete" => CallsOf(c) = <<Call("delete", {}, c.after)>>
      /\ c.kind = "update" => CallsOf(c) = <<Call("put", sent, c.after)>>
  BY PlainShape
<1>6. /\ Len(CallsOf(c)) = 1
      /\ c.kind = "create" => h = Call("create", {}, c.after)
      /\ c.kind = "delete" => h = Call("delete", {}, c.after)
      /\ c.kind = "update" => h = Call("put", sent, c.after)
  BY <1>1, <1>4, <1>5
<1>7. \A x \in Decl(o) : x # Absent /\ x \in Values
  BY <1>1, DeclFacts
<1> HIDE DEF h
<1>8. CASE c.kind = "create"
  <2>1. h.op = "create" /\ h.val = c.after
    BY <1>6, <1>8 DEF Call
  <2>2. w = c.after
    BY <2>1 DEF Effect
  <2>3. answer # "ok" => ~Refers(o, c.after, L)
    BY <1>3, <1>8, <2>1 DEF Answer
  <2>4. ~Tolerated(c, answer)
    BY <1>8 DEF Tolerated
  <2>5. Delivered(c, w)
    BY <1>1, <1>7, <1>8, <2>2, MatchDelivers
  <2> QED
    BY <1>6, <2>3, <2>4, <2>5 DEF h
<1>9. CASE c.kind = "delete"
  <2>1. h.op = "delete"
    BY <1>6, <1>9 DEF Call
  <2>2. w = Absent
    BY <2>1 DEF Effect, Purged
  <2>3. v # Absent => answer = "ok"
    BY <2>1 DEF Answer, Takeable, Plain, In
  <2>4. v = Absent => answer = "missing" /\ In(o, {"ha_rule"})
    BY <1>3, <1>9, <2>1 DEF Answer
  <2>5. v = Absent => Tolerated(c, answer)
    BY <1>9, <2>4 DEF Tolerated, In
  <2>6. Delivered(c, w) /\ (v = Absent => Delivered(c, v))
    BY <1>9, <2>2 DEF Delivered
  <2>7. Tolerated(c, answer) => v = Absent
    BY <2>3 DEF Tolerated
  <2> QED
    BY <1>6, <2>3, <2>5, <2>6, <2>7 DEF h
<1>10. CASE c.kind = "update"
  <2>1. h.op = "put" /\ h.val = c.after /\ h.set = sent
    BY <1>6, <1>10 DEF Call
  <2>2. w = Merge(v, h)
    BY <2>1 DEF Effect
  <2>3. ~Tolerated(c, answer)
    BY <1>10 DEF Tolerated
  <2>4. v # Absent => answer = "ok" \/ ~Refers(o, c.after, L)
    BY <2>1 DEF Answer, Takeable
  <2>5. v = Absent => answer # "ok"
    BY <2>1 DEF Answer
  <2>6. v = Absent /\ ~r.hurt => Orphaned(r, c)
    <3>1. SUFFICES ASSUME v = Absent, ~r.hurt PROVE Orphaned(r, c)
      OBVIOUS
    <3>2. In(o, {"ha_rule"})
      BY <1>3, <1>10, <3>1
    <3>3. PartsOf(c.before) # {} /\ PartsOf(c.before) \subseteq PartsOf(v) \cup Gone(r)
      BY <1>10, <3>1, <3>2 DEF Found
    <3>4. PartsOf(v) = {}
      BY <3>1, AbsentFacts DEF PartsOf, NoParts
    <3> HIDE DEF v
    <3> QED
      BY <1>10, <3>2, <3>3, <3>4 DEF Orphaned
  <2>7. v # Absent => Delivered(c, w)
    <3>1. SUFFICES ASSUME v # Absent PROVE Delivered(c, w)
      OBVIOUS
    <3>2. v \in Decl(o) /\ v \in Values /\ PutFrom(c, v)
      BY <1>2, <1>3, <1>7, <1>10, <3>1
    <3>3. w \in Decl(o)
      BY <1>1, <1>10, <2>1, <2>2, <3>2, MergeFits
    <3>4. /\ w.fixed = v.fixed
          /\ w.note = IF "note" \in sent THEN c.after.note ELSE v.note
          /\ w.flag = IF "flag" \in sent THEN c.after.flag ELSE v.flag
          /\ w.parts = IF "parts" \in sent THEN c.after.parts ELSE v.parts
      <4> HIDE DEF sent, v, w
      <4> QED
        BY <2>1, <2>2, <3>2 DEF Merge, Values
    <3>5. PutTo(c, v, w)
      BY <3>3, <3>4 DEF PutTo
    <3> HIDE DEF v, w
    <3> QED
      BY <1>10, <3>2, <3>5, PutDelivers DEF Plain
  <2> QED
    BY <1>6, <2>3, <2>4, <2>5, <2>6, <2>7 DEF h
<1> QED
  BY <1>1, <1>8, <1>9, <1>10

\* A run knows as much as an earlier state of it, or a fault hit it.
Later(r, s) == Gone(r) \subseteq Gone(s) /\ (~s.hurt => ~r.hurt)

LEMMA FoundLater ==
    ASSUME NEW r, NEW s, Later(r, s), NEW c, NEW v, Found(r, c, v)
    PROVE  Found(s, c, v)
  BY DEF Found, Later

LEMMA OrphanedLater ==
    ASSUME NEW r, NEW s, Later(r, s), NEW c, Orphaned(r, c)
    PROVE  Orphaned(s, c)
  BY DEF Orphaned, Later

LEMMA HeadingForm ==
    ASSUME NEW r, NEW c, NEW v
    PROVE  /\ In(c.obj, {"pool", "firewall_ipset"}) => (Heading(r, c, v) <=> Filling(c, r.calls, v))
           /\ In(c.obj, {"acl"}) => (Heading(r, c, v) <=> Granting(c, r.calls, v))
           /\ Plain(c.obj) => (Heading(r, c, v) <=> r.calls = CallsOf(c) /\ Found(r, c, v))
  BY DEF Heading, Plain, In

\* The calls of a change that is taken up lead to what is declared.
LEMMA HeadStart ==
    ASSUME NEW c, Sound(c), Formed(c), ~Immutable(c), NEW v, v = Absent \/ v \in Decl(c.obj),
           NEW r, Found(r, c, v)
    PROVE  /\ CallsOf(c) = <<>> => Delivered(c, v)
           /\ r.calls = CallsOf(c) => Heading(r, c, v)
<1>1. CASE In(c.obj, {"pool", "firewall_ipset"})
  <2>1. Exported(c.obj, v) = c.before
    BY <1>1 DEF Found, In
  <2>2. Filling(c, CallsOf(c), v)
    BY <1>1, <2>1, FillStart
  <2>3. CallsOf(c) = <<>> => Delivered(c, v)
    BY <1>1, <2>2, FillEnd
  <2> QED
    BY <1>1, <2>2, <2>3, HeadingForm
<1>2. CASE In(c.obj, {"acl"})
  <2>1. Granting(c, CallsOf(c), c.before) /\ CallsOf(c) # <<>>
    BY <1>2, GrantStart
  <2>2. Granting(c, CallsOf(c), v)
    BY <2>1 DEF Granting
  <2> QED
    BY <1>2, <2>1, <2>2, HeadingForm
<1>3. CASE Plain(c.obj)
  BY <1>3, PlainNone, HeadingForm
<1> QED
  BY <1>1, <1>2, <1>3 DEF Plain, In

\* The call that is up: the calls after it lead on, the last one has delivered, and
\* what is refused had to be.
LEMMA HeadStep ==
    ASSUME NEW c, Sound(c), Formed(c), ~Immutable(c), NEW L, ClusterState(L), c.obj \in DOMAIN L,
           NEW r, r.calls \in Seq(Calls), r.calls # <<>>, Heading(r, c, L[c.obj]), NEW N,
           Answer(c.obj, Head(r.calls), L) = "ok" => N = Effect(c.obj, Head(r.calls), L)
    PROVE  LET answer == Answer(c.obj, Head(r.calls), L)
           IN  /\ answer = "ok" /\ Len(r.calls) > 1 =>
                    /\ ~Plain(c.obj)
                    /\ \A s : s.calls = Tail(r.calls) => Heading(s, c, N[c.obj])
               /\ answer = "ok" /\ Len(r.calls) = 1 => (N[c.obj] = Absent \/ N[c.obj] \in Decl(c.obj)
                    => Delivered(c, N[c.obj]))
               /\ Tolerated(c, answer) => Delivered(c, L[c.obj])
               /\ answer # "ok" /\ ~Tolerated(c, answer) /\ ~r.hurt =>
                    ~Refers(c.obj, c.after, L) \/ Orphaned(r, c)
<1> DEFINE h == Head(r.calls)
           t == Tail(r.calls)
           answer == Answer(c.obj, h, L)
<1>1. Len(r.calls) = 1 => t = <<>>
  <2>1. t \in Seq(Calls) /\ (Len(r.calls) = 1 => DOMAIN t = {})
    BY TailFacts
  <2> HIDE DEF t
  <2>2. DOMAIN t = {} => Len(t) = 0
    BY <2>1
  <2> QED
    BY <2>1, <2>2
<1>2. answer = "ok" => ~Tolerated(c, answer)
  BY DEF Tolerated
<1>3. CASE In(c.obj, {"pool", "firewall_ipset"})
  <2>1. Filling(c, r.calls, L[c.obj])
    BY <1>3, HeadingForm
  <2>2. answer = "ok" /\ Filling(c, t, N[c.obj])
    BY <1>3, <2>1, FillStep
  <2>3. \A s : s.calls = t => Heading(s, c, N[c.obj])
    BY <1>3, <2>2, HeadingForm
  <2>4. Len(r.calls) = 1 /\ (N[c.obj] = Absent \/ N[c.obj] \in Decl(c.obj)) => Delivered(c, N[c.obj])
    BY <1>1, <1>3, <2>2, FillEnd
  <2>5. ~Plain(c.obj)
    BY <1>3 DEF Plain, In
  <2> HIDE DEF answer, t
  <2> QED
    BY <1>2, <2>2, <2>3, <2>4, <2>5 DEF answer, t
<1>4. CASE In(c.obj, {"acl"})
  <2>1. Granting(c, r.calls, L[c.obj])
    BY <1>4, HeadingForm
  <2>2. answer = "ok" /\ Granting(c, t, N[c.obj])
    BY <2>1, GrantStep
  <2>3. \A s : s.calls = t => Heading(s, c, N[c.obj])
    BY <1>4, <2>2, HeadingForm
  <2>4. Len(r.calls) = 1 => Delivered(c, N[c.obj])
    BY <1>1, <2>2, GrantEnd
  <2>5. ~Plain(c.obj)
    BY <1>4 DEF Plain, In
  <2> HIDE DEF answer, t
  <2> QED
    BY <1>2, <2>2, <2>3, <2>4, <2>5 DEF answer, t
<1>5. CASE Plain(c.obj)
  <2>1. r.calls = CallsOf(c) /\ Found(r, c, L[c.obj])
    BY <1>5, HeadingForm
  <2>2. /\ Len(r.calls) = 1
        /\ answer = "ok" => Delivered(c, N[c.obj])
        /\ Tolerated(c, answer) => Delivered(c, L[c.obj])
        /\ answer # "ok" /\ ~Tolerated(c, answer) /\ ~r.hurt =>
             ~Refers(c.obj, c.after, L) \/ Orphaned(r, c)
    BY <1>5, <2>1, PlainStep
  <2> HIDE DEF answer, t
  <2> QED
    BY <2>2 DEF answer, t
<1> QED
  BY <1>3, <1>4, <1>5 DEF Plain, In

\* What a call leaves alone: all but its object, and the rules of a resource it deletes.
LEMMA EffectFrame ==
    ASSUME NEW L, NEW o \in DOMAIN L, NEW call, call.op \in Ops,
           NEW p \in DOMAIN L, p # o,
           ~(In(o, {"ha_resource"}) /\ In(p, {"ha_rule"}) /\ call.op = "delete")
    PROVE  Effect(o, call, L)[p] = L[p]
<1>1. CASE call.op = "delete"
  BY <1>1 DEF Effect, Purged
<1>2. CASE call.op # "delete"
  BY <1>2 DEF Effect, Ops
<1> QED
  BY <1>1, <1>2

\* A rule that is still to come, when a resource is deleted.
LEMMA RuleLoses ==
    ASSUME NEW L, ClusterState(L), NEW o \in DOMAIN L, In(o, {"ha_resource"}),
           NEW d, Sound(d), Formed(d), d.obj \in DOMAIN L, In(d.obj, {"ha_rule"}),
           NEW r, NEW s, Found(r, d, L[d.obj]), Later(r, s), s.hurt \/ Sid[o] \in Gone(s)
    PROVE  Found(s, d, Purged(o, L)[d.obj])
<1> DEFINE p == d.obj
           v == L[p]
           left == SetParts(v, {Sid[o]}, NoParts)
           w == Purged(o, L)[p]
<1>1. p # o /\ p \in Obj /\ o \in Obj /\ Sid[o] \in Names
  BY StateApplyAssumption DEF In, ClusterState
<1>2. v = Absent \/ v \in Decl(p)
  BY DEF ClusterState
<1>3. CASE v.parts[Sid[o]] = 0
  <2>1. w = v
    BY <1>1, <1>3 DEF Purged
  <2> QED
    BY <2>1, FoundLater
<1>4. CASE v.parts[Sid[o]] # 0
  <2>1. v # Absent /\ v \in Decl(p)
    <3>1. Absent.parts[Sid[o]] = 0
      BY <1>1, AbsentFacts DEF NoParts
    <3> QED
      BY <1>2, <1>4, <3>1
  <2>2. w = IF PartsOf(left) = {} THEN Absent ELSE left
    BY <1>1, <1>4 DEF Purged
  <2>3. /\ left.fixed = v.fixed /\ left.flag = v.flag
        /\ \A n \in Names : left.parts[n] = IF n = Sid[o] THEN 0 ELSE v.parts[n]
    BY <1>1, <2>1, SetPartsFacts DEF NoParts
  <2>4. d.kind # "create"
    BY <2>1, FoundFacts
  <2>5. /\ v.fixed = d.before.fixed /\ v.flag = d.before.flag
        /\ PartsOf(v) \subseteq PartsOf(d.before)
        /\ ~r.hurt => PartsOf(d.before) \subseteq PartsOf(v) \cup Gone(r)
    BY <2>1, <2>4 DEF Found
  <2> HIDE DEF left, v, w
  <2>6. PartsOf(left) = PartsOf(v) \ {Sid[o]} /\ Sid[o] \in PartsOf(v)
    BY <1>1, <1>4, <2>3 DEF PartsOf
  <2>7. PartsOf(Absent) = {}
    BY AbsentFacts DEF PartsOf, NoParts
  <2>8. PartsOf(w) = PartsOf(left)
    BY <2>2, <2>7
  <2>9. /\ w # Absent => w.fixed = d.before.fixed /\ w.flag = d.before.flag
        /\ PartsOf(w) \subseteq PartsOf(d.before)
        /\ PartsOf(d.before) # {}
    BY <2>2, <2>3, <2>5, <2>6, <2>8
  <2>10. ~s.hurt => PartsOf(d.before) \subseteq PartsOf(w) \cup Gone(s)
    BY <2>5, <2>6, <2>8 DEF Later
  <2>11. Found(s, d, w)
    BY <2>4, <2>9, <2>10 DEF Found
  <2> QED
    BY <2>11 DEF w
<1> QED
  BY <1>3, <1>4

----------------------------------------------------------------------------
(* What a run delivers                                                     *)

\* A plan is formed from what the run has read.
LEMMA DiffFormed ==
    ASSUME NEW declared, NEW managed, NEW seen, ClusterState(seen),
           NEW c \in Diff(declared, managed, seen)
    PROVE  Formed(c) /\ c.before = seen[c.obj] /\ c.obj \in DOMAIN seen
<1> DEFINE mine == {o \in DOMAIN seen : FamilyOf[o] \in managed}
<1>1. \A o \in mine : o \in DOMAIN seen /\ (seen[o] = Absent \/ seen[o] \in Decl(o))
  BY DEF ClusterState
<1> HIDE DEF mine
<1>2. CASE c \in Deleted(declared, mine, seen)
  BY <1>1, <1>2 DEF Deleted, Change, Formed
<1>3. CASE c \in Updated(declared, mine, seen)
  BY <1>1, <1>3 DEF Updated, Change, Formed
<1>4. CASE c \in Created(declared, mine, seen)
  BY <1>1, <1>4 DEF Created, Change, Formed
<1> QED
  BY <1>2, <1>3, <1>4 DEF Diff, mine

\* What was read undisturbed is what the changes find.
LEMMA SeenIsFound ==
    ASSUME NEW c, c.obj \in Obj, Formed(c), NEW v, v = Absent \/ v \in Decl(c.obj),
           Exported(c.obj, v) = c.before, NEW r
    PROVE  Found(r, c, v)
<1>1. /\ v = Absent <=> c.before = Absent
      /\ PartsOf(c.before) = PartsOf(v)
      /\ v # Absent => /\ c.before.fixed = v.fixed
                       /\ ~In(c.obj, {"ha_resource"}) => c.before.flag = v.flag
  BY SeenFacts
<1> QED
  BY <1>1 DEF Found, Formed, In

LEMMA DeliverBegin ==
    ASSUME NEW r, NEW source, NEW L, RunOK(r, source, L), ClusterState(L),
           r.pc = "read", DOMAIN L \subseteq DOMAIN r.snap, NEW S \in SUBSET DriftOf(r)
    PROVE  DeliverInv(Begin(r, S), L)
<1> DEFINE s == Begin(r, S)
<1>1. /\ IsRun(r) /\ ClusterState(r.snap) /\ DOMAIN r.snap = DOMAIN L /\ DOMAIN r.outs = {}
      /\ r.calls = <<>>
  BY DEF RunOK, RunType, PlanInv
<1>2. s.alone = r.alone /\ s.changes = S /\ s.outs = r.outs /\ s.calls = <<>>
  BY <1>1 DEF IsRun, Begin
<1>3. r.alone => \A o \in DOMAIN r.snap : r.snap[o] = Exported(o, L[o])
  BY DEF RunOK, SeenInv, Reads
<1>4. \A c \in S : Formed(c) /\ c.before = r.snap[c.obj] /\ c.obj \in DOMAIN r.snap
  BY <1>1, DiffFormed DEF DriftOf
<1> HIDE DEF s
<1>5. ASSUME r.alone, NEW c \in S PROVE Found(s, c, L[c.obj])
  <2>1. /\ c.obj \in Obj /\ Formed(c) /\ (L[c.obj] = Absent \/ L[c.obj] \in Decl(c.obj))
        /\ Exported(c.obj, L[c.obj]) = c.before
    BY <1>1, <1>3, <1>4, <1>5 DEF ClusterState
  <2> QED
    BY <2>1, SeenIsFound
<1> QED
  BY <1>1, <1>2, <1>4, <1>5 DEF DeliverInv, Pending, s

\* A run without a plan, or that was disturbed, has nothing to deliver.
LEMMA DeliverNothing ==
    ASSUME NEW r, NEW L, r.alone => r.changes = {} /\ DOMAIN r.outs = {}
    PROVE  DeliverInv(r, L)
  BY DEF DeliverInv, Pending

\* A run that is past its loop.
LEMMA DeliverSame ==
    ASSUME NEW r, NEW s, NEW L, DeliverInv(r, L),
           r.pc \in {"apply", "recheck", "over", "stopped"} \/ (r.changes = {} /\ DOMAIN r.outs = {}),
           s.pc # "apply", s.changes = r.changes, s.outs = r.outs, s.alone = r.alone, s.hurt = r.hurt
    PROVE  DeliverInv(s, L)
<1>1. Gone(s) = Gone(r)
  BY DEF Gone
<1>2. \A c : Orphaned(s, c) <=> Orphaned(r, c)
  BY <1>1 DEF Orphaned
<1> QED
  BY <1>2 DEF DeliverInv

\* What stands when the change c has had its outcome, or its next call.
Standing(r, s, c, L) ==
    /\ \A d \in r.changes : Formed(d)
    /\ \A d \in Pending(r) : d # c => Found(s, d, L[d.obj])
    /\ \A d \in DOMAIN r.outs :
          /\ r.outs[d] = "applied" => Delivered(d, L[d.obj])
          /\ r.outs[d] = "failed" /\ ~s.hurt =>
                Immutable(d) \/ ~Refers(d.obj, d.after, L) \/ Orphaned(s, d)

LEMMA StandingSame ==
    ASSUME NEW r, NEW s, NEW L, DeliverInv(r, L), r.alone, r.pc = "apply", Later(r, s)
    PROVE  Standing(r, s, Current(r), L)
<1> DEFINE c == Current(r)
<1>1. \A d \in Pending(r) : d # c => Found(r, d, L[d.obj])
  BY DEF DeliverInv
<1>2. \A d \in Pending(r) : d # c => Found(s, d, L[d.obj])
  BY <1>1, FoundLater
<1>3. \A d : Orphaned(r, d) => Orphaned(s, d)
  BY OrphanedLater
<1>4. ~s.hurt => ~r.hurt
  BY DEF Later
<1>5. \A d \in DOMAIN r.outs :
          /\ r.outs[d] = "applied" => Delivered(d, L[d.obj])
          /\ r.outs[d] = "failed" /\ ~s.hurt =>
                Immutable(d) \/ ~Refers(d.obj, d.after, L) \/ Orphaned(s, d)
  BY <1>3, <1>4 DEF DeliverInv
<1>6. \A d \in r.changes : Formed(d)
  BY DEF DeliverInv
<1> QED
  BY <1>2, <1>5, <1>6 DEF Standing

LEMMA DeliverOutcome ==
    ASSUME NEW r, NEW s, NEW L, NEW c, Standing(r, s, c, L), c \in Pending(r), NEW out,
           s.changes = r.changes, s.outs = Extended(r.outs, c, out), s.calls = <<>>,
           out = "applied" => Delivered(c, L[c.obj]),
           out = "failed" /\ ~s.hurt =>
              Immutable(c) \/ ~Refers(c.obj, c.after, L) \/ Orphaned(s, c)
    PROVE  DeliverInv(s, L)
<1>1. c \in r.changes /\ c \notin DOMAIN r.outs
  BY DEF Pending
<1>2. /\ DOMAIN s.outs = DOMAIN r.outs \cup {c} /\ s.outs[c] = out
      /\ \A d \in DOMAIN r.outs : s.outs[d] = r.outs[d]
  BY <1>1 DEF Extended
<1>3. \A d \in Pending(s) : Found(s, d, L[d.obj])
  BY <1>2 DEF Standing, Pending
<1>4. \A d \in s.changes : Formed(d)
  BY DEF Standing
<1>5. \A d \in DOMAIN s.outs :
          /\ s.outs[d] = "applied" => Delivered(d, L[d.obj])
          /\ s.outs[d] = "failed" /\ ~s.hurt =>
                Immutable(d) \/ ~Refers(d.obj, d.after, L) \/ Orphaned(s, d)
  BY <1>2 DEF Standing
<1> QED
  BY <1>3, <1>4, <1>5 DEF DeliverInv

\* What a run has deleted only grows.
LEMMA GoneGrows ==
    ASSUME NEW r, NEW s, NEW c, c \in Pending(r), NEW out, s.outs = Extended(r.outs, c, out)
    PROVE  /\ Gone(r) \subseteq Gone(s)
           /\ out = "applied" /\ c.kind = "delete" /\ In(c.obj, {"ha_resource"}) => Sid[c.obj] \in Gone(s)
<1>1. c \notin DOMAIN r.outs
  BY DEF Pending
<1>2. /\ DOMAIN s.outs = DOMAIN r.outs \cup {c} /\ s.outs[c] = out
      /\ \A d \in DOMAIN r.outs : s.outs[d] = r.outs[d]
  BY <1>1 DEF Extended
<1> QED
  BY <1>2 DEF Gone

\* A call leaves what stands: the other objects, or a rule that loses the resource the
\* call deletes and is still to come.
LEMMA StandingCall ==
    ASSUME NEW r, NEW s, NEW source, NEW L, NEW N, RunOK(r, source, L), ClusterState(L),
           DeliverInv(r, L), r.alone, r.pc = "apply", r.calls # <<>>,
           Touches(Current(r), Head(r.calls), L, N), Later(r, s),
           N # L /\ In(Current(r).obj, {"ha_resource"}) /\ Head(r.calls).op = "delete"
              => s.hurt \/ Sid[Current(r).obj] \in Gone(s)
    PROVE  Standing(r, s, Current(r), N)
<1> DEFINE c == Current(r)
           h == Head(r.calls)
           o == c.obj
<1>1. /\ PlanInv(r, L) /\ r.changes \subseteq Changes /\ r.calls \in Seq(Calls) /\ Pending(r) # {}
      /\ DOMAIN r.outs \subseteq r.changes
  BY DEF RunOK, RunType, IsRun
<1>2. c \in Pending(r) /\ c \in r.changes /\ c \in Changes /\ c \notin DOMAIN r.outs
  <2>1. c \in Pending(r)
    BY <1>1, FirstFacts DEF Current, Pending
  <2> QED
    BY <1>1, <2>1 DEF Pending
<1>3. h.op \in Ops
  <2>1. h \in Calls
    BY <1>1, TailFacts
  <2> HIDE DEF h
  <2> QED
    BY <2>1 DEF Calls
<1>4. Standing(r, s, c, L)
  BY StandingSame
<1>5. CASE N = L
  BY <1>4, <1>5
<1>6. CASE N # L
  <2>1. N = Effect(o, h, L)
    BY <1>6 DEF Touches
  <2>2. In(o, {"ha_resource"}) /\ h.op = "delete" => s.hurt \/ Sid[o] \in Gone(s)
    BY <1>6
  <2>3. o \in DOMAIN L /\ \A d \in r.changes : d.obj \in DOMAIN L /\ (d # c => d.obj # o) /\ Sound(d)
    BY <1>1, <1>2 DEF PlanInv, Sound
  <2>4. /\ \A d \in r.changes : Formed(d)
        /\ \A d \in Pending(r) : d # c => Found(s, d, L[d.obj]) /\ Found(r, d, L[d.obj])
        /\ \A d \in DOMAIN r.outs :
             /\ r.outs[d] = "applied" => Delivered(d, L[d.obj])
             /\ r.outs[d] = "failed" /\ ~s.hurt =>
                   Immutable(d) \/ ~Refers(d.obj, d.after, L) \/ Orphaned(s, d)
    BY <1>4 DEF Standing, DeliverInv
  <2> HIDE DEF c, h, o
  <2>5. \A p \in DOMAIN L : p # o /\ ~(In(o, {"ha_resource"}) /\ In(p, {"ha_rule"}) /\ h.op = "delete")
           => N[p] = L[p]
    BY <1>3, <2>1, <2>3, EffectFrame
  <2>6. ASSUME NEW d \in Pending(r), d # c PROVE Found(s, d, N[d.obj])
    <3>1. /\ d \in r.changes /\ d.obj \in DOMAIN L /\ d.obj # o /\ Sound(d) /\ Formed(d)
          /\ Found(s, d, L[d.obj]) /\ Found(r, d, L[d.obj])
      BY <2>3, <2>4, <2>6 DEF Pending
    <3>2. CASE In(o, {"ha_resource"}) /\ In(d.obj, {"ha_rule"}) /\ h.op = "delete"
      <4>1. N = Purged(o, L)
        BY <2>1, <3>2 DEF Effect
      <4>2. Found(s, d, Purged(o, L)[d.obj])
        BY <2>2, <2>3, <3>1, <3>2, RuleLoses
      <4> QED
        BY <4>1, <4>2
    <3>3. CASE ~(In(o, {"ha_resource"}) /\ In(d.obj, {"ha_rule"}) /\ h.op = "delete")
      BY <2>5, <3>1, <3>3
    <3> QED
      BY <3>2, <3>3
  <2>7. ASSUME NEW d \in DOMAIN r.outs
        PROVE  /\ r.outs[d] = "applied" => Delivered(d, N[d.obj])
               /\ r.outs[d] = "failed" /\ ~s.hurt =>
                     Immutable(d) \/ ~Refers(d.obj, d.after, N) \/ Orphaned(s, d)
    <3>1. /\ d \in r.changes /\ d \in Changes /\ d # c /\ d.obj \in DOMAIN L /\ d.obj # o
          /\ ~InOrder(c, d)
      BY <1>1, <1>2, <2>3 DEF PlanInv
    <3>2. ~(In(o, {"ha_resource"}) /\ In(d.obj, {"ha_rule"}))
      BY <1>2, <3>1, ResourceFirst DEF o
    <3>3. N[d.obj] = L[d.obj]
      BY <2>5, <3>1, <3>2
    <3>4. Refers(d.obj, d.after, N) => Refers(d.obj, d.after, L)
      <4>1. CASE ~In(d.obj, {"ha_rule"})
        BY <4>1 DEF Refers
      <4>2. CASE In(d.obj, {"ha_rule"})
        <5>1. ~In(o, {"ha_resource"})
          BY <3>2, <4>2
        <5>2. DOMAIN N = DOMAIN L
          BY <1>3, <2>1 DEF Effect, Purged, Ops
        <5>3. \A p \in DOMAIN L : In(p, {"ha_resource"}) => N[p] = L[p]
          <6>1. ASSUME NEW p \in DOMAIN L, In(p, {"ha_resource"}) PROVE p # o
            BY <5>1, <6>1
          <6> QED
            BY <2>5, <5>1, <6>1
        <5> QED
          BY <5>2, <5>3 DEF Refers
      <4> QED
        BY <4>1, <4>2
    <3> QED
      BY <2>4, <3>3, <3>4
  <2>8. Standing(r, s, c, N)
    BY <2>4, <2>6, <2>7 DEF Standing
  <2> QED
    BY <2>8 DEF c
<1> QED
  BY <1>5, <1>6

LEMMA OutcomeFields ==
    ASSUME NEW r, IsRun(r), NEW out
    PROVE  LET s == Outcome(r, out)
           IN  /\ s.pc = r.pc /\ s.changes = r.changes /\ s.outs = Extended(r.outs, Current(r), out)
               /\ s.calls = <<>> /\ s.alone = r.alone /\ s.hurt = r.hurt
  BY DEF IsRun, Outcome

\* The change that is up.
LEMMA CurrentFacts ==
    ASSUME NEW r, NEW source, NEW L, RunOK(r, source, L), Pending(r) # {}
    PROVE  /\ IsRun(r) /\ Current(r) \in Pending(r) /\ Current(r) \in r.changes
           /\ Sound(Current(r)) /\ Current(r).obj \in DOMAIN L
<1>1. IsRun(r) /\ PlanInv(r, L) /\ r.changes \subseteq Changes
  BY DEF RunOK, RunType, IsRun
<1>2. Current(r) \in Pending(r)
  BY <1>1, FirstFacts DEF Current, Pending
<1>3. Current(r) \in r.changes
  BY <1>2 DEF Pending
<1> QED
  BY <1>1, <1>2, <1>3 DEF Sound, PlanInv

\* A change that is settled before any call, or taken up.
LEMMA DeliverTakeUp ==
    ASSUME NEW r, NEW source, NEW L, RunOK(r, source, L), ClusterState(L), DeliverInv(r, L),
           r.pc = "apply", r.calls = <<>>, Pending(r) # {}
    PROVE  DeliverInv(TakeUp(r), L)
<1> DEFINE c == Current(r)
           v == L[c.obj]
           t == [r EXCEPT !.calls = CallsOf(c)]
<1>1. IsRun(r) /\ c \in Pending(r) /\ c \in r.changes /\ Sound(c) /\ c.obj \in DOMAIN L
  BY CurrentFacts
<1>2. CASE ~r.alone
  <2>1. Kept(r, TakeUp(r))
    BY <1>1, TakeUpKept
  <2>2. ~TakeUp(r).alone
    BY <1>2, <2>1 DEF Kept
  <2> QED
    BY <2>2, DeliverNothing
<1>3. CASE r.alone
  <2>1. /\ Formed(c) /\ \A d \in Pending(r) : Found(r, d, L[d.obj])
        /\ \A d \in r.changes : Formed(d)
    BY <1>1, <1>3 DEF DeliverInv
  <2>2. v = Absent \/ v \in Decl(c.obj)
    BY <1>1 DEF ClusterState
  <2>3. ~Immutable(c) /\ CallsOf(c) = <<>> => Delivered(c, v)
    BY <1>1, <2>1, <2>2, HeadStart
  <2>4. ASSUME NEW out, out = "applied" => Delivered(c, v), out = "failed" => Immutable(c)
        PROVE  DeliverInv(Outcome(r, out), L)
    <3> DEFINE s == Outcome(r, out)
    <3>1. /\ s.changes = r.changes /\ s.outs = Extended(r.outs, c, out) /\ s.calls = <<>>
          /\ s.hurt = r.hurt
      BY <1>1, OutcomeFields
    <3> HIDE DEF s
    <3>2. Later(r, s)
      BY <1>1, <3>1, GoneGrows DEF Later
    <3>3. Standing(r, s, c, L)
      BY <1>3, <3>2, StandingSame
    <3> HIDE DEF c
    <3>4. DeliverInv(s, L)
      BY <1>1, <2>4, <3>1, <3>3, DeliverOutcome DEF v
    <3> QED
      BY <3>4 DEF s
  <2>5. \/ \E out \in {"aborted", "dry", "held"} : TakeUp(r) = Outcome(r, out)
        \/ TakeUp(r) = Outcome(r, "failed") /\ Immutable(c)
        \/ TakeUp(r) = Outcome(r, "applied") /\ ~Immutable(c) /\ CallsOf(c) = <<>>
        \/ TakeUp(r) = t /\ ~Immutable(c) /\ CallsOf(c) # <<>>
    BY DEF TakeUp
  <2>6. CASE \E out \in {"aborted", "dry", "held"} : TakeUp(r) = Outcome(r, out)
    BY <2>4, <2>6
  <2>7. CASE TakeUp(r) = Outcome(r, "failed") /\ Immutable(c)
    BY <2>4, <2>7
  <2>8. CASE TakeUp(r) = Outcome(r, "applied") /\ ~Immutable(c) /\ CallsOf(c) = <<>>
    BY <2>3, <2>4, <2>8
  <2>9. CASE TakeUp(r) = t /\ ~Immutable(c) /\ CallsOf(c) # <<>>
    <3>1. /\ t.alone = r.alone /\ t.pc = r.pc /\ t.changes = r.changes /\ t.calls = CallsOf(c)
          /\ t.outs = r.outs /\ t.hurt = r.hurt
      BY <1>1 DEF IsRun
    <3> HIDE DEF t
    <3>2. Pending(t) = Pending(r) /\ Current(t) = c /\ Gone(t) = Gone(r)
      BY <3>1 DEF Pending, Current, Gone
    <3>3. Later(r, t)
      BY <3>1, <3>2 DEF Later
    <3> HIDE DEF c
    <3>4. \A d \in Pending(r) : Found(t, d, L[d.obj])
      BY <2>1, <3>3, FoundLater
    <3>5. Heading(t, c, v)
      <4>1. Found(t, c, v)
        BY <1>1, <3>4
      <4> QED
        BY <1>1, <2>1, <2>2, <2>9, <3>1, <4>1, HeadStart
    <3>6. \A d \in DOMAIN r.outs :
             /\ r.outs[d] = "applied" => Delivered(d, L[d.obj])
             /\ r.outs[d] = "failed" /\ ~r.hurt =>
                   Immutable(d) \/ ~Refers(d.obj, d.after, L) \/ Orphaned(t, d)
      <4>1. \A d : Orphaned(r, d) => Orphaned(t, d)
        BY <3>3, OrphanedLater
      <4> QED
        BY <1>3, <4>1 DEF DeliverInv
    <3>7. DeliverInv(t, L)
      BY <2>1, <2>9, <3>1, <3>2, <3>4, <3>5, <3>6 DEF DeliverInv, v
    <3> QED
      BY <2>9, <3>7
  <2> QED
    BY <2>5, <2>6, <2>7, <2>8, <2>9
<1> QED
  BY <1>2, <1>3

\* A call that failed for the run, whether it reached Proxmox or not.
LEMMA DeliverFault ==
    ASSUME NEW r, NEW source, NEW L, NEW N, RunOK(r, source, L), ClusterState(L), DeliverInv(r, L),
           r.pc = "apply", r.calls # <<>>, Touches(Current(r), Head(r.calls), L, N),
           NEW s, s.changes = r.changes, s.outs = Extended(r.outs, Current(r), "failed"),
           s.calls = <<>>, s.alone = r.alone, s.hurt
    PROVE  DeliverInv(s, N)
<1> DEFINE c == Current(r)
<1>1. Pending(r) # {}
  BY DEF RunOK, RunType
<1>2. c \in Pending(r)
  BY <1>1, CurrentFacts
<1>3. CASE ~r.alone
  BY <1>3, DeliverNothing
<1>4. CASE r.alone
  <2>1. Later(r, s)
    BY <1>2, GoneGrows DEF Later
  <2>2. Standing(r, s, c, N)
    BY <1>4, <2>1, StandingCall
  <2> HIDE DEF c
  <2> QED
    BY <1>2, <2>2, DeliverOutcome DEF c
<1> QED
  BY <1>3, <1>4

LEMMA AfterCallFields ==
    ASSUME NEW r, IsRun(r), r.calls # <<>>, NEW answer, Current(r) \in Changes
    PROVE  LET c == Current(r)
               s == AfterCall(r, answer)
           IN  /\ s.pc = r.pc /\ s.changes = r.changes /\ s.alone = r.alone /\ s.hurt = r.hurt
               /\ \/ /\ answer = "ok" /\ Len(r.calls) > 1
                     /\ s.calls = Tail(r.calls) /\ s.outs = r.outs
                  \/ /\ (answer = "ok" /\ Len(r.calls) = 1) \/ Tolerated(c, answer)
                     /\ s.calls = <<>> /\ s.outs = Extended(r.outs, c, "applied")
                  \/ /\ answer # "ok" /\ ~Tolerated(c, answer)
                     /\ s.calls = <<>> /\ s.outs = Extended(r.outs, c, "failed")
<1> DEFINE c == Current(r)
           s == AfterCall(r, answer)
           u == [r EXCEPT !.sent = r.sent \cup {c}]
           t == [u EXCEPT !.calls = Tail(r.calls)]
           Goal == /\ s.pc = r.pc /\ s.changes = r.changes /\ s.alone = r.alone /\ s.hurt = r.hurt
                   /\ \/ /\ answer = "ok" /\ Len(r.calls) > 1
                         /\ s.calls = Tail(r.calls) /\ s.outs = r.outs
                      \/ /\ (answer = "ok" /\ Len(r.calls) = 1) \/ Tolerated(c, answer)
                         /\ s.calls = <<>> /\ s.outs = Extended(r.outs, c, "applied")
                      \/ /\ answer # "ok" /\ ~Tolerated(c, answer)
                         /\ s.calls = <<>> /\ s.outs = Extended(r.outs, c, "failed")
<1> SUFFICES Goal
  OBVIOUS
<1>1. r.calls \in Seq(Calls) /\ r.sent \subseteq Changes /\ c \in Changes
  BY DEF IsRun
<1>2. Len(r.calls) = 1 \/ Len(r.calls) > 1
  <2> DEFINE n == Len(r.calls)
  <2>1. n \in Nat /\ n # 0
    BY <1>1
  <2> HIDE DEF n
  <2>2. n = 1 \/ n > 1
    BY <2>1
  <2> QED
    BY <2>2 DEF n
<1> HIDE DEF c
<1>3. /\ IsRun(u) /\ u.pc = r.pc /\ u.changes = r.changes /\ u.alone = r.alone /\ u.hurt = r.hurt
      /\ u.outs = r.outs /\ u.calls = r.calls
  BY <1>1 DEF IsRun
<1>4. Current(u) = c
  BY <1>3 DEF Current, Pending, c
<1>5. \/ answer = "ok" /\ Len(r.calls) > 1 /\ s = t
      \/ ((answer = "ok" /\ Len(r.calls) = 1) \/ Tolerated(c, answer)) /\ s = Outcome(u, "applied")
      \/ answer # "ok" /\ ~Tolerated(c, answer) /\ s = Outcome(u, "failed")
  BY <1>2, <1>3 DEF AfterCall, c
<1> HIDE DEF u, s
<1>6. CASE answer = "ok" /\ Len(r.calls) > 1 /\ s = t
  <2>1. /\ t.pc = u.pc /\ t.changes = u.changes /\ t.alone = u.alone /\ t.hurt = u.hurt
        /\ t.outs = u.outs /\ t.calls = Tail(r.calls)
    BY <1>3 DEF IsRun
  <2> HIDE DEF t
  <2> QED
    BY <1>3, <1>6, <2>1
<1>7. ASSUME NEW out, s = Outcome(u, out)
      PROVE  /\ s.pc = r.pc /\ s.changes = r.changes /\ s.alone = r.alone /\ s.hurt = r.hurt
             /\ s.calls = <<>> /\ s.outs = Extended(r.outs, c, out)
  BY <1>3, <1>4, <1>7, OutcomeFields
<1>8. CASE ((answer = "ok" /\ Len(r.calls) = 1) \/ Tolerated(c, answer)) /\ s = Outcome(u, "applied")
  BY <1>7, <1>8
<1>9. CASE answer # "ok" /\ ~Tolerated(c, answer) /\ s = Outcome(u, "failed")
  BY <1>7, <1>9
<1> QED
  BY <1>5, <1>6, <1>8, <1>9

\* A resource is deleted only by the delete of it.
LEMMA DeleteDeletes ==
    ASSUME NEW c, Sound(c), In(c.obj, {"ha_resource"}), CallsOf(c) # <<>>,
           Head(CallsOf(c)).op = "delete"
    PROVE  c.kind = "delete"
<1>1. Plain(c.obj) /\ c.kind \in {"create", "update", "delete"}
  BY SoundFacts DEF Plain, In
<1>2. CASE c.kind = "create"
  <2>1. CallsOf(c) = <<Call("create", {}, c.after)>>
    BY <1>1, <1>2, PlainShape
  <2>2. Head(CallsOf(c)) = Call("create", {}, c.after)
    BY <2>1
  <2> QED
    BY <2>2 DEF Call
<1>3. CASE c.kind = "update"
  <2> DEFINE sent == SentBy(c.obj, c.before, c.after)
  <2>1. CallsOf(c) = <<Call("put", sent, c.after)>>
    BY <1>1, <1>3, PlainShape
  <2>2. Head(CallsOf(c)) = Call("put", sent, c.after)
    BY <2>1
  <2> HIDE DEF sent
  <2> QED
    BY <2>2 DEF Call
<1> QED
  BY <1>1, <1>2, <1>3

\* A call that was answered.
LEMMA DeliverCall ==
    ASSUME NEW r, NEW source, NEW L, NEW N, RunOK(r, source, L), ClusterState(L), DeliverInv(r, L),
           r.pc = "apply", r.calls # <<>>,
           N = IF Answer(Current(r).obj, Head(r.calls), L) = "ok"
               THEN Effect(Current(r).obj, Head(r.calls), L) ELSE L
    PROVE  DeliverInv(AfterCall(r, Answer(Current(r).obj, Head(r.calls), L)), N)
<1> DEFINE c == Current(r)
           h == Head(r.calls)
           answer == Answer(c.obj, h, L)
           s == AfterCall(r, answer)
<1> SUFFICES DeliverInv(s, N)
  OBVIOUS
<1>1. Pending(r) # {} /\ r.calls \in Seq(Calls)
  BY DEF RunOK, RunType, IsRun
<1>2. IsRun(r) /\ c \in Pending(r) /\ c \in r.changes /\ Sound(c) /\ c.obj \in DOMAIN L /\ c \in Changes
  BY <1>1, CurrentFacts DEF Sound
<1>3. /\ s.pc = r.pc /\ s.changes = r.changes /\ s.alone = r.alone /\ s.hurt = r.hurt
      /\ \/ /\ answer = "ok" /\ Len(r.calls) > 1
            /\ s.calls = Tail(r.calls) /\ s.outs = r.outs
         \/ /\ (answer = "ok" /\ Len(r.calls) = 1) \/ Tolerated(c, answer)
            /\ s.calls = <<>> /\ s.outs = Extended(r.outs, c, "applied")
         \/ /\ answer # "ok" /\ ~Tolerated(c, answer)
            /\ s.calls = <<>> /\ s.outs = Extended(r.outs, c, "failed")
  BY <1>2, AfterCallFields
<1>4. Touches(c, h, L, N) /\ (answer = "ok" => N = Effect(c.obj, h, L)) /\ (answer # "ok" => N = L)
  BY DEF Touches
<1>5. ClusterState(N) /\ DOMAIN N = DOMAIN L
  BY <1>4, TouchedState
<1> HIDE DEF s
<1>6. CASE ~r.alone
  BY <1>3, <1>6, DeliverNothing
<1>7. CASE r.alone
  <2>1. /\ Formed(c) /\ ~Immutable(c) /\ Heading(r, c, L[c.obj])
        /\ \A d \in r.changes : Formed(d)
    BY <1>2, <1>7 DEF DeliverInv
  <2>2. /\ answer = "ok" /\ Len(r.calls) > 1 =>
             /\ ~Plain(c.obj)
             /\ \A u : u.calls = Tail(r.calls) => Heading(u, c, N[c.obj])
        /\ answer = "ok" /\ Len(r.calls) = 1 => (N[c.obj] = Absent \/ N[c.obj] \in Decl(c.obj)
             => Delivered(c, N[c.obj]))
        /\ Tolerated(c, answer) => Delivered(c, L[c.obj])
        /\ answer # "ok" /\ ~Tolerated(c, answer) /\ ~r.hurt =>
             ~Refers(c.obj, c.after, L) \/ Orphaned(r, c)
    BY <1>1, <1>2, <1>4, <2>1, HeadStep
  <2>3. N[c.obj] = Absent \/ N[c.obj] \in Decl(c.obj)
    BY <1>2, <1>5 DEF ClusterState
  <2>4. Tolerated(c, answer) => answer # "ok"
    BY DEF Tolerated
  <2>5. In(c.obj, {"ha_resource"}) => Plain(c.obj)
    BY DEF Plain, In
  <2>6. In(c.obj, {"ha_resource"}) /\ h.op = "delete" => c.kind = "delete"
    <3>1. Plain(c.obj) => r.calls = CallsOf(c)
      BY <2>1, HeadingForm
    <3> QED
      BY <1>2, <2>5, <3>1, DeleteDeletes
  <2> HIDE DEF c, h, answer
  <2>7. ASSUME NEW out, s.outs = Extended(r.outs, c, out), s.calls = <<>>,
               out = "applied" => Delivered(c, N[c.obj]),
               out = "failed" /\ ~s.hurt =>
                  Immutable(c) \/ ~Refers(c.obj, c.after, N) \/ Orphaned(s, c),
               out # "applied" => N = L
        PROVE  DeliverInv(s, N)
    <3>1. Gone(r) \subseteq Gone(s)
      BY <1>2, <2>7, GoneGrows
    <3>2. out = "applied" /\ c.kind = "delete" /\ In(c.obj, {"ha_resource"}) => Sid[c.obj] \in Gone(s)
      BY <1>2, <2>7, GoneGrows
    <3>3. Later(r, s)
      BY <1>3, <3>1 DEF Later
    <3>4. Standing(r, s, c, N)
      BY <1>4, <1>7, <2>6, <2>7, <3>2, <3>3, StandingCall DEF c, h
    <3> QED
      BY <1>2, <1>3, <2>7, <3>4, DeliverOutcome
  <2>8. CASE /\ answer = "ok" /\ Len(r.calls) > 1
             /\ s.calls = Tail(r.calls) /\ s.outs = r.outs
    <3>1. Pending(s) = Pending(r) /\ Current(s) = c /\ Gone(s) = Gone(r)
      BY <1>3, <2>8 DEF Pending, Current, Gone, c
    <3>2. Later(r, s)
      BY <1>3, <3>1 DEF Later
    <3>3. Standing(r, s, c, N)
      BY <1>4, <1>7, <2>2, <2>5, <2>8, <3>2, StandingCall DEF c, h
    <3>4. Heading(s, c, N[c.obj]) /\ s.calls # <<>>
      BY <1>1, <2>2, <2>8, TailFacts
    <3>5. \A d \in Pending(s) : IF d = Current(s) /\ s.calls # <<>>
                                THEN ~Immutable(d) /\ Heading(s, d, N[d.obj])
                                ELSE Found(s, d, N[d.obj])
      BY <2>1, <3>1, <3>3, <3>4 DEF Standing
    <3> QED
      BY <1>3, <2>8, <3>3, <3>5 DEF Standing, DeliverInv
  <2>9. CASE /\ (answer = "ok" /\ Len(r.calls) = 1) \/ Tolerated(c, answer)
             /\ s.calls = <<>> /\ s.outs = Extended(r.outs, c, "applied")
    <3>1. Delivered(c, N[c.obj])
      BY <1>4, <2>2, <2>3, <2>4, <2>9
    <3> QED
      BY <2>7, <2>9, <3>1
  <2>10. CASE /\ answer # "ok" /\ ~Tolerated(c, answer)
              /\ s.calls = <<>> /\ s.outs = Extended(r.outs, c, "failed")
    <3>1. N = L
      BY <1>4, <2>10
    <3>2. Gone(r) \subseteq Gone(s)
      BY <1>2, <2>10, GoneGrows
    <3>3. Later(r, s)
      BY <1>3, <3>2 DEF Later
    <3>4. ~s.hurt => ~Refers(c.obj, c.after, N) \/ Orphaned(s, c)
      BY <1>3, <2>2, <2>10, <3>1, <3>3, OrphanedLater
    <3> QED
      BY <2>7, <2>10, <3>1, <3>4
  <2> QED
    BY <1>3, <2>8, <2>9, <2>10
<1> QED
  BY <1>6, <1>7

\* What both runs deliver.
DeliverAll == \A a \in Actors : DeliverInv(run[a], live)

LEMMA DeliverOwn ==
    ASSUME ProofInv, DeliverAll, NEW a \in Actors, NEW s, run' = [run EXCEPT ![a] = s],
           live' = live, DeliverInv(s, live)
    PROVE  DeliverAll'
<1>1. run'[a] = s /\ \A b \in Actors : b # a => run'[b] = run[b]
  BY DEF ProofInv
<1>2. \A b \in Actors : DeliverInv(run'[b], live')
  BY <1>1 DEF DeliverAll
<1> QED
  BY <1>2 DEF DeliverAll

LEMMA DeliverAlone ==
    ASSUME NEW r, IsRun(r), NEW L PROVE DeliverInv([r EXCEPT !.alone = FALSE], L)
<1>1. ~[r EXCEPT !.alone = FALSE].alone
  BY DEF IsRun
<1> QED
  BY <1>1, DeliverNothing

LEMMA DeliverReached ==
    ASSUME ProofInv, DeliverAll, NEW a \in Actors, NEW s,
           run' = [Reached(a, live') EXCEPT ![a] = s], DeliverInv(s, live')
    PROVE  DeliverAll'
<1> DEFINE d(b) == [run[b] EXCEPT !.alone = FALSE]
<1>1. /\ run'[a] = s
      /\ \A b \in Actors : b # a => run'[b] = IF live' = live THEN run[b] ELSE d(b)
  BY DEF Reached
<1>2. \A b \in Actors : IsRun(run[b])
  BY DEF ProofInv, RunOK, RunType
<1>3. \A b \in Actors : DeliverInv(d(b), live')
  BY <1>2, DeliverAlone
<1> HIDE DEF d
<1>4. \A b \in Actors : DeliverInv(run'[b], live')
  BY <1>1, <1>3 DEF DeliverAll
<1> QED
  BY <1>4 DEF DeliverAll

LEMMA DeliverDisturbed ==
    ASSUME ProofInv, run' = Disturbed PROVE DeliverAll'
<1>1. \A b \in Actors : run'[b] = [run[b] EXCEPT !.alone = FALSE]
  BY DEF Disturbed
<1>2. \A b \in Actors : IsRun(run[b])
  BY DEF ProofInv, RunOK, RunType
<1>3. \A b \in Actors : DeliverInv([run[b] EXCEPT !.alone = FALSE], live')
  BY <1>2, DeliverAlone
<1>4. \A b \in Actors : DeliverInv(run'[b], live')
  BY <1>1, <1>3
<1> QED
  BY <1>4 DEF DeliverAll

LEMMA DeliverInit == Init => DeliverAll
<1>1. ASSUME Init, NEW a \in Actors PROVE DeliverInv(run[a], live)
  <2>1. run[a] = Idle
    BY <1>1 DEF Init
  <2> QED
    BY <2>1, IdleFacts, DeliverNothing
<1> QED
  BY <1>1 DEF DeliverAll

LEMMA DeliverEnded ==
    ASSUME NEW r, IsRun(r), NEW L PROVE DeliverInv(Ended(r), L)
<1>1. r.alone \in BOOLEAN /\ r.hurt \in BOOLEAN /\ r.saved \in BOOLEAN
  BY DEF IsRun
<1>2. Ended(r).changes = {} /\ DOMAIN Ended(r).outs = {}
  BY <1>1, IdleFacts DEF Ended, IsRun
<1> QED
  BY <1>2, DeliverNothing

LEMMA DeliverRead ==
    ASSUME NEW r, Blank(r), NEW pc, NEW L PROVE DeliverInv(StartRead(r, pc), L)
<1>1. StartRead(r, pc).changes = {} /\ DOMAIN StartRead(r, pc).outs = {}
  BY DEF Blank, IsRun, StartRead
<1> QED
  BY <1>1, DeliverNothing

LEMMA ExportDelivers ==
    ASSUME ProofInv, DeliverAll, NEW a \in Actors, Export(a) PROVE DeliverAll'
<1> DEFINE r == run[a]
<1>1. PICK x : run' = [run EXCEPT ![a].snap = x]
  BY DEF Export
<1> DEFINE s == [r EXCEPT !.snap = x]
<1>2. run' = [run EXCEPT ![a] = s] /\ live' = live
  BY <1>1 DEF ProofInv, Export
<1>3. RunOK(r, doc, live) /\ IsRun(r) /\ r.pc \in {"check", "read", "recheck"} /\ DeliverInv(r, live)
  BY DEF ProofInv, Export, RunOK, RunType, DeliverAll
<1> HIDE DEF r
<1>4. s.pc = r.pc /\ s.changes = r.changes /\ s.outs = r.outs /\ s.alone = r.alone /\ s.hurt = r.hurt
  BY <1>3 DEF IsRun
<1> HIDE DEF s
<1>5. r.pc \in {"check", "read"} => r.changes = {} /\ DOMAIN r.outs = {}
  BY <1>3, BlankBefore DEF Blank
<1>6. DeliverInv(s, live)
  BY <1>3, <1>4, <1>5, DeliverSame
<1> QED
  BY <1>2, <1>6, DeliverOwn

LEMMA ExportFailsDelivers ==
    ASSUME ProofInv, DeliverAll, NEW a \in Actors, ExportFails(a) PROVE DeliverAll'
<1> DEFINE pc == IF a = "daemon" THEN "idle" ELSE "over"
           e == run[a].entry
           s == [Idle EXCEPT !.pc = pc, !.entry = e, !.hurt = TRUE]
<1>1. run' = [run EXCEPT ![a] = s] /\ live' = live
  BY DEF ExportFails
<1> HIDE DEF pc, e
<1>2. s.changes = {} /\ DOMAIN s.outs = {}
  BY IdleFacts DEF IsRun
<1> HIDE DEF s
<1> QED
  BY <1>1, <1>2, DeliverNothing, DeliverOwn

LEMMA TickDelivers ==
    ASSUME ProofInv, DeliverAll, Tick PROVE DeliverAll'
<1> DEFINE i == [Idle EXCEPT !.rec = cfg]
           s == StartRead(i, "check")
<1>1. run' = [run EXCEPT !["daemon"] = s] /\ live' = live
  BY DEF Tick
<1>2. Scene /\ cfg \in Cfgs \cup {NoCfg}
  BY ReconcileAssumption DEF ProofInv, Scene
<1>3. Blank(i)
  BY <1>2, IdleFacts DEF IsRun, Blank
<1> HIDE DEF i
<1>4. DeliverInv(s, live)
  BY <1>3, DeliverRead
<1> QED
  BY <1>1, <1>4, DeliverOwn DEF Actors

LEMMA CommandDelivers ==
    ASSUME ProofInv, DeliverAll, NEW opts \in Options, Command(opts) PROVE DeliverAll'
<1> DEFINE i == [Idle EXCEPT !.opts = opts]
           s == StartRead(i, "read")
<1>1. run' = [run EXCEPT !["operator"] = s] /\ live' = live
  BY DEF Command
<1>2. opts \in Opts
  BY ReconcileAssumption
<1>3. Blank(i)
  BY <1>2, IdleFacts DEF IsRun, Blank
<1> HIDE DEF i
<1>4. DeliverInv(s, live)
  BY <1>3, DeliverRead
<1> QED
  BY <1>1, <1>4, DeliverOwn DEF Actors

LEMMA CheckedDelivers ==
    ASSUME ProofInv, DeliverAll, Checked PROVE DeliverAll'
<1> DEFINE r == run["daemon"]
           o == Unmanned(r.rec)
<1>0. PICK saved \in BOOLEAN :
        LET t == [r EXCEPT !.saved = saved]
        IN  \/ run' = [run EXCEPT !["daemon"] = StartRead([t EXCEPT !.opts = o], "read")]
            \/ run' = [run EXCEPT !["daemon"] = Ended(t)]
  BY DEF Checked
<1> DEFINE t == [r EXCEPT !.saved = saved]
           i == [t EXCEPT !.opts = o]
<1>1. RunOK(r, doc, live) /\ IsRun(r)
  BY DEF ProofInv, RunOK, RunType, Actors
<1>2. /\ r.pc = "check" /\ live' = live
      /\ run' = [run EXCEPT !["daemon"] = StartRead(i, "read")] \/ run' = [run EXCEPT !["daemon"] = Ended(t)]
  BY <1>0 DEF Checked
<1> HIDE DEF r
<1>3. Blank(t) /\ IsRun(t) /\ r.rec \in Cfgs \cup {NoCfg}
  <2>1. Blank(r)
    BY <1>1, <1>2, BlankBefore
  <2> QED
    BY <1>1, <2>1 DEF IsRun, Blank
<1> HIDE DEF t
<1>4. o \in Opts
  BY <1>3 DEF Unmanned, Opts, Cfgs, NoCfg
<1> HIDE DEF o
<1>5. Blank(i)
  BY <1>3, <1>4 DEF Blank, IsRun
<1> HIDE DEF i
<1>6. DeliverInv(StartRead(i, "read"), live) /\ DeliverInv(Ended(t), live)
  BY <1>3, <1>5, DeliverRead, DeliverEnded
<1> QED
  BY <1>2, <1>6, DeliverOwn DEF Actors

LEMMA RecheckedDelivers ==
    ASSUME ProofInv, DeliverAll, Rechecked PROVE DeliverAll'
<1>0. PICK saved \in BOOLEAN : run' = [run EXCEPT !["daemon"] = Ended([run["daemon"] EXCEPT !.saved = saved])]
  BY DEF Rechecked
<1> DEFINE t == [run["daemon"] EXCEPT !.saved = saved]
<1>1. IsRun(t)
  <2>1. IsRun(run["daemon"])
    BY DEF ProofInv, RunOK, RunType, Actors
  <2> QED
    BY <2>1 DEF IsRun
<1>2. run' = [run EXCEPT !["daemon"] = Ended(t)] /\ live' = live
  BY <1>0 DEF Rechecked
<1> HIDE DEF t
<1>3. DeliverInv(Ended(t), live)
  BY <1>1, DeliverEnded
<1> QED
  BY <1>2, <1>3, DeliverOwn DEF Actors

LEMMA RestartDelivers ==
    ASSUME ProofInv, DeliverAll, Restart PROVE DeliverAll'
<1> DEFINE s == [Idle EXCEPT !.alone = FALSE]
<1>1. run' = [run EXCEPT !["daemon"] = s] /\ live' = live
  BY DEF Restart
<1>2. DeliverInv(s, live)
  BY IdleFacts, DeliverAlone
<1> QED
  BY <1>1, <1>2, DeliverOwn DEF Actors

LEMMA UnmannedGateDelivers ==
    ASSUME ProofInv, DeliverAll, UnmannedGate PROVE DeliverAll'
<1> DEFINE r == run["daemon"]
           mine == Allowed(r.rec, DriftOf(r))
<1>1. /\ r.pc = "read" /\ Unread(r) = {} /\ live' = live
      /\ run' = [run EXCEPT !["daemon"] = Ended(r)] \/ run' = [run EXCEPT !["daemon"] = Begin(r, mine)]
  BY DEF UnmannedGate
<1>2. /\ RunOK(r, doc, live) /\ IsRun(r) /\ ClusterState(live) /\ DOMAIN live \subseteq DOMAIN r.snap
  BY <1>1 DEF ProofInv, Actors, RunOK, RunType, Scene, Unread
<1>3. mine \in SUBSET DriftOf(r)
  BY DEF Allowed
<1> HIDE DEF r, mine
<1>4. DeliverInv(Ended(r), live) /\ DeliverInv(Begin(r, mine), live)
  BY <1>1, <1>2, <1>3, DeliverEnded, DeliverBegin
<1> QED
  BY <1>1, <1>4, DeliverOwn DEF Actors

LEMMA OperatorGateDelivers ==
    ASSUME ProofInv, DeliverAll, OperatorGate PROVE DeliverAll'
<1> DEFINE r == run["operator"]
           drift == DriftOf(r)
<1>1. /\ r.pc = "read" /\ Unread(r) = {} /\ live' = live
      /\ \/ run' = [run EXCEPT !["operator"].pc = "over"]
         \/ \E no \in SUBSET {o \in DOMAIN live : r.opts.asks /\ ~r.opts.dry} :
               run' = [run EXCEPT !["operator"] =
                         Begin(r, {c \in drift : ~(c.obj \in no /\ Confirmable(c, r.opts))})]
  BY DEF OperatorGate
<1>2. /\ RunOK(r, doc, live) /\ IsRun(r) /\ ClusterState(live)
      /\ DOMAIN live \subseteq DOMAIN r.snap
  BY <1>1 DEF ProofInv, Actors, RunOK, RunType, Scene, Unread
<1>3. CASE run' = [run EXCEPT !["operator"].pc = "over"]
  <2> DEFINE s == [r EXCEPT !.pc = "over"]
  <2>1. run' = [run EXCEPT !["operator"] = s]
    BY <1>3 DEF ProofInv
  <2>2. Blank(r)
    BY <1>1, <1>2, BlankBefore
  <2> HIDE DEF r
  <2>3. s.changes = {} /\ DOMAIN s.outs = {}
    BY <2>2 DEF Blank, IsRun
  <2> HIDE DEF s
  <2>4. DeliverInv(s, live)
    BY <2>3, DeliverNothing
  <2> QED
    BY <1>1, <2>1, <2>4, DeliverOwn DEF Actors
<1>4. CASE \E no \in SUBSET {o \in DOMAIN live : r.opts.asks /\ ~r.opts.dry} :
             run' = [run EXCEPT !["operator"] =
                       Begin(r, {c \in drift : ~(c.obj \in no /\ Confirmable(c, r.opts))})]
  <2>1. PICK S \in SUBSET DriftOf(r) : run' = [run EXCEPT !["operator"] = Begin(r, S)]
    BY <1>4
  <2> HIDE DEF r
  <2>2. DeliverInv(Begin(r, S), live)
    BY <1>1, <1>2, DeliverBegin
  <2> QED
    BY <1>1, <2>1, <2>2, DeliverOwn DEF Actors
<1> QED
  BY <1>1, <1>3, <1>4

LEMMA NextChangeDelivers ==
    ASSUME ProofInv, DeliverAll, NEW a \in Actors, NextChange(a) PROVE DeliverAll'
<1> DEFINE r == run[a]
<1>1. /\ r.pc = "apply" /\ r.calls = <<>> /\ Pending(r) # {} /\ live' = live
      /\ run' = [run EXCEPT ![a] = TakeUp(r)]
  BY DEF NextChange
<1>2. RunOK(r, doc, live) /\ ClusterState(live) /\ DeliverInv(r, live)
  BY DEF ProofInv, Scene, DeliverAll
<1> HIDE DEF r
<1>3. DeliverInv(TakeUp(r), live)
  BY <1>1, <1>2, DeliverTakeUp
<1> QED
  BY <1>1, <1>3, DeliverOwn

LEMMA CallLockedDelivers ==
    ASSUME ProofInv, DeliverAll, NEW a \in Actors, CallLocked(a) PROVE DeliverAll'
<1> DEFINE r == run[a]
           o == Outcome(r, "failed")
           s == [o EXCEPT !.hurt = TRUE]
<1>1. r.pc = "apply" /\ r.calls # <<>> /\ live' = live /\ run' = [run EXCEPT ![a] = s]
  BY DEF CallLocked
<1>2. RunOK(r, doc, live) /\ IsRun(r) /\ ClusterState(live) /\ DeliverInv(r, live)
  BY DEF ProofInv, Scene, RunOK, RunType, DeliverAll
<1> HIDE DEF r
<1>3. /\ s.changes = r.changes /\ s.outs = Extended(r.outs, Current(r), "failed")
      /\ s.calls = <<>> /\ s.alone = r.alone /\ s.hurt
  BY <1>2 DEF Outcome, IsRun
<1> HIDE DEF s
<1>4. Touches(Current(r), Head(r.calls), live, live)
  BY DEF Touches
<1>5. DeliverInv(s, live)
  BY <1>1, <1>2, <1>3, <1>4, DeliverFault
<1> QED
  BY <1>1, <1>5, DeliverOwn

LEMMA ReportDelivers ==
    ASSUME ProofInv, DeliverAll, NEW a \in Actors, Report(a) PROVE DeliverAll'
<1> DEFINE r == run[a]
<1>0. PICK e \in Written(r) : run' = [run EXCEPT ![a] = Reported(a, [r EXCEPT !.entry = e])]
  BY DEF Report
<1> DEFINE u == [r EXCEPT !.entry = e]
           s == Reported(a, u)
<1>1. RunOK(r, doc, live) /\ IsRun(r) /\ DeliverInv(r, live)
  BY DEF ProofInv, RunOK, RunType, DeliverAll
<1>2. r.pc = "apply" /\ live' = live /\ run' = [run EXCEPT ![a] = s]
  BY <1>0 DEF Report
<1> HIDE DEF r
<1>3. e \in Entries
  BY <1>1 DEF IsRun, Entries, Written
<1>4. /\ s.pc # "apply" /\ s.changes = r.changes /\ s.outs = r.outs /\ s.alone = r.alone
      /\ s.hurt = r.hurt
  <2>1. /\ IsRun(u) /\ u.changes = r.changes /\ u.outs = r.outs /\ u.alone = r.alone
        /\ u.hurt = r.hurt
    BY <1>1, <1>3 DEF IsRun
  <2> HIDE DEF u
  <2> QED
    BY <2>1 DEF Reported, StartRead, IsRun
<1> HIDE DEF s
<1>5. DeliverInv(s, live)
  BY <1>1, <1>2, <1>4, DeliverSame
<1> QED
  BY <1>2, <1>5, DeliverOwn

LEMMA StopDelivers ==
    ASSUME ProofInv, DeliverAll, Stop PROVE DeliverAll'
<1> DEFINE r == run["daemon"]
<1>0. PICK e \in Dropped(r) : run' = [run EXCEPT !["daemon"].pc = "stopped", !["daemon"].entry = e]
  BY DEF Stop
<1> DEFINE s == [r EXCEPT !.pc = "stopped", !.entry = e]
<1>1. RunOK(r, doc, live) /\ IsRun(r) /\ DeliverInv(r, live)
  BY DEF ProofInv, RunOK, RunType, Actors, DeliverAll
<1>2. run' = [run EXCEPT !["daemon"] = s] /\ live' = live /\ r.pc # "stopped"
  <2>1. run' = [run EXCEPT !["daemon"].pc = "stopped", !["daemon"].entry = e]
    BY <1>0
  <2>2. run = [b \in Actors |-> run[b]] /\ "daemon" \in Actors
    BY DEF ProofInv, Actors
  <2>3. r \in [pc : Points, rec : Cfgs \cup {NoCfg}, opts : Opts, doc : {r.doc}, snap : {r.snap},
               changes : SUBSET Changes, calls : Seq(Calls), outs : {r.outs},
               sent : SUBSET Changes, entry : Entries, alone : BOOLEAN, hurt : BOOLEAN,
           saved : BOOLEAN]
    BY <1>1 DEF IsRun
  <2>4. run' = [run EXCEPT !["daemon"] = s]
    BY <2>1, <2>2, <2>3
  <2> QED
    BY <2>4 DEF Stop
<1> HIDE DEF r
<1>3. e \in Entries
  BY <1>1 DEF IsRun, Entries, Dropped
<1>4. /\ s.pc = "stopped" /\ s.changes = r.changes /\ s.outs = r.outs /\ s.alone = r.alone
      /\ s.hurt = r.hurt
  BY <1>1, <1>3 DEF IsRun
<1> HIDE DEF s
<1>5. r.pc \in {"idle", "check", "read"} => r.changes = {} /\ DOMAIN r.outs = {}
  BY <1>1 DEF RunOK, RunType, PlanInv
<1>6. r.pc \in Points
  BY <1>1 DEF IsRun
<1>7. DeliverInv(s, live)
  BY <1>1, <1>4, <1>5, <1>6, DeliverSame DEF Points
<1> QED
  BY <1>2, <1>7, DeliverOwn DEF Actors

LEMMA SendCallDelivers ==
    ASSUME ProofInv, DeliverAll, NEW a \in Actors, SendCall(a) PROVE DeliverAll'
<1> DEFINE r == run[a]
           answer == Answer(Current(r).obj, Head(r.calls), live)
           s == AfterCall(r, answer)
<1>1. /\ r.pc = "apply" /\ r.calls # <<>>
      /\ live' = IF answer = "ok" THEN Effect(Current(r).obj, Head(r.calls), live) ELSE live
      /\ run' = [Reached(a, live') EXCEPT ![a] = s]
  BY DEF SendCall
<1>2. RunOK(r, doc, live) /\ ClusterState(live) /\ DeliverInv(r, live)
  BY DEF ProofInv, Scene, DeliverAll
<1> HIDE DEF r
<1>3. DeliverInv(s, live')
  BY <1>1, <1>2, DeliverCall
<1> QED
  BY <1>1, <1>3, DeliverReached

LEMMA CallFailsDelivers ==
    ASSUME ProofInv, DeliverAll, NEW a \in Actors, CallFails(a) PROVE DeliverAll'
<1> DEFINE r == run[a]
           c == Current(r)
           call == Head(r.calls)
           t == AfterCall(r, "error")
           s == [t EXCEPT !.hurt = TRUE]
<1>1. /\ r.pc = "apply" /\ r.calls # <<>>
      /\ live' \in {live} \cup (IF Answer(c.obj, call, live) = "ok"
                               THEN {Effect(c.obj, call, live)} ELSE {})
      /\ run' = [Reached(a, live') EXCEPT ![a] = s]
  BY DEF CallFails
<1>2. Touches(c, call, live, live')
  BY <1>1 DEF Touches
<1>3. RunOK(r, doc, live) /\ IsRun(r) /\ ClusterState(live) /\ DeliverInv(r, live)
  BY DEF ProofInv, Scene, RunOK, RunType, DeliverAll
<1> HIDE DEF r
<1>4. c \in Changes
  BY <1>1, <1>3, AtCall
<1>5. /\ t.changes = r.changes /\ t.alone = r.alone
      /\ t.calls = <<>> /\ t.outs = Extended(r.outs, c, "failed")
  <2>1. ~Tolerated(c, "error")
    BY DEF Tolerated
  <2> QED
    BY <1>1, <1>3, <1>4, <2>1, AfterCallFields
<1>6. IsRun(t)
  <2> DEFINE n == live
  <2>1. Touches(c, call, live, n)
    BY DEF Touches
  <2>2. RunOK(t, doc, n)
    BY <1>1, <1>3, <2>1, AfterCallOK
  <2> HIDE DEF t
  <2> QED
    BY <2>2 DEF RunOK, RunType
<1> HIDE DEF t
<1>7. /\ s.changes = r.changes /\ s.outs = Extended(r.outs, c, "failed")
      /\ s.calls = <<>> /\ s.alone = r.alone /\ s.hurt
  BY <1>5, <1>6 DEF IsRun
<1> HIDE DEF s
<1>8. DeliverInv(s, live')
  BY <1>1, <1>2, <1>3, <1>7, DeliverFault
<1> QED
  BY <1>1, <1>8, DeliverReached

LEMMA NextDelivers ==
    ASSUME ProofInv, DeliverAll, [Next]_vars PROVE DeliverAll'
<1> USE DEF Actors
<1>1. CASE DaemonStep
  BY <1>1, TickDelivers, CheckedDelivers, UnmannedGateDelivers, RecheckedDelivers, ExportDelivers,
     NextChangeDelivers, SendCallDelivers, CallLockedDelivers, ReportDelivers DEF DaemonStep
<1>2. CASE OperatorStep
  BY <1>2, OperatorGateDelivers, ExportDelivers, NextChangeDelivers, SendCallDelivers,
     CallLockedDelivers, ReportDelivers DEF OperatorStep
<1>3. CASE Restart \/ Stop
  BY <1>3, RestartDelivers, StopDelivers
<1>4. CASE \E opts \in Options : Command(opts)
  BY <1>4, CommandDelivers
<1>5. CASE \E a \in Actors : ExportFails(a) \/ CallFails(a)
  BY <1>5, ExportFailsDelivers, CallFailsDelivers
<1>6. CASE \/ \E o \in DOMAIN live : \E v \in Edits[o] : Edit(o, v)
           \/ \E d \in Documents : Push(d)
           \/ Lock
  <2>1. run' = Disturbed
    BY <1>6 DEF Edit, Push, Lock
  <2> QED
    BY <2>1, DeliverDisturbed
<1>7. CASE (\E c \in Configs : Reload(c)) \/ UNCHANGED vars
  <2>1. run' = run /\ live' = live
    BY <1>7 DEF Reload, vars
  <2> QED
    BY <2>1 DEF DeliverAll
<1> QED
  BY <1>1, <1>2, <1>3, <1>4, <1>5, <1>6, <1>7 DEF Next

LEMMA DeliversOK ==
    ASSUME ProofInv, DeliverAll PROVE ApplyDelivers
<1>1. AppliedMeansMatch
  <2> SUFFICES ASSUME NEW a \in Actors, run[a].pc \in {"recheck", "over"}, run[a].alone,
                      NEW c \in DOMAIN run[a].outs, run[a].outs[c] = "applied"
               PROVE  Delivered(c, live[c.obj])
    BY DEF AppliedMeansMatch
  <2>1. DeliverInv(run[a], live)
    BY DEF DeliverAll
  <2> QED
    BY <2>1 DEF DeliverInv
<1>2. QuietRunsSucceed
  <2> SUFFICES ASSUME NEW a \in Actors, run[a].alone, ~run[a].hurt,
                      NEW c \in DOMAIN run[a].outs, run[a].outs[c] = "failed"
               PROVE  Immutable(c) \/ ~Refers(c.obj, c.after, live) \/ Orphaned(run[a], c)
    BY DEF QuietRunsSucceed
  <2>1. DeliverInv(run[a], live) /\ RunOK(run[a], doc, live)
    BY DEF DeliverAll, ProofInv
  <2>2. run[a].pc \in Points /\ c \in run[a].changes
    BY <2>1 DEF RunOK, RunType, IsRun
  <2>3. run[a].pc \notin {"idle", "check", "read"}
    BY <2>1, <2>2 DEF RunOK, PlanInv
  <2> QED
    BY <2>1, <2>2, <2>3 DEF DeliverInv, Points
<1> QED
  BY <1>1, <1>2 DEF ApplyDelivers

\* An apply that has the cluster to itself delivers (apply_change and its calls): what it
\* reports as applied is live when it ends, for every family, plan and number of members,
\* and without a fault nothing fails but a change of a fixed field, a rule whose
\* resources are not there, and a rule the run took away with its last resource.
THEOREM ReconcileDelivers == Spec => []ApplyDelivers
<1>1. Init => ProofInv /\ DeliverAll
  BY InitOK, DeliverInit
<1>2. ProofInv /\ DeliverAll /\ [Next]_vars => ProofInv' /\ DeliverAll'
  BY NextOK, NextDelivers
<1>3. ProofInv /\ DeliverAll => ApplyDelivers
  BY DeliversOK
<1> QED
  BY <1>1, <1>2, <1>3, PTL DEF Spec
============================================================================
