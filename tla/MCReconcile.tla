---------------------------- MODULE MCReconcile ----------------------------
(***************************************************************************)
(* Instances of Reconcile.  A world has one identity in play, or two whose *)
(* families depend on each other or come after one another.                *)
(***************************************************************************)
EXTENDS Reconcile

CONSTANTS n1, n2

MCNames == {n1, n2}
MCObj == {"p", "a", "s", "b", "o", "l", "i", "g", "m", "r", "q", "u", "c", "d"}
MCFamilyOf ==
    ("p" :> "pool") @@ ("a" :> "acl") @@ ("s" :> "storage") @@ ("b" :> "backup_job")
    @@ ("o" :> "firewall_options") @@ ("l" :> "firewall_alias") @@ ("i" :> "firewall_ipset")
    @@ ("g" :> "firewall_group") @@ ("m" :> "notification_matcher") @@ ("r" :> "ha_resource")
    @@ ("q" :> "ha_resource")
    @@ ("u" :> "ha_rule") @@ ("c" :> "mapping_pci") @@ ("d" :> "mapping_usb")
MCSid == [x \in MCObj |-> IF x = "q" THEN n2 ELSE n1]

Val(fixed, note, flag, p1, p2) ==
    [fixed |-> fixed, note |-> note, flag |-> flag, order |-> 0, parts |-> (n1 :> p1) @@ (n2 :> p2)]

\* The values of one object, by family: what differs there and nothing else.
Live ==
    [x \in MCObj |->
        CASE x = "p" -> {Val(0, 0, 0, p, q) : p \in 0..1, q \in 0..1} \cup {Val(0, 1, 0, 1, 0)}
          [] x = "a" -> {Val(0, 0, f, 0, 0) : f \in 0..1}
          [] x = "s" -> {Val(0, n, f, 0, 0) : n \in 0..1, f \in 0..1} \cup {Val(1, 0, 0, 0, 0)}
          [] x \in {"b", "l"} -> {Val(0, n, f, 0, 0) : n \in 0..1, f \in 0..1}
          [] x = "o" -> {Val(0, 0, f, 0, 0) : f \in 0..1}
          [] x = "i" -> {Val(0, 0, 0, p, 0) : p \in 0..2} \cup {Val(0, 1, 0, 1, 1), Val(0, 1, 0, 0, 1)}
          [] x = "g" -> {Val(0, n, 0, 0, 0) : n \in 0..1}
          [] x = "m" -> {Val(0, n, f, n, 0) : n \in 0..1, f \in 0..1}
          [] x \in {"r", "q"} -> {Val(0, n, f, 0, 0) : n \in 0..1, f \in 0..1}
          [] x = "u" -> {Val(1, 0, f, 1, 0) : f \in 0..1} \cup {Val(0, 0, 0, 1, 0), Val(1, 1, 0, 1, 0)}
          [] x \in {"c", "d"} -> {Val(0, n, 0, 1, p) : n \in 0..1, p \in 0..1}]

Unsorted(v) == [v EXCEPT !.order = 1]

Declared(x) ==
    {Absent} \cup (CASE x = "o" -> Live[x] \cup {Val(0, 0, Unset, 0, 0)}
                      [] x = "s" -> Live[x] \cup {Unsorted(Val(0, 1, 0, 0, 0))}
                      [] OTHER -> Live[x])
Present(x) == IF x = "o" THEN Live[x] ELSE Live[x] \cup {Absent}

Everything == {MCFamilyOf[x] : x \in MCObj}

\* The worlds with one object.
Single(xs) ==
    UNION {{[decl |-> x :> d, managed |-> Everything, live |-> x :> l] :
               d \in Declared(x), l \in Present(x)} : x \in xs}

Pair(x, ds, ls, y, es, ms) ==
    {[decl |-> (x :> d) @@ (y :> e), managed |-> Everything, live |-> (x :> l) @@ (y :> m)] :
        d \in ds, l \in ls, e \in es, m \in ms}

\* An HA resource and a rule that refers to it, in every consistent mixture.
HaPair ==
    LET res == {Absent, Val(0, 0, 1, 0, 0), Val(0, 1, 1, 0, 0)}
        rule == {Absent, Val(1, 0, 0, 1, 0), Val(1, 1, 0, 1, 0)}
    IN  {w \in Pair("r", res, res, "u", rule, rule) :
            /\ w.decl["r"] = Absent => w.decl["u"] = Absent
            /\ w.live["r"] = Absent => w.live["u"] = Absent}

\* A rule that is to have another resource, while the one it has is to go.
HaSwap ==
    LET res == Val(0, 0, 1, 0, 0)
    IN  {[decl |-> ("r" :> Absent) @@ ("q" :> res) @@ ("u" :> Val(1, 0, 0, 0, 1)), managed |-> Everything,
          live |-> ("r" :> res) @@ ("q" :> res) @@ ("u" :> Val(1, 0, 0, p, q))] :
            p \in 0..1, q \in 0..1}

FamilyWorlds == Single(MCObj \ {"u", "q"}) \cup HaPair \cup HaSwap
FamilyEdits == [x \in MCObj |-> {}]
FamilyConfigs ==
    {[on |-> TRUE, prune |-> TRUE, cap |-> c, allowed |-> {}] : c \in {2}}
FamilyOptions ==
    {[dry |-> FALSE, prune |-> TRUE, cont |-> FALSE, force |-> TRUE, asks |-> FALSE]}
NoDocuments == {}

\* A pool and an administrator's grant that are edited, pushed and converged
\* by the daemon and an operator at once.
RacePool == {Val(0, 0, 0, 0, 0), Val(0, 0, 0, 1, 0)}
PoolAndGrant ==
    {w \in Pair("p", {Absent, Val(0, 0, 0, 0, 1)}, RacePool, "a", {Absent, Val(0, 0, 1, 0, 0)}, {Val(0, 0, 0, 0, 0)}) :
        (w.decl["p"] = Absent) = (w.decl["a"] = Absent)}

\* A rule that is to be changed and whose resource is to go before it.
HaMove == Pair("r", {Absent}, {Val(0, 0, 1, 0, 0)}, "u", {Val(1, 1, 0, 1, 0)}, {Val(1, 0, 0, 1, 0)})

RaceWorlds == PoolAndGrant \cup HaMove
RaceDocuments ==
    {[decl |-> w.decl, managed |-> {"pool"}] : w \in PoolAndGrant}
RaceEdits == [x \in MCObj |-> CASE x = "p" -> {Absent, Val(0, 0, 0, 1, 1)} [] x = "a" -> {Absent} [] OTHER -> {}]
RaceConfigs ==
    {[on |-> TRUE, prune |-> TRUE, cap |-> 1, allowed |-> {}],
     [on |-> TRUE, prune |-> TRUE, cap |-> NoCap, allowed |-> {"pool"}], NoCfg}
RaceOptions ==
    {[dry |-> d, prune |-> TRUE, cont |-> ~d, force |-> ~d, asks |-> ~d] : d \in BOOLEAN}

===========================================================================
