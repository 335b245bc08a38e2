----------------------------- MODULE TuiRefresh -----------------------------
(***************************************************************************)
(* The TUI's refresh worker (fetch_all in tui/mod.rs), the lists the       *)
(* reducer merges its answers into and the cache that seeds the next start.*)
(* A cycle asks for the nodes, then for all guests at once or, when that   *)
(* call fails, for each online node's own; storage comes from each online  *)
(* node.  Guests move and nodes come and go while the cycle runs.          *)
(*                                                                         *)
(* Messages that only bring numbers to the screen (node load, tasks,       *)
(* quorum, the texts of failed fetches) are left out.                      *)
(***************************************************************************)
EXTENDS TuiState, SequencesExt

CONSTANTS
    ChanCap,        \* capacity of the data channel, 32 in the code
    MaxCycles,      \* bound: refresh cycles
    MaxFaults       \* bound: moves, nodes failing or returning, lost requests

ASSUME RefreshAssumption == ChanCap \in Nat \ {0} /\ {MaxCycles, MaxFaults} \subseteq Nat

VARIABLES
    home, up,       \* the cluster: where each guest is, which nodes are online
    worker,         \* the cycle in progress
    list,           \* AppState.guests, guests_stale_nodes, storage
    saved,          \* the state cache, None before the first save
    chan,           \* the data channel to the event loop
    faults

refreshVars == <<home, up, worker, list, saved, faults>>

Entry(g, n, c) == [guest |-> g, node |-> n, cycle |-> c]
EntriesOf(n, c) == {Entry(g, n, c) : g \in {h \in Guests : home[h] = n}}

Message(kind, of) == [kind |-> kind, of |-> of]

Resting(c) ==
    [at |-> "sleep", cycle |-> c, offline |-> {}, left |-> {}, walk |-> FALSE,
     guests |-> {}, failed |-> {}, pools |-> {}, partial |-> FALSE, heard |-> {}, out |-> <<>>]

\* The list the cache of an earlier session left, or none.
RefreshInit ==
    /\ home \in [Guests -> Nodes]
    /\ up = Nodes
    /\ worker = Resting(0)
    /\ list \in {[guests |-> s, stale |-> {}, pools |-> {}, cycle |-> 0, heard |-> {}] :
                    s \in {<<>>, SetToSeq(UNION {EntriesOf(n, 0) : n \in Nodes})}}
    /\ saved = None
    /\ faults = 0

Fault == faults < MaxFaults /\ faults' = faults + 1

---------------------------------------------------------------------------
(* The cluster                                                             *)

MoveGuest(g, n) ==
    /\ Fault
    /\ home[g] # n /\ n \in up
    /\ home' = [home EXCEPT ![g] = n]
    /\ UNCHANGED <<up, worker, list, saved, chan>>

NodeTurns(n) ==
    /\ Fault
    /\ up' = IF n \in up THEN up \ {n} ELSE up \cup {n}
    /\ up' # {}
    /\ UNCHANGED <<home, worker, list, saved, chan>>

---------------------------------------------------------------------------
(* One cycle                                                               *)

Ready(stage) == worker.at = stage /\ worker.out = <<>>

ListNodes ==
    /\ Ready("sleep") /\ worker.cycle < MaxCycles
    /\ worker' = [Resting(worker.cycle + 1) EXCEPT !.at = "guests", !.left = up, !.offline = Nodes \ up]
    /\ UNCHANGED <<home, up, list, saved, chan, faults>>

NodesUnknown ==
    /\ Ready("sleep") /\ worker.cycle < MaxCycles
    /\ Fault
    /\ worker' = [Resting(worker.cycle + 1) EXCEPT !.out = <<Message("error", None)>>]
    /\ UNCHANGED <<home, up, list, saved, chan>>

\* An offline node cannot be asked: its guests are the last known ones and
\* its pools are missing.
Opened(w) == [w EXCEPT !.at = "nodes", !.failed = w.offline, !.partial = w.offline # {}]

cluster_guests ==
    /\ Ready("guests")
    /\ worker' = [Opened(worker) EXCEPT !.guests = UNION {EntriesOf(n, worker.cycle) : n \in Nodes},
                                        !.heard = worker.left]
    /\ UNCHANGED <<home, up, list, saved, chan, faults>>

ClusterUnknown ==
    /\ Ready("guests")
    /\ Fault
    /\ worker' = [Opened(worker) EXCEPT !.walk = TRUE]
    /\ UNCHANGED <<home, up, list, saved, chan>>

\* Mutant: a node whose storage cannot be read counts as complete.
AnsweredLenient(w, n, guestsOk, poolsOk) ==
    [w EXCEPT !.left = @ \ {n},
              !.guests = IF w.walk /\ guestsOk THEN @ \cup EntriesOf(n, w.cycle) ELSE @,
              !.heard = IF w.walk /\ guestsOk THEN @ \cup {n} ELSE @,
              !.failed = IF w.walk /\ ~guestsOk THEN @ \cup {n} ELSE @,
              !.pools = IF poolsOk THEN @ \cup {n} ELSE @]

\* The two requests to one node, each with its own result.
Answered(w, n, guestsOk, poolsOk) ==
    [w EXCEPT !.left = @ \ {n},
              !.guests = IF w.walk /\ guestsOk THEN @ \cup EntriesOf(n, w.cycle) ELSE @,
              !.heard = IF w.walk /\ guestsOk THEN @ \cup {n} ELSE @,
              !.failed = IF w.walk /\ ~guestsOk THEN @ \cup {n} ELSE @,
              !.pools = IF poolsOk THEN @ \cup {n} ELSE @,
              !.partial = @ \/ ~poolsOk]

AskNode(n) ==
    /\ worker.at = "nodes" /\ n \in worker.left
    /\ worker' = Answered(worker, n, n \in up, n \in up)
    /\ UNCHANGED <<home, up, list, saved, chan, faults>>

NodeFails(n) ==
    /\ worker.at = "nodes" /\ n \in worker.left
    /\ Fault
    /\ \E g, s \in BOOLEAN : ~(g /\ s) /\ worker' = Answered(worker, n, g, s)
    /\ UNCHANGED <<home, up, list, saved, chan>>

EndCycle ==
    /\ worker.at = "nodes" /\ worker.left = {}
    /\ LET w == worker
           guests == [guests |-> SetToSeq(w.guests), failed |-> w.failed, cycle |-> w.cycle, heard |-> w.heard]
           pools == [pools |-> w.pools, partial |-> w.partial]
       IN  worker' = [Resting(w.cycle) EXCEPT !.out = <<Message("guests", guests), Message("storage", pools)>>]
    /\ UNCHANGED <<home, up, list, saved, chan, faults>>

WorkerSends ==
    /\ worker.out # <<>> /\ Len(chan) < ChanCap
    /\ chan' = Append(chan, Head(worker.out))
    /\ worker' = [worker EXCEPT !.out = Tail(@)]
    /\ UNCHANGED <<home, up, list, saved, faults>>

---------------------------------------------------------------------------
(* The reducer's side                                                      *)

\* Mutant: only nodes without a known guest are marked.
GuestsLoadedUnmarked(l, m) ==
    LET known == SelectSeq(l.guests, LAMBDA e : e.node \in m.failed)
        knownNodes == {known[i].node : i \in DOMAIN known}
    IN  [l EXCEPT !.guests = SelectSeq(m.guests, LAMBDA e : e.node \notin knownNodes) \o known,
                  !.stale = m.failed \ knownNodes, !.cycle = m.cycle, !.heard = m.heard]

\* Mutant: the last-known entries come first.
GuestsLoadedKnownFirst(l, m) ==
    LET known == SelectSeq(l.guests, LAMBDA e : e.node \in m.failed)
        knownNodes == {known[i].node : i \in DOMAIN known}
    IN  [l EXCEPT !.guests = known \o SelectSeq(m.guests, LAMBDA e : e.node \notin knownNodes),
                  !.stale = m.failed, !.cycle = m.cycle, !.heard = m.heard]

\* A node that failed keeps its last-known guests, behind the new ones; what
\* the cluster says of it counts only when none are known.
GuestsLoaded(l, m) ==
    LET known == SelectSeq(l.guests, LAMBDA e : e.node \in m.failed)
        knownNodes == {known[i].node : i \in DOMAIN known}
    IN  [l EXCEPT !.guests = SelectSeq(m.guests, LAMBDA e : e.node \notin knownNodes) \o known,
                  !.stale = m.failed, !.cycle = m.cycle, !.heard = m.heard]

StorageLoaded(l, m) == [l EXCEPT !.pools = m.pools]

cycle_is_complete(l, partial) == ~partial /\ l.stale = {}

\* The cycle's last message saves it, if the write succeeds.
StorageTaken(m) ==
    /\ list' = StorageLoaded(list, m)
    /\ \/ cycle_is_complete(list, m.partial) /\ saved' = list'
       \/ UNCHANGED saved

\* state.guests.iter().find(|g| g.vmid == vmid)
Known(g) == \E i \in DOMAIN list.guests : list.guests[i].guest = g
get_node(g) ==
    LET i == CHOOSE j \in DOMAIN list.guests :
                /\ list.guests[j].guest = g
                /\ \A k \in 1..(j - 1) : list.guests[k].guest # g
    IN  list.guests[i].node

Refresh ==
    \/ \E g \in Guests, n \in Nodes : MoveGuest(g, n)
    \/ \E n \in Nodes : NodeTurns(n) \/ AskNode(n) \/ NodeFails(n)
    \/ ListNodes \/ NodesUnknown \/ cluster_guests \/ ClusterUnknown
    \/ EndCycle \/ WorkerSends

RefreshTypeOK ==
    /\ home \in [Guests -> Nodes] /\ up \subseteq Nodes
    /\ list.guests \in Seq([guest : Guests, node : Nodes, cycle : 0..MaxCycles])
    /\ list.stale \subseteq Nodes /\ list.pools \subseteq Nodes
    /\ Len(chan) <= ChanCap
=============================================================================
