---------------------------- MODULE GuestLookup ----------------------------
(***************************************************************************)
(* How a command finds the node and the kind of the guest it is for, one   *)
(* request at a time, while the cluster goes on: nodes fail and come back, *)
(* the guest migrates.  find_guest and find_guest_full (cli/common.rs) ask *)
(* the cluster for its list of guests, then where needed the node itself,  *)
(* and walk the nodes when that does not settle it; ProxmoxGateway's own   *)
(* find_guest (api/mod.rs), behind `proxxx find`, sweeps the online nodes  *)
(* first and asks the cluster when a node was offline.                     *)
(***************************************************************************)
EXTENDS Integers, FiniteSets

CONSTANTS
  Nodes,      \* the members of the cluster
  Absent,     \* where a guest that does not exist is
  MaxMoves,   \* how often the cluster changes (bound)
  MaxFaults   \* how many requests fail for no reason of the model's (bound)

ASSUME LookupAssumption ==
  /\ IsFiniteSet(Nodes) /\ Nodes # {} /\ Absent \notin Nodes
  /\ MaxMoves \in Nat /\ MaxFaults \in Nat

VARIABLES
  host,     \* the node the guest is on, or Absent
  up,       \* the nodes that answer
  kind,     \* "qemu" or "lxc"
  moves,    \* how often the cluster has changed
  faults,   \* how many requests have failed
  look      \* the lookup in progress or just done

worldvars == <<host, up, kind, moves>>

\* Exit codes of the failures a request can have (ApiError::exit_code).
Other == 1
Denied == 4
NotFound == 5
Transient == 7
Failures == {Other, Denied, NotFound, Transient}

Phases == {"idle", "resources", "confirm", "nodes", "walk", "sweep_nodes",
           "sweep", "listed", "done"}

NoLook ==
  [phase |-> "idle", full |-> FALSE, at |-> Absent, known |-> FALSE,
   left |-> {}, off |-> {}, erred |-> FALSE, typed |-> 0, code |-> 0,
   moved |-> FALSE]

LookupTypeOK ==
  /\ host \in Nodes \cup {Absent} /\ up \subseteq Nodes /\ kind \in {"qemu", "lxc"}
  /\ moves \in 0..MaxMoves /\ faults \in 0..MaxFaults
  /\ look \in [phase : Phases, full : BOOLEAN, at : Nodes \cup {Absent},
               known : BOOLEAN, left : SUBSET Nodes, off : SUBSET Nodes,
               erred : BOOLEAN, typed : {0} \cup Failures, code : {0} \cup Failures,
               moved : BOOLEAN]

(***************************************************************************)
(* The cluster.  A guest moves by itself (a migration, HA recovery of a    *)
(* failed node) or a node stops answering or answers again.                *)
(***************************************************************************)
GuestMoves ==
  /\ moves < MaxMoves /\ host # Absent
  /\ \E n \in up \ {host} : host' = n
  /\ moves' = moves + 1
  /\ look' = [look EXCEPT !.moved = TRUE]
  /\ UNCHANGED <<up, kind, faults>>

NodeTurns ==
  /\ moves < MaxMoves
  /\ \E n \in Nodes : up' = IF n \in up THEN up \ {n} ELSE up \cup {n}
  /\ moves' = moves + 1
  /\ UNCHANGED <<host, kind, faults, look>>

(***************************************************************************)
(* A request for one node's guests answers when the node is up, unless it  *)
(* fails for another reason; a node that is down answers with an error of  *)
(* any class but a refused token.                                          *)
(***************************************************************************)
Fault(c) == faults < MaxFaults /\ faults' = faults + 1 /\ c \in Failures

NodeFails(n, c) ==
  \/ n \notin up /\ c \in Failures \ {Denied} /\ UNCHANGED faults
  \/ n \in up /\ Fault(c)

NodeReplies(n) == n \in up /\ UNCHANGED faults

\* A request to the cluster as a whole; PVE never answers these with 404.
ClusterFails(c) == Fault(c) /\ c # NotFound

Found(n) == look' = [look EXCEPT !.phase = "done", !.at = n, !.code = 0]

Failed(c) == look' = [look EXCEPT !.phase = "done", !.code = c]

\* A failure to query the node the guest is known to be on is never "not
\* found" (wrap_node_query_error).
Wrap(c) == IF c = NotFound THEN Other ELSE c

(***************************************************************************)
(* find_guest_via_cluster_resources.  The list has every guest with its    *)
(* node; the status of a guest whose node does not answer is unknown, and  *)
(* so, at times, is another's.                                             *)
(***************************************************************************)
ReadResources ==
  /\ look.phase = "resources"
  /\ \/ /\ UNCHANGED faults
        /\ IF host = Absent
           THEN Failed(NotFound)
           ELSE \E unknown \in IF host \in up THEN BOOLEAN ELSE {TRUE} :
                  IF look.full \/ unknown
                  THEN look' = [look EXCEPT !.phase = "confirm", !.at = host]
                  ELSE Found(host)
     \/ \E c \in Failures :
          ClusterFails(c) /\ look' = [look EXCEPT !.phase = "nodes"]
  /\ UNCHANGED worldvars

\* The node is asked for the guest itself; when it has moved on, the walk.
Confirm ==
  /\ look.phase = "confirm"
  /\ \/ /\ NodeReplies(look.at)
        /\ IF host = look.at
           THEN Found(host)
           ELSE look' = [look EXCEPT !.phase = "nodes", !.known = TRUE]
     \/ \E c \in Failures : NodeFails(look.at, c) /\ Failed(Wrap(c))
  /\ UNCHANGED worldvars

(***************************************************************************)
(* find_guest_full_via_walk: every node, online or not; the failures are   *)
(* kept and only a walk that met none may say the guest does not exist.    *)
(***************************************************************************)
WalkNodes ==
  /\ look.phase = "nodes"
  /\ \/ UNCHANGED faults /\ look' = [look EXCEPT !.phase = "walk", !.left = Nodes]
     \/ \E c \in Failures : ClusterFails(c) /\ Failed(c)
  /\ UNCHANGED worldvars

WalkNode ==
  /\ look.phase = "walk"
  /\ \E n \in look.left :
       \/ /\ NodeReplies(n)
          /\ IF host = n THEN Found(n)
             ELSE look' = [look EXCEPT !.left = @ \ {n}]
       \/ \E c \in Failures :
            /\ NodeFails(n, c)
            /\ look' = [look EXCEPT !.left = @ \ {n}, !.erred = TRUE,
                          !.typed = IF @ = 0 /\ c # NotFound THEN c ELSE @]
  /\ UNCHANGED worldvars

\* Mutant: a walk that could not ask every node says "not found" all the same
WalkVerdictHasty == IF look.known THEN Other ELSE NotFound

WalkVerdict ==
  IF look.typed # 0 THEN look.typed
  ELSE IF look.known \/ look.erred THEN Other ELSE NotFound

WalkEnds ==
  /\ look.phase = "walk" /\ look.left = {}
  /\ Failed(WalkVerdict)
  /\ UNCHANGED <<worldvars, faults>>

(***************************************************************************)
(* ProxmoxGateway::find_guest: the nodes said to be online in turn, then   *)
(* the cluster's list when another was offline.  `find` reports a failure  *)
(* in the profile's row and exits 1.                                       *)
(***************************************************************************)
SweepNodes ==
  /\ look.phase = "sweep_nodes"
  /\ \/ /\ UNCHANGED faults
        /\ look' = [look EXCEPT !.phase = "sweep", !.left = up, !.off = Nodes \ up]
     \/ \E c \in Failures : ClusterFails(c) /\ Failed(Other)
  /\ UNCHANGED worldvars

SweepNode ==
  /\ look.phase = "sweep"
  /\ \E n \in look.left :
       \/ /\ NodeReplies(n)
          /\ IF host = n THEN Found(n)
             ELSE look' = [look EXCEPT !.left = @ \ {n}]
       \/ \E c \in Failures : NodeFails(n, c) /\ Failed(Other)
  /\ UNCHANGED worldvars

SweepEnds ==
  /\ look.phase = "sweep" /\ look.left = {}
  /\ IF look.off = {} THEN Failed(NotFound)
     ELSE look' = [look EXCEPT !.phase = "listed"]
  /\ UNCHANGED <<worldvars, faults>>

SweepListed ==
  /\ look.phase = "listed"
  /\ \/ UNCHANGED faults /\ Failed(IF host = Absent THEN NotFound ELSE Other)
     \/ \E c \in Failures : ClusterFails(c) /\ Failed(Other)
  /\ UNCHANGED worldvars

LookupNext ==
  \/ ReadResources \/ Confirm \/ WalkNodes \/ WalkNode \/ WalkEnds
  \/ SweepNodes \/ SweepNode \/ SweepEnds \/ SweepListed

Looking == look.phase \notin {"idle", "done"}

(***************************************************************************)
(* "Not found" (exit 5, which a teardown script reads as "already gone")   *)
(* is only said of a guest that does not exist, however many nodes were    *)
(* down or failed to answer, unless the guest moved while it was looked    *)
(* for.                                                                    *)
(***************************************************************************)
NotFoundIsTrue ==
  look.phase = "done" /\ look.code = NotFound /\ ~look.moved => host = Absent

\* Why it holds: a guest that has not moved is where nobody has looked yet.
LookupInv ==
  /\ LookupTypeOK /\ NotFoundIsTrue
  /\ look.typed # NotFound
  /\ ~look.moved =>
       /\ look.phase = "walk" /\ ~look.erred => host \in look.left \cup {Absent}
       /\ look.phase = "sweep" => host \in look.left \cup look.off \cup {Absent}
=============================================================================
