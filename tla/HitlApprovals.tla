--------------------------- MODULE HitlApprovals ---------------------------
(***************************************************************************)
(* Human-in-the-loop approvals: the senders (CLI batch operations and MCP  *)
(* destructive tools), the shared SQLite store hitl_pending.db, Telegram   *)
(* and the `hitl serve` daemons that execute what was approved.            *)
(*                                                                         *)
(* A request is inserted and sent by one sender.  Approvers press buttons; *)
(* every press becomes an update that each daemon sees at least until some *)
(* daemon's later getUpdates confirms it.  A daemon evaluates an update in *)
(* one BEGIN IMMEDIATE transaction (process_callback), and when that says  *)
(* Approved it checks the guest, issues the Proxmox call, records the      *)
(* outcome and edits the Telegram message, one await at a time.  Daemons   *)
(* crash and restart anywhere in between; only the store, Telegram and the *)
(* cluster survive.                                                        *)
(***************************************************************************)
EXTENDS Integers, Sequences, FiniteSets

CONSTANTS
    Requests,    \* 16-hex-digit request ids, one per gated operation
    Op,          \* what each request asks for, see OpKinds
    Users,       \* Telegram users who can see the chat
    Allowed,     \* [telegram].allowed_approvers
    Require,     \* policy.require of each request
    Places,      \* (node, guest type) pairs a guest can be bound to
    Daemons,     \* processes that run hitl_serve against one store and bot
    Ttl,         \* DEFAULT_HITL_TTL_SECS
    Retention,   \* RETENTION_SECS
    LostReplies, \* TRUE: sendMessage may deliver although the sender sees an error
    StoreFaults, \* TRUE: SQLite may refuse a write (busy past busy_timeout, disk full)
    MaxTime,     \* bound on the clock
    MaxPresses,  \* bound on the updates Telegram ever queues
    MaxCrashes   \* bound on daemon crashes

\* A request by the sender it comes through, whether it acts on an existing guest
\* (a create does not), whether it needs a free VMID (a create and a clone do),
\* whether its verb has a risk preflight, and whether an ApprovedOp decodes from
\* its (action, params).
OpKinds == [via : {"cli", "mcp"}, existing : BOOLEAN, target : BOOLEAN,
            preflight : BOOLEAN, decodes : BOOLEAN]

ASSUME HitlAssumption ==
    /\ Op \in [Requests -> OpKinds]
    /\ Allowed \subseteq Users
    /\ Require \in [Requests -> Nat]
    /\ Ttl \in Nat /\ Retention \in Nat
    /\ LostReplies \in BOOLEAN /\ StoreFaults \in BOOLEAN
    /\ MaxTime \in Nat /\ MaxPresses \in Nat /\ MaxCrashes \in Nat
    /\ "nowhere" \notin Places

VARIABLES
    now,        \* wall clock, in units of the constants above
    rows,       \* table hitl_pending_requests; status "none" is an absent row
    sender,     \* per request: control point and resolved binding of its sender
    chat,       \* per request: its Telegram message and whether it has buttons
    updates,    \* every callback_query Telegram queued, in update_id order
    confirmed,  \* updates[1..confirmed] are confirmed and never returned again
    daemon,     \* per daemon: control point and local variables
    guest,      \* the cluster: the request's guest and its target VMID
    grant,      \* history: the approvers when process_callback returned Approved
    calls,      \* history: Proxmox mutations issued for a request
    crashes     \* number of daemon crashes so far

vars == <<now, rows, sender, chat, updates, confirmed, daemon, guest, grant,
          calls, crashes>>

(***************************************************************************)
(* State                                                                   *)
(***************************************************************************)

Settled == {"denied", "expired", "executed", "failed"}

Statuses == {"pending", "approved"} \cup Settled

\* Where a guest can be found: on a node with a guest type, or nowhere.
Bindings == Places \cup {"nowhere"}

NoRow == [status |-> "none", approvers |-> {}, issued |-> 0, expires |-> 0,
          node |-> "nowhere"]

\* The guest a request acts on, its risk now, and whether the VMID the request
\* wants for a new guest is in use.
Guests == [at : Bindings, severe : BOOLEAN, taken : BOOLEAN]

Rows == [status : Statuses \cup {"none"}, approvers : SUBSET Users,
         issued : Nat, expires : Nat, node : Bindings]

SenderPoints == {"idle", "resolved", "sending", "unsent", "pending_hitl",
                 "error", "dead"}

Updates == [req : Requests, decision : {"approve", "deny"}, user : Users,
            genuine : BOOLEAN]

\* The control points of a daemon between process_callback returning Approved
\* and the outcome being recorded: the daemon owns the request there.
OwnPoints == {"check", "execute", "inflight", "record"}

DaemonPoints == {"down", "poll", "handle", "edit"} \cup OwnPoints

\* The local state of a daemon: offset counts the updates behind it, next..last
\* is what is left of the batch it fetched, req the request it is working on.
Locals == [pc : DaemonPoints, offset : Nat, next : Nat, last : Nat,
           req : Requests \cup {"none"}, bound : Bindings, ok : BOOLEAN]

Senders == [pc : SenderPoints, bound : Bindings]

\* A daemon as it starts: offset 0, nothing fetched.
Stopped == [pc |-> "down", offset |-> 0, next |-> 1, last |-> 0,
            req |-> "none", bound |-> "nowhere", ok |-> FALSE]

TypeOK ==
    /\ now \in Nat
    /\ rows \in [Requests -> Rows]
    /\ sender \in [Requests -> Senders]
    /\ chat \in [Requests -> {"none", "buttons", "cleared"}]
    /\ updates \in Seq(Updates)
    /\ confirmed \in Nat
    /\ daemon \in [Daemons -> Locals]
    /\ guest \in [Requests -> Guests]
    /\ grant \in [Requests -> SUBSET Users]
    /\ calls \in [Requests -> Nat]
    /\ crashes \in Nat

Init ==
    /\ now = 0
    /\ rows = [r \in Requests |-> NoRow]
    /\ sender = [r \in Requests |-> [pc |-> "idle", bound |-> "nowhere"]]
    /\ chat = [r \in Requests |-> "none"]
    /\ updates = <<>>
    /\ confirmed = 0
    /\ daemon = [d \in Daemons |-> Stopped]
    /\ guest \in [Requests -> {g \in Guests : ~g.severe /\ ~g.taken}]
    /\ grant = [r \in Requests |-> {}]
    /\ calls = [r \in Requests |-> 0]
    /\ crashes = 0

(***************************************************************************)
(* The store, hitl/pending.rs                                              *)
(***************************************************************************)

Need(r) == IF Require[r] > 1 THEN Require[r] ELSE 1

\* open_at_with_now: settled rows issued before the retention window go away.
\* Rows still pending or approved are kept however old they are.
Prune(table) ==
    [r \in Requests |->
        IF table[r].status \in Settled /\ table[r].issued < now - Retention
        THEN NoRow ELSE table[r]]

\* mark_executed / mark_failed: UPDATE ... WHERE id = ?, with no condition on
\* the status the row has; no row is no error.
Mark(r, status) ==
    IF rows[r].status = "none" THEN rows
    ELSE [rows EXCEPT ![r].status = status]

\* The daemon ignores the result of its marks (`let _ = pending.mark_...`).
MarkBestEffort(r, status) ==
    \/ rows' = Mark(r, status)
    \/ StoreFaults /\ rows' = rows

\* Whether a request acts on an existing guest, and whether it needs a free VMID.
existing_guest_vmid(r) == Op[r].existing

free_target_vmid(r) == Op[r].target

(***************************************************************************)
(* Senders: the policy path of the CLI batch and of the MCP dispatch       *)
(***************************************************************************)

\* A guest found for the request is what the approver will be asked about; a
\* create carries its node in its arguments.  A severe risk ends an MCP request
\* here; the CLI goes on under --allow-risk.
Resolve(r) ==
    /\ sender[r].pc = "idle"
    /\ existing_guest_vmid(r) => guest[r].at \in Places
    /\ Op[r].via = "mcp" /\ Op[r].preflight => ~guest[r].severe
    /\ sender' = [sender EXCEPT ![r] =
            [pc |-> "resolved",
             bound |-> IF existing_guest_vmid(r) THEN guest[r].at ELSE "nowhere"]]
    /\ UNCHANGED <<now, rows, chat, updates, confirmed, daemon, guest, grant,
                   calls, crashes>>

\* PendingStore::open_default then insert_at.
Insert(r) ==
    /\ sender[r].pc = "resolved"
    /\ rows' = [Prune(rows) EXCEPT ![r] =
            [status |-> "pending", approvers |-> {}, issued |-> now,
             expires |-> now + Ttl, node |-> sender[r].bound]]
    /\ sender' = [sender EXCEPT ![r].pc = "sending"]
    /\ UNCHANGED <<now, chat, updates, confirmed, daemon, guest, grant, calls,
                   crashes>>

\* request_approval returned Ok: the caller is told the request is pending.
SendOk(r) ==
    /\ sender[r].pc = "sending"
    /\ chat' = [chat EXCEPT ![r] = "buttons"]
    /\ sender' = [sender EXCEPT ![r].pc = "pending_hitl"]
    /\ UNCHANGED <<now, rows, updates, confirmed, daemon, guest, grant, calls,
                   crashes>>

\* request_approval returned Err: Telegram refused the message, was not
\* reached, or delivered it and the reply was lost or unreadable.
SendErr(r) ==
    /\ sender[r].pc = "sending"
    /\ \/ UNCHANGED chat
       \/ LostReplies /\ chat' = [chat EXCEPT ![r] = "buttons"]
    /\ sender' = [sender EXCEPT ![r].pc = "unsent"]
    /\ UNCHANGED <<now, rows, updates, confirmed, daemon, guest, grant, calls,
                   crashes>>

\* mark_failed by the sender; its caller is told the operation was not run.
CloseUnsent(r) ==
    /\ sender[r].pc = "unsent"
    /\ rows' = Mark(r, "failed")
    /\ sender' = [sender EXCEPT ![r].pc = "error"]
    /\ UNCHANGED <<now, chat, updates, confirmed, daemon, guest, grant, calls,
                   crashes>>

\* The sending process ends early: killed, or a store error it reports as is.
SenderDies(r) ==
    /\ sender[r].pc \in {"resolved", "sending", "unsent"}
    /\ sender' = [sender EXCEPT ![r].pc = "dead"]
    /\ UNCHANGED <<now, rows, chat, updates, confirmed, daemon, guest, grant,
                   calls, crashes>>

(***************************************************************************)
(* Telegram and the cluster (external)                                     *)
(***************************************************************************)

\* Anyone who sees the chat presses a button, more than once if he likes; an
\* update that does not stem from a button (no tag, bad tag, other chat) may
\* name any request.
Press(r, u, dec, genuine) ==
    /\ Len(updates) < MaxPresses
    /\ genuine => chat[r] = "buttons"
    /\ updates' = Append(updates, [req |-> r, decision |-> dec, user |-> u,
                                   genuine |-> genuine])
    /\ UNCHANGED <<now, rows, sender, chat, confirmed, daemon, guest, grant,
                   calls, crashes>>

\* Others move, destroy, lock or unlock the guest, or take the target VMID.
GuestChanges(r) ==
    /\ \E g \in Guests :
          /\ g # guest[r]
          /\ g.at = "nowhere" => ~g.severe
          /\ g.taken => free_target_vmid(r)
          /\ guest' = [guest EXCEPT ![r] = g]
    /\ UNCHANGED <<now, rows, sender, chat, updates, confirmed, daemon, grant,
                   calls, crashes>>

Tick ==
    /\ now < MaxTime
    /\ now' = now + 1
    /\ UNCHANGED <<rows, sender, chat, updates, confirmed, daemon, guest, grant,
                   calls, crashes>>

(***************************************************************************)
(* The daemon: hitl_serve and handle_callback_update                       *)
(***************************************************************************)

MaxOf(a, b) == IF a > b THEN a ELSE b

\* hitl_serve starts: it opens (and so prunes) the store; its offset is 0.
Start(d) ==
    /\ daemon[d].pc = "down"
    /\ rows' = Prune(rows)
    /\ daemon' = [daemon EXCEPT ![d].pc = "poll"]
    /\ UNCHANGED <<now, sender, chat, updates, confirmed, guest, grant, calls,
                   crashes>>

\* The process is killed, panics or is aborted: its local state is gone.
Crash(d) ==
    /\ daemon[d].pc # "down"
    /\ crashes < MaxCrashes
    /\ crashes' = crashes + 1
    /\ daemon' = [daemon EXCEPT ![d] = Stopped]
    /\ UNCHANGED <<now, rows, sender, chat, updates, confirmed, guest, grant,
                   calls>>

\* getUpdates(offset) confirms what lies below the offset ...
ConfirmedBy(d) == MaxOf(confirmed, daemon[d].offset)

\* Mutant: the batch is confirmed when it is fetched, not once it is handled.
PollConfirmsBatch(d) ==
    /\ daemon[d].pc = "poll"
    /\ Len(updates) > ConfirmedBy(d)
    /\ confirmed' = Len(updates)
    /\ daemon' = [daemon EXCEPT ![d] =
            [@ EXCEPT !.pc = "handle", !.next = ConfirmedBy(d) + 1,
                      !.last = Len(updates)]]
    /\ UNCHANGED <<now, rows, sender, chat, updates, guest, grant, calls,
                   crashes>>

\* ... and returns the rest.
Poll(d) ==
    /\ daemon[d].pc = "poll"
    /\ Len(updates) > ConfirmedBy(d)
    /\ confirmed' = ConfirmedBy(d)
    /\ daemon' = [daemon EXCEPT ![d] =
            [@ EXCEPT !.pc = "handle", !.next = ConfirmedBy(d) + 1,
                      !.last = Len(updates)]]
    /\ UNCHANGED <<now, rows, sender, chat, updates, guest, grant, calls,
                   crashes>>

\* getUpdates reached Telegram and its answer was empty or lost.
PollNothing(d) ==
    /\ daemon[d].pc = "poll"
    /\ confirmed' = ConfirmedBy(d)
    /\ UNCHANGED <<now, rows, sender, chat, updates, daemon, guest, grant,
                   calls, crashes>>

\* The local state once the current update is done with.
NextUpdate(s) ==
    [pc |-> IF s.next < s.last THEN "handle" ELSE "poll",
     offset |-> MaxOf(s.offset, s.next), next |-> s.next + 1, last |-> s.last,
     req |-> "none", bound |-> "nowhere", ok |-> FALSE]

\* The local state when the message of the current update is to be edited.
EditNext(s, r) == [s EXCEPT !.pc = "edit", !.req = r]

\* Mutant: the allowlist is not consulted.
VerifiedAnyone(u) == u.genuine

\* verify_callback: tag, chat and allowlist.
Verified(u) == u.genuine /\ u.user \in Allowed

Handling(d) == daemon[d].pc = "handle"

Current(d) == updates[daemon[d].next]

CurrentRow(d) == rows[Current(d).req]

\* Mutant: the deadline is applied whatever the status.
TimedOutAlways(row) == row.status # "none" /\ now >= row.expires

TimedOut(row) == row.status = "pending" /\ now >= row.expires

\* The callback is refused, names no row, or finds its row already handled.
IgnoreCallback(d) ==
    /\ Handling(d)
    /\ \/ ~Verified(Current(d))
       \/ CurrentRow(d).status \in {"none", "approved", "denied", "executed", "failed"}
    /\ daemon' = [daemon EXCEPT ![d] = NextUpdate(@)]
    /\ UNCHANGED <<now, rows, sender, chat, updates, confirmed, guest, grant,
                   calls, crashes>>

\* process_callback failed: the error is dropped and the offset has moved on.
DropCallback(d) ==
    /\ StoreFaults
    /\ Handling(d) /\ Verified(Current(d))
    /\ daemon' = [daemon EXCEPT ![d] = NextUpdate(@)]
    /\ UNCHANGED <<now, rows, sender, chat, updates, confirmed, guest, grant,
                   calls, crashes>>

ExpireRequest(d) ==
    /\ Handling(d) /\ Verified(Current(d))
    /\ CurrentRow(d).status = "expired" \/ TimedOut(CurrentRow(d))
    /\ rows' = [rows EXCEPT ![Current(d).req].status = "expired"]
    /\ daemon' = [daemon EXCEPT ![d] = EditNext(@, Current(d).req)]
    /\ UNCHANGED <<now, sender, chat, updates, confirmed, guest, grant, calls,
                   crashes>>

\* Mutant: a row whose operation is in flight can be decided again.
DecidingApproved(d) ==
    /\ Handling(d) /\ Verified(Current(d))
    /\ CurrentRow(d).status \in {"pending", "approved"}
    /\ ~TimedOut(CurrentRow(d))

\* The callback finds its row pending and in time.
Deciding(d) ==
    /\ Handling(d) /\ Verified(Current(d))
    /\ CurrentRow(d).status = "pending" /\ ~TimedOut(CurrentRow(d))

DenyRequest(d) ==
    /\ Deciding(d) /\ Current(d).decision = "deny"
    /\ rows' = [rows EXCEPT ![Current(d).req].status = "denied"]
    /\ daemon' = [daemon EXCEPT ![d] = EditNext(@, Current(d).req)]
    /\ UNCHANGED <<now, sender, chat, updates, confirmed, guest, grant, calls,
                   crashes>>

\* The approvers of the row with the user of this callback among them.
VotesWith(d) == CurrentRow(d).approvers \cup {Current(d).user}

\* Mutant: presses are counted, not people.
QuorumCountsPresses(d) ==
    Cardinality(CurrentRow(d).approvers) + 1 >= Need(Current(d).req)

QuorumMet(d) == Cardinality(VotesWith(d)) >= Need(Current(d).req)

AwaitApprovals(d) ==
    /\ Deciding(d) /\ Current(d).decision = "approve"
    /\ ~QuorumMet(d)
    /\ rows' = [rows EXCEPT ![Current(d).req].approvers = VotesWith(d)]
    /\ daemon' = [daemon EXCEPT ![d] = EditNext(@, Current(d).req)]
    /\ UNCHANGED <<now, sender, chat, updates, confirmed, guest, grant, calls,
                   crashes>>

ApproveRequest(d) ==
    /\ Deciding(d) /\ Current(d).decision = "approve"
    /\ QuorumMet(d)
    /\ rows' = [rows EXCEPT ![Current(d).req] =
            [@ EXCEPT !.approvers = VotesWith(d), !.status = "approved"]]
    /\ grant' = [grant EXCEPT ![Current(d).req] = VotesWith(d)]
    /\ daemon' = [daemon EXCEPT ![d] =
            [@ EXCEPT !.pc = "check", !.req = Current(d).req,
                      !.bound = CurrentRow(d).node]]
    /\ UNCHANGED <<now, sender, chat, updates, confirmed, guest, calls, crashes>>

\* Decode, binding and risk preflight of the approved request.
ChecksPass(d) ==
    LET r == daemon[d].req IN
    /\ Op[r].decodes
    /\ existing_guest_vmid(r) => guest[r].at = daemon[d].bound
    /\ existing_guest_vmid(r) /\ Op[r].preflight => ~guest[r].severe
    /\ free_target_vmid(r) => ~guest[r].taken

CheckPasses(d) ==
    /\ daemon[d].pc = "check"
    /\ ChecksPass(d)
    /\ daemon' = [daemon EXCEPT ![d].pc = "execute"]
    /\ UNCHANGED <<now, rows, sender, chat, updates, confirmed, guest, grant,
                   calls, crashes>>

\* Mutant: the refusal is shown but not recorded.
CheckRefusesUnmarked(d) ==
    /\ daemon[d].pc = "check"
    /\ ~ChecksPass(d)
    /\ daemon' = [daemon EXCEPT ![d].pc = "edit"]
    /\ UNCHANGED <<now, rows, sender, chat, updates, confirmed, guest, grant,
                   calls, crashes>>

\* fail_before_exec: record the refusal, then answer and edit.
CheckRefuses(d) ==
    /\ daemon[d].pc = "check"
    /\ ~ChecksPass(d)
    /\ MarkBestEffort(daemon[d].req, "failed")
    /\ daemon' = [daemon EXCEPT ![d].pc = "edit"]
    /\ UNCHANGED <<now, sender, chat, updates, confirmed, guest, grant, calls,
                   crashes>>

\* Mutant: the lookup error is returned before the row is marked.
LookupFailsUnmarked(d) ==
    /\ daemon[d].pc = "check"
    /\ Op[daemon[d].req].decodes
    /\ daemon' = [daemon EXCEPT ![d] = NextUpdate(@)]
    /\ UNCHANGED <<now, rows, sender, chat, updates, confirmed, guest, grant,
                   calls, crashes>>

\* find_guest failed: the row is marked and the handler returns the error,
\* without touching the message.
LookupFails(d) ==
    /\ daemon[d].pc = "check"
    /\ Op[daemon[d].req].decodes
    /\ MarkBestEffort(daemon[d].req, "failed")
    /\ daemon' = [daemon EXCEPT ![d] = NextUpdate(@)]
    /\ UNCHANGED <<now, sender, chat, updates, confirmed, guest, grant, calls,
                   crashes>>

\* execute_approved_op sends its Proxmox request.
Issue(d) ==
    /\ daemon[d].pc = "execute"
    /\ calls' = [calls EXCEPT ![daemon[d].req] = @ + 1]
    /\ daemon' = [daemon EXCEPT ![d].pc = "inflight"]
    /\ UNCHANGED <<now, rows, sender, chat, updates, confirmed, guest, grant,
                   crashes>>

\* The call takes more than a second: the message says so, without buttons.
ShowExecuting(d) ==
    /\ daemon[d].pc = "inflight"
    /\ chat' = [chat EXCEPT ![daemon[d].req] = "cleared"]
    /\ UNCHANGED <<now, rows, sender, updates, confirmed, daemon, guest, grant,
                   calls, crashes>>

\* Proxmox answers with a task id or an error, or the answer is lost.
Return(d) ==
    /\ daemon[d].pc = "inflight"
    /\ \E ok \in BOOLEAN :
          daemon' = [daemon EXCEPT ![d] = [@ EXCEPT !.pc = "record", !.ok = ok]]
    /\ UNCHANGED <<now, rows, sender, chat, updates, confirmed, guest, grant,
                   calls, crashes>>

Record(d) ==
    /\ daemon[d].pc = "record"
    /\ MarkBestEffort(daemon[d].req, IF daemon[d].ok THEN "executed" ELSE "failed")
    /\ daemon' = [daemon EXCEPT ![d].pc = "edit"]
    /\ UNCHANGED <<now, sender, chat, updates, confirmed, guest, grant, calls,
                   crashes>>

\* edit_message_text: every edit sends an empty inline keyboard; a failed edit
\* is ignored.
EditMessage(d) ==
    /\ daemon[d].pc = "edit"
    /\ chat' \in {chat, [chat EXCEPT ![daemon[d].req] = "cleared"]}
    /\ daemon' = [daemon EXCEPT ![d] = NextUpdate(@)]
    /\ UNCHANGED <<now, rows, sender, updates, confirmed, guest, grant, calls,
                   crashes>>

(***************************************************************************)
(* Specification                                                           *)
(***************************************************************************)

Send(r) == Resolve(r) \/ Insert(r) \/ SendOk(r) \/ SendErr(r) \/ CloseUnsent(r)
           \/ SenderDies(r)

Evaluate(d) == IgnoreCallback(d) \/ DropCallback(d) \/ ExpireRequest(d)
               \/ DenyRequest(d) \/ AwaitApprovals(d) \/ ApproveRequest(d)

ExecuteApproved(d) == CheckPasses(d) \/ CheckRefuses(d) \/ LookupFails(d)
                      \/ Issue(d) \/ Return(d) \/ Record(d) \/ EditMessage(d)

Serve(d) == Start(d) \/ Poll(d) \/ Evaluate(d) \/ ExecuteApproved(d)

Next ==
    \/ Tick
    \/ \E r \in Requests : Send(r) \/ GuestChanges(r)
    \/ \E r \in Requests, u \in Users, dec \in {"approve", "deny"},
          genuine \in BOOLEAN : Press(r, u, dec, genuine)
    \/ \E d \in Daemons :
          Serve(d) \/ PollNothing(d) \/ ShowExecuting(d) \/ Crash(d)

Spec == Init /\ [][Next]_vars

\* A supervised daemon keeps running its loop (systemd restarts it, Telegram
\* and Proxmox answer in the end).  Nothing is assumed of senders or humans.
Fairness == \A d \in Daemons : WF_vars(Serve(d))

FairSpec == Spec /\ Fairness

(***************************************************************************)
(* Properties                                                              *)
(***************************************************************************)

\* The daemons between process_callback's Approved and the recorded outcome.
Owners(r) == {d \in Daemons : daemon[d].pc \in OwnPoints /\ daemon[d].req = r}

\* An approved operation reaches Proxmox at most once, whatever is redelivered
\* to whichever daemon, and whoever crashes between process_callback and
\* mark_executed.
AtMostOneCall == \A r \in Requests : calls[r] <= 1

\* handle_callback_update acts only on a quorum: before a request's Proxmox call
\* that many different members of allowed_approvers pressed its own Approve
\* button.
CallNeedsQuorum ==
    \A r \in Requests : calls[r] > 0 =>
        /\ Cardinality(grant[r]) >= Need(r)
        /\ \A u \in grant[r] :
              /\ u \in Allowed
              /\ \E i \in 1..Len(updates) :
                    updates[i] = [req |-> r, decision |-> "approve", user |-> u,
                                  genuine |-> TRUE]

\* The status column is truthful about Proxmox: nothing ran and nothing is about
\* to run for a pending, denied or expired row; exactly one call was made for an
\* executed one.
StatusTellsOutcome ==
    \A r \in Requests :
        /\ rows[r].status \in {"pending", "denied", "expired"} =>
              calls[r] = 0 /\ Owners(r) = {}
        /\ rows[r].status = "executed" => calls[r] = 1 /\ Owners(r) = {}

\* RequestStatus::Approved is "execution in flight": as long as no daemon died
\* and the store takes its writes, an approved row has a daemon working on it.
ApprovedIsInFlight ==
    \A r \in Requests :
        rows[r].status = "approved" /\ crashes = 0 /\ ~StoreFaults =>
            Owners(r) # {}

\* The contract's view of a request: its row while there is one to decide, the
\* grant once process_callback has returned Approved.
Undecided(r) == sender[r].pc \in {"idle", "resolved"} \/ rows[r].status = "pending"

AbsVerdict ==
    [r \in Requests |-> IF grant[r] # {} THEN "granted"
                        ELSE IF Undecided(r) THEN "open" ELSE "refused"]

AbsVotes ==
    [r \in Requests |-> IF grant[r] # {} THEN grant[r]
                        ELSE IF Undecided(r) THEN rows[r].approvers ELSE {}]

Contract == INSTANCE ApprovalContract
    WITH Quorum <- [r \in Requests |-> {v \in SUBSET Users : Cardinality(v) >= Need(r)}],
         verdict <- AbsVerdict, votes <- AbsVotes,
         performed <- [r \in Requests |-> calls[r] > 0]

\* The store, the senders and any number of crashing daemons together keep the
\* approval contract: every step is a vote, a refusal, the one performance, or
\* invisible.
KeepsContract == Contract!Spec

\* The members of allowed_approvers who pressed a request's own Approve button.
Approvals(r) ==
    {u \in Allowed : \E i \in 1..Len(updates) :
        updates[i] = [req |-> r, decision |-> "approve", user |-> u,
                      genuine |-> TRUE]}

\* A crash loses no vote: once a quorum has pressed Approve the request stops
\* being pending, because an update is confirmed to Telegram only by a poll after
\* the transaction that recorded it.
QuorumDecides ==
    \A r \in Requests :
        Cardinality(Approvals(r)) >= Need(r) ~> rows[r].status # "pending"

\* An approved operation gets its outcome recorded, unless a daemon dies with it.
ApprovedSettles ==
    \A r \in Requests :
        rows[r].status = "approved" ~>
            rows[r].status \in {"executed", "failed"} \/ crashes > 0

(***************************************************************************)
(* The inductive invariant behind the safety properties                    *)
(***************************************************************************)

Owns(d, r) == daemon[d].pc \in OwnPoints /\ daemon[d].req = r

\* A daemon at work on an update has one that Telegram queued, and a request
\* from its acceptance to the edit of its message.
Position ==
    \A d \in Daemons :
        /\ daemon[d].pc \in {"handle", "edit"} \cup OwnPoints =>
              /\ 1 <= daemon[d].next /\ daemon[d].next <= daemon[d].last
              /\ daemon[d].last <= Len(updates)
        /\ daemon[d].pc \in {"edit"} \cup OwnPoints => daemon[d].req \in Requests

\* A request has an owner only after its grant, never two, and its call is
\* issued exactly when the owner passes from "execute" to "inflight".
Ownership ==
    \A r \in Requests :
        /\ sender[r].pc \in {"idle", "resolved"} =>
              grant[r] = {} /\ rows[r].status = "none"
        /\ rows[r].status \in {"pending", "denied", "expired"} => grant[r] = {}
        /\ grant[r] = {} => calls[r] = 0 /\ \A d \in Daemons : ~Owns(d, r)
        /\ calls[r] <= 1
        /\ rows[r].status = "executed" =>
              calls[r] = 1 /\ \A d \in Daemons : ~Owns(d, r)
        /\ \A d \in Daemons : Owns(d, r) =>
              /\ daemon[d].pc \in {"check", "execute"} => calls[r] = 0
              /\ daemon[d].pc \in {"inflight", "record"} => calls[r] = 1
              /\ \A e \in Daemons : Owns(e, r) => e = d

\* Recorded votes are presses of authorised approvers, and a grant is a quorum.
Votes ==
    \A r \in Requests :
        /\ rows[r].approvers \subseteq Approvals(r)
        /\ grant[r] \subseteq Approvals(r)
        /\ grant[r] # {} => Cardinality(grant[r]) >= Need(r)

\* The three parts together hold initially and are kept by every step of the
\* senders, the daemons and the environment.
ApprovalInv == Position /\ Ownership /\ Votes


============================================================================
