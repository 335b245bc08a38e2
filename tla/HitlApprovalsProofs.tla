------------------------ MODULE HitlApprovalsProofs ------------------------
(***************************************************************************)
(* Machine-checked proofs about HitlApprovals, for any number of requests, *)
(* approvers and daemons, any clock and any number of crashes: its         *)
(* invariants, and that it implements ApprovalContract.                    *)
(***************************************************************************)
EXTENDS HitlApprovals, FiniteSetTheorems, TLAPS

\* Field by field, the records of the model keep their types.
LEMMA RowSteps ==
    ASSUME NEW row \in Rows, NEW s \in Statuses, NEW a \in SUBSET Users
    PROVE  /\ [row EXCEPT !.status = s] \in Rows
           /\ [row EXCEPT !.approvers = a] \in Rows
           /\ [row EXCEPT !.approvers = a, !.status = s] \in Rows
  BY DEF Rows

LEMMA SenderSteps ==
    ASSUME NEW x \in Senders, NEW p \in SenderPoints, NEW b \in Bindings
    PROVE  /\ [x EXCEPT !.pc = p] \in Senders
           /\ [pc |-> p, bound |-> b] \in Senders
  BY DEF Senders

LEMMA NextUpdateTyped ==
    ASSUME NEW s \in Locals PROVE NextUpdate(s) \in Locals
<1>1. "handle" \in DaemonPoints /\ "poll" \in DaemonPoints
  BY DEF DaemonPoints
<1>2. "nowhere" \in Bindings
  BY DEF Bindings
<1>3. MaxOf(s.offset, s.next) \in Nat
  BY DEF MaxOf, Locals
<1> QED
  BY <1>1, <1>2, <1>3 DEF Locals, NextUpdate

LEMMA StoppedTyped == Stopped \in Locals /\ NoRow \in Rows
  BY DEF Stopped, Locals, DaemonPoints, NoRow, Rows, Bindings

\* The current update of a daemon that handles one is an update of the queue.
LEMMA CurrentTyped ==
    ASSUME TypeOK, Position, NEW d \in Daemons, Handling(d)
    PROVE  /\ Current(d) \in Updates
           /\ daemon[d].next \in 1..Len(updates)
           /\ CurrentRow(d) \in Rows
           /\ VotesWith(d) \in SUBSET Users
<1>1. daemon[d].next \in 1..Len(updates)
  BY DEF TypeOK, Position, Handling, Locals
<1>2. Current(d) \in Updates
  BY <1>1 DEF TypeOK, Current
<1>3. CurrentRow(d) \in Rows
  BY <1>2 DEF TypeOK, CurrentRow, Updates
<1> QED
  BY <1>1, <1>2, <1>3 DEF VotesWith, Rows, Updates

LEMMA PruneTyped ==
    ASSUME TypeOK PROVE Prune(rows) \in [Requests -> Rows]
  BY StoppedTyped DEF TypeOK, Prune

LEMMA MarkTyped ==
    ASSUME TypeOK, NEW r \in Requests, NEW s \in Statuses
    PROVE  Mark(r, s) \in [Requests -> Rows]
<1>1. rows \in [Requests -> Rows]
  BY DEF TypeOK
<1>2. [rows[r] EXCEPT !.status = s] \in Rows
  BY <1>1, RowSteps
<1> QED
  BY <1>1, <1>2 DEF Mark

\* Replacing the local state of one daemon keeps the positions when the new
\* state has a position of its own.
PositionOf(s) ==
    /\ s.pc \in {"handle", "edit"} \cup OwnPoints =>
          1 <= s.next /\ s.next <= s.last /\ s.last <= Len(updates)
    /\ s.pc \in {"edit"} \cup OwnPoints => s.req \in Requests

LEMMA DaemonStep ==
    ASSUME TypeOK, Position, NEW d \in Daemons, NEW s \in Locals, PositionOf(s),
           daemon' = [daemon EXCEPT ![d] = s], updates' = updates
    PROVE  daemon' \in [Daemons -> Locals] /\ Position'
<1>1. daemon' \in [Daemons -> Locals]
  BY DEF TypeOK
<1>2. \A e \in Daemons : daemon'[e] = IF e = d THEN s ELSE daemon[e]
  BY DEF TypeOK
<1>3. Position'
  BY <1>2 DEF Position, PositionOf
<1> QED
  BY <1>1, <1>3

\* The type invariant and the positions, initially and for the steps of the
\* senders, of the cluster and of the people in the chat.
LEMMA InitTyped == Init => TypeOK /\ Position
<1> SUFFICES ASSUME Init PROVE TypeOK /\ Position
  OBVIOUS
<1>1. \A r \in Requests : sender[r] \in Senders
  BY DEF Init, Senders, SenderPoints, Bindings
<1>2. guest \in [Requests -> Guests]
  BY DEF Init, Guests
<1>3. TypeOK
  BY <1>1, <1>2, StoppedTyped DEF Init, TypeOK
<1>4. Position
  BY DEF Init, Position, Stopped, OwnPoints
<1> QED
  BY <1>3, <1>4

LEMMA SenderTyped ==
    ASSUME TypeOK, Position, NEW r \in Requests,
           Send(r) \/ GuestChanges(r)
    PROVE  TypeOK' /\ Position'
<1>0. sender[r] \in Senders /\ rows \in [Requests -> Rows]
  BY DEF TypeOK
<1>p. ASSUME UNCHANGED <<daemon, updates>> PROVE Position'
  BY <1>p DEF Position
<1>s. ASSUME NEW p \in SenderPoints, sender' = [sender EXCEPT ![r].pc = p]
      PROVE  sender' \in [Requests -> Senders]
  BY <1>0, <1>s, SenderSteps DEF TypeOK, Senders
<1>1. CASE Resolve(r)
  <2>1. guest[r].at \in Bindings /\ "nowhere" \in Bindings
    BY DEF TypeOK, Guests, Bindings
  <2>2. sender' \in [Requests -> Senders]
    BY <1>1, <2>1 DEF Resolve, TypeOK, Senders, SenderPoints
  <2> QED
    BY <1>1, <1>p, <2>2 DEF Resolve, TypeOK
<1>2. CASE Insert(r)
  <2>1. [status |-> "pending", approvers |-> {}, issued |-> now,
         expires |-> now + Ttl, node |-> sender[r].bound] \in Rows
    BY <1>0, HitlAssumption DEF TypeOK, Rows, Statuses, Senders
  <2>2. rows' \in [Requests -> Rows]
    BY <1>2, <2>1, PruneTyped DEF Insert
  <2>3. sender' \in [Requests -> Senders]
    BY <1>2, <1>s DEF Insert, SenderPoints
  <2> QED
    BY <1>2, <1>p, <2>2, <2>3 DEF Insert, TypeOK
<1>3. CASE SendOk(r)
  <2>1. sender' \in [Requests -> Senders]
    BY <1>3, <1>s DEF SendOk, SenderPoints
  <2> QED
    BY <1>3, <1>p, <2>1 DEF SendOk, TypeOK
<1>4. CASE SendErr(r)
  <2>1. sender' \in [Requests -> Senders]
    BY <1>4, <1>s DEF SendErr, SenderPoints
  <2>2. chat' \in [Requests -> {"none", "buttons", "cleared"}]
    BY <1>4 DEF SendErr, TypeOK
  <2> QED
    BY <1>4, <1>p, <2>1, <2>2 DEF SendErr, TypeOK
<1>5. CASE CloseUnsent(r)
  <2>1. sender' \in [Requests -> Senders]
    BY <1>5, <1>s DEF CloseUnsent, SenderPoints
  <2>2. rows' \in [Requests -> Rows]
    BY <1>5, MarkTyped DEF CloseUnsent, Statuses, Settled
  <2> QED
    BY <1>5, <1>p, <2>1, <2>2 DEF CloseUnsent, TypeOK
<1>6. CASE SenderDies(r)
  <2>1. sender' \in [Requests -> Senders]
    BY <1>6, <1>s DEF SenderDies, SenderPoints
  <2> QED
    BY <1>6, <1>p, <2>1 DEF SenderDies, TypeOK
<1>7. CASE GuestChanges(r)
  BY <1>7, <1>p DEF GuestChanges, TypeOK
<1> QED
  BY <1>1, <1>2, <1>3, <1>4, <1>5, <1>6, <1>7 DEF Send

LEMMA PressTyped ==
    ASSUME TypeOK, Position, NEW r \in Requests, NEW u \in Users,
           NEW dec \in {"approve", "deny"}, NEW genuine \in BOOLEAN,
           Press(r, u, dec, genuine)
    PROVE  TypeOK' /\ Position'
<1> DEFINE upd == [req |-> r, decision |-> dec, user |-> u, genuine |-> genuine]
<1>1. upd \in Updates
  BY DEF Updates
<1>2. updates \in Seq(Updates) /\ updates' = Append(updates, upd)
  BY DEF Press, TypeOK
<1>3. updates' \in Seq(Updates) /\ Len(updates') = Len(updates) + 1
  BY <1>1, <1>2
<1>4. Len(updates) \in Nat
  BY <1>2
<1>5. TypeOK'
  BY <1>3 DEF Press, TypeOK
<1>6. Position'
  BY <1>3, <1>4 DEF Press, TypeOK, Position, Locals
<1> QED
  BY <1>5, <1>6

\* ... for a daemon that starts, crashes or polls,
LEMMA LoopTyped ==
    ASSUME TypeOK, Position, NEW d \in Daemons,
           Start(d) \/ Crash(d) \/ Poll(d) \/ PollNothing(d)
    PROVE  TypeOK' /\ Position'
<1>0. daemon[d] \in Locals /\ Len(updates) \in Nat
  BY DEF TypeOK
<1>c. ConfirmedBy(d) \in Nat
  BY <1>0 DEF ConfirmedBy, MaxOf, TypeOK, Locals
<1>1. CASE Start(d)
  <2> DEFINE s == [daemon[d] EXCEPT !.pc = "poll"]
  <2>1. s \in Locals /\ s.pc = "poll"
    BY <1>0 DEF Locals, DaemonPoints
  <2>2. PositionOf(s)
    BY <2>1 DEF PositionOf, OwnPoints
  <2>3. daemon' = [daemon EXCEPT ![d] = s] /\ updates' = updates
    BY <1>1 DEF Start
  <2>4. daemon' \in [Daemons -> Locals] /\ Position'
    BY <2>1, <2>2, <2>3, DaemonStep
  <2> QED
    BY <1>1, <2>4, PruneTyped DEF Start, TypeOK
<1>2. CASE Crash(d)
  <2>1. PositionOf(Stopped)
    BY DEF PositionOf, OwnPoints, Stopped
  <2>2. daemon' \in [Daemons -> Locals] /\ Position'
    BY <1>2, <2>1, StoppedTyped, DaemonStep DEF Crash
  <2> QED
    BY <1>2, <2>2 DEF Crash, TypeOK
<1>3. CASE Poll(d)
  <2> DEFINE s == [daemon[d] EXCEPT !.pc = "handle", !.next = ConfirmedBy(d) + 1,
                                    !.last = Len(updates)]
  <2>1. s \in Locals
    <3>1. \A n, l \in Nat : [daemon[d] EXCEPT !.pc = "handle", !.next = n,
                                             !.last = l] \in Locals
      BY <1>0 DEF Locals, DaemonPoints
    <3>2. ConfirmedBy(d) + 1 \in Nat
      BY <1>c
    <3> QED
      BY <1>0, <3>1, <3>2
  <2>2. s.pc = "handle" /\ s.next = ConfirmedBy(d) + 1 /\ s.last = Len(updates)
    BY <1>0 DEF Locals
  <2>3. PositionOf(s)
    BY <1>0, <1>c, <1>3, <2>2 DEF PositionOf, OwnPoints, Poll
  <2>4. daemon' \in [Daemons -> Locals] /\ Position'
    BY <1>3, <2>1, <2>3, DaemonStep DEF Poll
  <2> QED
    BY <1>3, <1>c, <2>4 DEF Poll, TypeOK
<1>4. CASE PollNothing(d)
  BY <1>4, <1>c DEF PollNothing, TypeOK, Position
<1> QED
  BY <1>1, <1>2, <1>3, <1>4

\* Leaving an update behind gives a position again.
LEMMA NextUpdatePosition ==
    ASSUME TypeOK, Position, NEW d \in Daemons,
           daemon[d].pc \in {"handle", "edit"} \cup OwnPoints
    PROVE  PositionOf(NextUpdate(daemon[d]))
<1>1. daemon[d] \in Locals
  BY DEF TypeOK
<1>2. /\ 1 <= daemon[d].next /\ daemon[d].next <= daemon[d].last
      /\ daemon[d].last <= Len(updates)
  BY DEF Position
<1>3. daemon[d].next \in Nat /\ daemon[d].last \in Nat /\ Len(updates) \in Nat
  BY <1>1 DEF Locals, TypeOK
<1> QED
  BY <1>2, <1>3 DEF PositionOf, NextUpdate, OwnPoints

\* ... and for a daemon that evaluates a callback.
LEMMA EvaluateTyped ==
    ASSUME TypeOK, Position, NEW d \in Daemons, Evaluate(d)
    PROVE  TypeOK' /\ Position'
<1>0. Handling(d)
  BY DEF Evaluate, IgnoreCallback, DropCallback, ExpireRequest, DenyRequest,
         AwaitApprovals, ApproveRequest, Deciding
<1> DEFINE r == Current(d).req
<1>1. /\ r \in Requests /\ rows[r] \in Rows /\ CurrentRow(d) = rows[r]
      /\ VotesWith(d) \in SUBSET Users
  BY <1>0, CurrentTyped DEF Updates, CurrentRow
<1>2. daemon[d] \in Locals /\ rows \in [Requests -> Rows]
  BY DEF TypeOK
<1>3. ASSUME daemon' = [daemon EXCEPT ![d] = NextUpdate(@)], updates' = updates
      PROVE  daemon' \in [Daemons -> Locals] /\ Position'
  BY <1>0, <1>2, <1>3, NextUpdateTyped, NextUpdatePosition, DaemonStep
  DEF Handling
<1>4. ASSUME daemon' = [daemon EXCEPT ![d] = EditNext(@, r)], updates' = updates
      PROVE  daemon' \in [Daemons -> Locals] /\ Position'
  <2>1. EditNext(daemon[d], r) \in Locals
    BY <1>1, <1>2 DEF EditNext, Locals, DaemonPoints
  <2>2. PositionOf(EditNext(daemon[d], r))
    BY <1>0, <1>1, <1>2 DEF PositionOf, Position, EditNext, Locals, Handling
  <2> QED
    BY <1>4, <2>1, <2>2, DaemonStep
<1>5. CASE IgnoreCallback(d) \/ DropCallback(d)
  BY <1>5, <1>3 DEF IgnoreCallback, DropCallback, TypeOK
<1>6. CASE ExpireRequest(d)
  <2>1. rows' \in [Requests -> Rows]
    BY <1>1, <1>2, <1>6, RowSteps DEF ExpireRequest, Statuses, Settled
  <2> QED
    BY <1>4, <1>6, <2>1 DEF ExpireRequest, TypeOK
<1>7. CASE DenyRequest(d)
  <2>1. rows' \in [Requests -> Rows]
    BY <1>1, <1>2, <1>7, RowSteps DEF DenyRequest, Statuses, Settled
  <2> QED
    BY <1>4, <1>7, <2>1 DEF DenyRequest, TypeOK
<1>8. CASE AwaitApprovals(d)
  <2>1. rows' \in [Requests -> Rows]
    BY <1>1, <1>2, <1>8, RowSteps DEF AwaitApprovals, Statuses
  <2> QED
    BY <1>4, <1>8, <2>1 DEF AwaitApprovals, TypeOK
<1>9. CASE ApproveRequest(d)
  <2> DEFINE s == [daemon[d] EXCEPT !.pc = "check", !.req = r,
                                    !.bound = CurrentRow(d).node]
  <2>1. rows' \in [Requests -> Rows]
    BY <1>1, <1>2, <1>9, RowSteps DEF ApproveRequest, Statuses
  <2>2. grant' \in [Requests -> SUBSET Users]
    BY <1>1, <1>9 DEF ApproveRequest, TypeOK
  <2>3. s \in Locals
    BY <1>1, <1>2 DEF Rows, Locals, DaemonPoints, OwnPoints
  <2>4. PositionOf(s)
    BY <1>0, <1>1, <1>2 DEF PositionOf, Position, Locals, Handling
  <2>5. daemon' \in [Daemons -> Locals] /\ Position'
    BY <1>9, <2>3, <2>4, DaemonStep DEF ApproveRequest
  <2> QED
    BY <1>9, <2>1, <2>2, <2>5 DEF ApproveRequest, TypeOK
<1> QED
  BY <1>5, <1>6, <1>7, <1>8, <1>9 DEF Evaluate

LEMMA ExecuteTyped ==
    ASSUME TypeOK, Position, NEW d \in Daemons,
           ExecuteApproved(d) \/ ShowExecuting(d)
    PROVE  TypeOK' /\ Position'
<1>0. daemon[d].pc \in {"edit"} \cup OwnPoints
  BY DEF ExecuteApproved, CheckPasses, CheckRefuses, LookupFails, Issue, Return,
         Record, EditMessage, ShowExecuting, OwnPoints
<1>1. daemon[d].req \in Requests /\ daemon[d] \in Locals
  BY <1>0 DEF Position, TypeOK
<1>2. ASSUME NEW p \in {"edit"} \cup OwnPoints, NEW ok \in BOOLEAN,
             \/ daemon' = [daemon EXCEPT ![d].pc = p]
             \/ daemon' = [daemon EXCEPT ![d] = [@ EXCEPT !.pc = p, !.ok = ok]],
             updates' = updates
      PROVE  daemon' \in [Daemons -> Locals] /\ Position'
  <2>1. CASE daemon' = [daemon EXCEPT ![d].pc = p]
    <3> DEFINE s == [daemon[d] EXCEPT !.pc = p]
    <3>1. s \in Locals
      BY <1>1, <1>2 DEF Locals, DaemonPoints
    <3>2. PositionOf(s)
      BY <1>0, <1>1, <1>2 DEF PositionOf, Position, Locals
    <3> QED
      BY <1>2, <2>1, <3>1, <3>2, DaemonStep
  <2>2. CASE daemon' = [daemon EXCEPT ![d] = [@ EXCEPT !.pc = p, !.ok = ok]]
    <3> DEFINE s == [daemon[d] EXCEPT !.pc = p, !.ok = ok]
    <3>1. s \in Locals
      BY <1>1, <1>2 DEF Locals, DaemonPoints
    <3>2. PositionOf(s)
      BY <1>0, <1>1, <1>2 DEF PositionOf, Position, Locals
    <3> QED
      BY <1>2, <2>2, <3>1, <3>2, DaemonStep
  <2> QED
    BY <1>2, <2>1, <2>2
<1>3. ASSUME daemon' = [daemon EXCEPT ![d] = NextUpdate(@)], updates' = updates
      PROVE  daemon' \in [Daemons -> Locals] /\ Position'
  BY <1>0, <1>1, <1>3, NextUpdateTyped, NextUpdatePosition, DaemonStep
<1>4. ASSUME NEW s \in Statuses, MarkBestEffort(daemon[d].req, s)
      PROVE  rows' \in [Requests -> Rows]
  BY <1>1, <1>4, MarkTyped DEF MarkBestEffort, TypeOK
<1>5. CASE CheckPasses(d)
  BY <1>2, <1>5 DEF CheckPasses, TypeOK, OwnPoints
<1>6. CASE CheckRefuses(d)
  BY <1>2, <1>4, <1>6 DEF CheckRefuses, TypeOK, Statuses, Settled
<1>7. CASE LookupFails(d)
  BY <1>3, <1>4, <1>7 DEF LookupFails, TypeOK, Statuses, Settled
<1>8. CASE Issue(d)
  <2>1. calls' \in [Requests -> Nat]
    BY <1>1, <1>8 DEF Issue, TypeOK
  <2> QED
    BY <1>2, <1>8, <2>1 DEF Issue, TypeOK, OwnPoints
<1>9. CASE ShowExecuting(d)
  BY <1>9 DEF ShowExecuting, TypeOK, Position
<1>10. CASE Return(d)
  BY <1>2, <1>10 DEF Return, TypeOK, OwnPoints
<1>11. CASE Record(d)
  BY <1>2, <1>4, <1>11 DEF Record, TypeOK, Statuses, Settled
<1>12. CASE EditMessage(d)
  <2>1. chat' \in [Requests -> {"none", "buttons", "cleared"}]
    BY <1>12 DEF EditMessage, TypeOK
  <2> QED
    BY <1>3, <1>12, <2>1 DEF EditMessage, TypeOK
<1> QED
  BY <1>5, <1>6, <1>7, <1>8, <1>9, <1>10, <1>11, <1>12 DEF ExecuteApproved

LEMMA NextTyped == TypeOK /\ Position /\ [Next]_vars => TypeOK' /\ Position'
<1> SUFFICES ASSUME TypeOK, Position, [Next]_vars PROVE TypeOK' /\ Position'
  OBVIOUS
<1>1. CASE UNCHANGED vars
  BY <1>1 DEF vars, TypeOK, Position
<1>2. CASE Tick
  BY <1>2 DEF Tick, TypeOK, Position
<1> QED
  BY <1>1, <1>2, SenderTyped, PressTyped, LoopTyped, EvaluateTyped, ExecuteTyped
  DEF Next, Serve

\* Every reachable state of senders, store, Telegram and daemons is well formed:
\* statuses, votes, control points and counters stay in their types.
THEOREM TypeCorrect == Spec => []TypeOK
<1>1. Init => TypeOK /\ Position
  BY InitTyped
<1>2. TypeOK /\ Position /\ [Next]_vars => (TypeOK /\ Position)'
  BY NextTyped
<1> QED
  BY <1>1, <1>2, PTL DEF Spec

(***************************************************************************)
(* Ownership: at most one daemon ever works on an approved request         *)
(***************************************************************************)

LEMMA PruneStatus ==
    ASSUME TypeOK, NEW q \in Requests
    PROVE  /\ Prune(rows)[q].status \in {rows[q].status, "none"}
           /\ Prune(rows)[q].approvers \in {rows[q].approvers, {}}
  BY DEF Prune, NoRow, TypeOK

LEMMA MarkStatus ==
    ASSUME TypeOK, NEW r \in Requests, NEW s \in Statuses, NEW q \in Requests
    PROVE  /\ \/ Mark(r, s)[q].status = rows[q].status
              \/ q = r /\ rows[r].status # "none" /\ Mark(r, s)[q].status = s
           /\ Mark(r, s)[q].approvers = rows[q].approvers
  BY DEF Mark, TypeOK, Rows

\* Steps that leave the daemons and their history alone, and change statuses only
\* in ways the ownership tolerates.
LEMMA QuietOwnership ==
    ASSUME TypeOK, Ownership, UNCHANGED <<daemon, grant, calls>>,
           \A q \in Requests :
              /\ sender'[q].pc \in {"idle", "resolved"} =>
                    sender[q].pc \in {"idle", "resolved"} /\ rows'[q].status = "none"
              /\ rows'[q].status \in {"pending", "denied", "expired"} => grant[q] = {}
              /\ rows'[q].status = "executed" => rows[q].status = "executed"
    PROVE  Ownership'
  BY DEF Ownership, Owns

LEMMA SenderOwnership ==
    ASSUME TypeOK, Ownership, NEW r \in Requests, Send(r) \/ GuestChanges(r)
    PROVE  Ownership'
<1>0. UNCHANGED <<daemon, grant, calls>>
  BY DEF Send, Resolve, Insert, SendOk, SendErr, CloseUnsent, SenderDies,
         GuestChanges
<1>1. CASE Insert(r)
  <2>1. \A q \in Requests :
          /\ sender'[q].pc = IF q = r THEN "sending" ELSE sender[q].pc
          /\ q # r => rows'[q].status \in {rows[q].status, "none"}
          /\ rows'[r].status = "pending"
    BY <1>1, PruneStatus, PruneTyped DEF Insert, TypeOK, Senders
  <2>2. grant[r] = {}
    BY <1>1 DEF Insert, Ownership
  <2> QED
    BY <1>0, <2>1, <2>2, QuietOwnership DEF Ownership
<1>2. CASE CloseUnsent(r)
  <2>1. \A q \in Requests :
          /\ sender'[q].pc = IF q = r THEN "error" ELSE sender[q].pc
          /\ rows'[q].status = rows[q].status \/ (q = r /\ rows'[q].status = "failed")
    BY <1>2, MarkStatus DEF CloseUnsent, TypeOK, Senders, Statuses, Settled
  <2> QED
    BY <1>0, <2>1, QuietOwnership DEF Ownership
<1>3. CASE Resolve(r) \/ SendOk(r) \/ SendErr(r) \/ SenderDies(r) \/ GuestChanges(r)
  <2>1. /\ rows' = rows
        /\ \A q \in Requests : sender'[q].pc \in {"idle", "resolved"} =>
              sender[q].pc \in {"idle", "resolved"}
    <3>1. CASE Resolve(r)
      BY <3>1 DEF Resolve, TypeOK, Senders
    <3>2. CASE SendOk(r)
      BY <3>2 DEF SendOk, TypeOK, Senders
    <3>3. CASE SendErr(r)
      BY <3>3 DEF SendErr, TypeOK, Senders
    <3>4. CASE SenderDies(r)
      BY <3>4 DEF SenderDies, TypeOK, Senders
    <3>5. CASE GuestChanges(r)
      BY <3>5 DEF GuestChanges
    <3> QED
      BY <1>3, <3>1, <3>2, <3>3, <3>4, <3>5
  <2> QED
    BY <1>0, <2>1, QuietOwnership DEF Ownership
<1> QED
  BY <1>1, <1>2, <1>3 DEF Send

LEMMA LoopOwnership ==
    ASSUME TypeOK, Ownership, NEW d \in Daemons,
           Start(d) \/ Crash(d) \/ Poll(d) \/ PollNothing(d)
    PROVE  Ownership'
<1>1. daemon[d] \in Locals
  BY DEF TypeOK
<1>2. UNCHANGED <<grant, calls, sender>>
  BY DEF Start, Crash, Poll, PollNothing
<1>3. \A q \in Requests : rows'[q].status \in {rows[q].status, "none"}
  BY PruneStatus DEF Start, Crash, Poll, PollNothing
<1>4. \A e \in Daemons :
        daemon'[e] = daemon[e] \/ daemon'[e].pc \notin OwnPoints
  <2>1. CASE Start(d)
    BY <1>1, <2>1 DEF Start, OwnPoints, TypeOK, Locals
  <2>2. CASE Crash(d)
    BY <1>1, <2>2 DEF Crash, Stopped, OwnPoints, TypeOK
  <2>3. CASE Poll(d)
    BY <1>1, <2>3 DEF Poll, OwnPoints, TypeOK, Locals
  <2>4. CASE PollNothing(d)
    BY <2>4 DEF PollNothing
  <2> QED
    BY <2>1, <2>2, <2>3, <2>4
<1>5. \A e \in Daemons, q \in Requests :
        Owns(e, q)' => Owns(e, q) /\ daemon'[e].pc = daemon[e].pc
  BY <1>4 DEF Owns
<1> QED
  BY <1>2, <1>3, <1>5 DEF Ownership

LEMMA EvaluateOwnership ==
    ASSUME TypeOK, Position, Ownership, NEW d \in Daemons, Evaluate(d)
    PROVE  Ownership'
<1>0. Handling(d) /\ ~(daemon[d].pc \in OwnPoints)
  BY DEF Evaluate, IgnoreCallback, DropCallback, ExpireRequest, DenyRequest,
         AwaitApprovals, ApproveRequest, Deciding, Handling, OwnPoints
<1> DEFINE r == Current(d).req
<1>1. /\ r \in Requests /\ rows[r] \in Rows /\ CurrentRow(d) = rows[r]
      /\ daemon[d] \in Locals /\ rows \in [Requests -> Rows]
  BY <1>0, CurrentTyped DEF Updates, CurrentRow, TypeOK
<1>2. ASSUME NEW s \in Locals, s.pc \notin OwnPoints,
             daemon' = [daemon EXCEPT ![d] = s],
             UNCHANGED <<grant, calls, sender>>,
             \A q \in Requests : \/ rows'[q].status = rows[q].status
                                 \/ /\ rows[q].status = "pending"
                                    /\ rows'[q].status \in {"denied", "expired"}
      PROVE  Ownership'
  <2>1. \A e \in Daemons, q \in Requests :
          Owns(e, q)' => Owns(e, q) /\ daemon'[e].pc = daemon[e].pc
    BY <1>2 DEF Owns, TypeOK
  <2> QED
    BY <1>2, <2>1 DEF Ownership
<1>3. NextUpdate(daemon[d]) \in Locals /\ NextUpdate(daemon[d]).pc \notin OwnPoints
  BY <1>1, NextUpdateTyped DEF NextUpdate, OwnPoints
<1>4. EditNext(daemon[d], r) \in Locals /\ EditNext(daemon[d], r).pc \notin OwnPoints
  BY <1>1 DEF EditNext, Locals, DaemonPoints, OwnPoints
<1>5. CASE IgnoreCallback(d) \/ DropCallback(d)
  BY <1>2, <1>3, <1>5 DEF IgnoreCallback, DropCallback
<1>6. CASE ExpireRequest(d)
  <2>1. rows[r].status \in {"pending", "expired"}
    BY <1>1, <1>6 DEF ExpireRequest, TimedOut
  <2>2. \A q \in Requests : rows'[q].status = IF q = r THEN "expired" ELSE rows[q].status
    BY <1>1, <1>6 DEF ExpireRequest, Rows
  <2> QED
    BY <1>2, <1>4, <1>6, <2>1, <2>2 DEF ExpireRequest
<1>7. CASE DenyRequest(d)
  <2>1. rows[r].status = "pending"
    BY <1>1, <1>7 DEF DenyRequest, Deciding
  <2>2. \A q \in Requests : rows'[q].status = IF q = r THEN "denied" ELSE rows[q].status
    BY <1>1, <1>7 DEF DenyRequest, Rows
  <2> QED
    BY <1>2, <1>4, <1>7, <2>1, <2>2 DEF DenyRequest
<1>8. CASE AwaitApprovals(d)
  <2>1. \A q \in Requests : rows'[q].status = rows[q].status
    BY <1>1, <1>8 DEF AwaitApprovals, Rows
  <2> QED
    BY <1>2, <1>4, <1>8, <2>1 DEF AwaitApprovals
<1>9. CASE ApproveRequest(d)
  <2>1. rows[r].status = "pending" /\ grant[r] = {}
    BY <1>1, <1>9 DEF ApproveRequest, Deciding, Ownership
  <2>2. calls[r] = 0 /\ \A e \in Daemons : ~Owns(e, r)
    BY <1>1, <2>1 DEF Ownership
  <2>3. \A q \in Requests :
          /\ rows'[q].status = IF q = r THEN "approved" ELSE rows[q].status
          /\ q # r => grant'[q] = grant[q]
          /\ sender'[q] = sender[q] /\ calls'[q] = calls[q]
    BY <1>1, <1>9 DEF ApproveRequest, Rows, TypeOK
  <2>4. grant'[r] # {}
    BY <1>1, <1>9 DEF ApproveRequest, TypeOK, VotesWith
  <2>5. daemon'[d].pc = "check" /\ daemon'[d].req = r
    BY <1>1, <1>9 DEF ApproveRequest, TypeOK, Locals
  <2>6. \A e \in Daemons : e # d => daemon'[e] = daemon[e]
    BY <1>9 DEF ApproveRequest, TypeOK
  <2>7. \A e \in Daemons, q \in Requests :
          Owns(e, q)' => \/ e = d /\ q = r
                         \/ e # d /\ q # r /\ Owns(e, q)
                            /\ daemon'[e].pc = daemon[e].pc
    BY <1>0, <2>2, <2>5, <2>6 DEF Owns
  <2>8. sender[r].pc \notin {"idle", "resolved"}
    BY <1>1, <2>1 DEF Ownership
  <2> QED
    BY <2>1, <2>2, <2>3, <2>4, <2>5, <2>7, <2>8 DEF Ownership
<1> QED
  BY <1>5, <1>6, <1>7, <1>8, <1>9 DEF Evaluate

LEMMA ExecuteOwnership ==
    ASSUME TypeOK, Position, Ownership, NEW d \in Daemons,
           ExecuteApproved(d) \/ ShowExecuting(d)
    PROVE  Ownership'
<1>0. daemon[d].pc \in {"edit"} \cup OwnPoints
  BY DEF ExecuteApproved, CheckPasses, CheckRefuses, LookupFails, Issue, Return,
         Record, EditMessage, ShowExecuting, OwnPoints
<1> DEFINE r == daemon[d].req
<1>1. r \in Requests /\ daemon[d] \in Locals
  BY <1>0 DEF Position, TypeOK
<1>2. daemon[d].pc \in OwnPoints => Owns(d, r) /\ grant[r] # {}
  BY <1>1 DEF Owns, Ownership
<1>3. UNCHANGED <<grant, sender>>
  BY DEF ExecuteApproved, CheckPasses, CheckRefuses, LookupFails, Issue, Return,
         Record, EditMessage, ShowExecuting
<1>4. ASSUME NEW s \in Locals, s.pc \notin OwnPoints,
             daemon' = [daemon EXCEPT ![d] = s], UNCHANGED calls,
             \A q \in Requests :
                \/ rows'[q].status = rows[q].status
                \/ /\ q = r /\ rows[q].status # "none"
                   /\ \/ rows'[q].status = "failed"
                      \/ /\ daemon[d].pc = "record"
                         /\ rows'[q].status = "executed"
      PROVE  Ownership'
  <2>1. \A e \in Daemons, q \in Requests :
          Owns(e, q)' => Owns(e, q) /\ daemon'[e].pc = daemon[e].pc /\ e # d
    BY <1>4 DEF Owns, TypeOK
  <2>2. daemon[d].pc = "record" =>
          calls[r] = 1 /\ \A e \in Daemons : Owns(e, r) => e = d
    BY <1>1, <1>2 DEF Ownership, OwnPoints
  <2> QED
    BY <1>1, <1>3, <1>4, <2>1, <2>2 DEF Ownership
<1>5. ASSUME NEW st \in Statuses, MarkBestEffort(r, st), NEW q \in Requests
      PROVE  \/ rows'[q].status = rows[q].status
             \/ q = r /\ rows[q].status # "none" /\ rows'[q].status = st
  BY <1>1, <1>5, MarkStatus DEF MarkBestEffort
<1>6. NextUpdate(daemon[d]) \in Locals /\ NextUpdate(daemon[d]).pc \notin OwnPoints
  BY <1>1, NextUpdateTyped DEF NextUpdate, OwnPoints
<1>7. /\ [daemon[d] EXCEPT !.pc = "edit"] \in Locals
      /\ [daemon[d] EXCEPT !.pc = "edit"].pc \notin OwnPoints
  BY <1>1 DEF Locals, DaemonPoints, OwnPoints
<1>8. "failed" \in Statuses /\ "executed" \in Statuses
  BY DEF Statuses, Settled
<1>9. CASE CheckPasses(d)
  <2>1. UNCHANGED <<rows, calls>>
    BY <1>9 DEF CheckPasses
  <2>2. \A e \in Daemons, q \in Requests :
          Owns(e, q)' => /\ Owns(e, q)
                         /\ \/ daemon'[e].pc = daemon[e].pc
                            \/ daemon[e].pc = "check" /\ daemon'[e].pc = "execute"
    BY <1>1, <1>9 DEF CheckPasses, Owns, TypeOK, Locals, OwnPoints
  <2> QED
    BY <1>3, <2>1, <2>2 DEF Ownership
<1>10. CASE CheckRefuses(d)
  BY <1>4, <1>5, <1>7, <1>8, <1>10 DEF CheckRefuses
<1>11. CASE LookupFails(d)
  BY <1>4, <1>5, <1>6, <1>8, <1>11 DEF LookupFails
<1>12. CASE Issue(d)
  <2>1. rows' = rows /\ calls[r] = 0
    BY <1>1, <1>2, <1>12 DEF Issue, Ownership, OwnPoints
  <2>2. \A q \in Requests : calls'[q] = IF q = r THEN 1 ELSE calls[q]
    BY <1>1, <1>12, <2>1 DEF Issue, TypeOK
  <2>3. \A e \in Daemons, q \in Requests :
          Owns(e, q)' => /\ Owns(e, q)
                         /\ \/ e = d /\ q = r /\ daemon'[e].pc = "inflight"
                            \/ e # d /\ daemon'[e].pc = daemon[e].pc
    BY <1>1, <1>12 DEF Issue, Owns, TypeOK, Locals, OwnPoints
  <2>4. \A e \in Daemons : Owns(e, r) => e = d
    BY <1>1, <1>2, <1>12 DEF Ownership, Issue, OwnPoints
  <2>5. rows[r].status # "executed"
    BY <1>1, <1>2, <1>12 DEF Ownership, Issue, OwnPoints
  <2> QED
    BY <1>1, <1>2, <1>3, <1>12, <2>1, <2>2, <2>3, <2>4, <2>5
    DEF Ownership, Issue, OwnPoints
<1>13. CASE ShowExecuting(d)
  BY <1>3, <1>13, QuietOwnership DEF ShowExecuting, Ownership
<1>14. CASE Return(d)
  <2>1. UNCHANGED <<rows, calls>>
    BY <1>14 DEF Return
  <2>2. \A e \in Daemons, q \in Requests :
          Owns(e, q)' => /\ Owns(e, q)
                         /\ \/ daemon'[e].pc = daemon[e].pc
                            \/ daemon[e].pc = "inflight" /\ daemon'[e].pc = "record"
    BY <1>1, <1>14 DEF Return, Owns, TypeOK, Locals, OwnPoints
  <2> QED
    BY <1>3, <2>1, <2>2 DEF Ownership
<1>15. CASE Record(d)
  BY <1>4, <1>5, <1>7, <1>8, <1>15 DEF Record
<1>16. CASE EditMessage(d)
  BY <1>4, <1>6, <1>16 DEF EditMessage
<1> QED
  BY <1>9, <1>10, <1>11, <1>12, <1>13, <1>14, <1>15, <1>16 DEF ExecuteApproved

LEMMA NextOwnership ==
    TypeOK /\ Position /\ Ownership /\ [Next]_vars => Ownership'
<1> SUFFICES ASSUME TypeOK, Position, Ownership, [Next]_vars PROVE Ownership'
  OBVIOUS
<1>1. CASE UNCHANGED vars
  BY <1>1, QuietOwnership DEF vars, Ownership
<1>2. CASE Tick
  BY <1>2, QuietOwnership DEF Tick, Ownership
<1>3. ASSUME NEW r \in Requests, NEW u \in Users, NEW dec \in {"approve", "deny"},
             NEW genuine \in BOOLEAN, Press(r, u, dec, genuine)
      PROVE  Ownership'
  BY <1>3, QuietOwnership DEF Press, Ownership
<1> QED
  BY <1>1, <1>2, <1>3, SenderOwnership, LoopOwnership, EvaluateOwnership,
     ExecuteOwnership
  DEF Next, Serve

(***************************************************************************)
(* Votes: only authorised presses are counted, and a grant is a quorum     *)
(***************************************************************************)

\* A press keeps every approval there was.
LEMMA ApprovalsGrow ==
    ASSUME TypeOK, NEW r \in Requests, NEW u \in Users,
           NEW dec \in {"approve", "deny"}, NEW genuine \in BOOLEAN,
           Press(r, u, dec, genuine), NEW q \in Requests
    PROVE  Approvals(q) \subseteq Approvals(q)'
<1> DEFINE upd == [req |-> r, decision |-> dec, user |-> u, genuine |-> genuine]
<1>1. updates \in Seq(Updates) /\ updates' = Append(updates, upd) /\ upd \in Updates
  BY DEF Press, TypeOK, Updates
<1>2. \A i \in 1..Len(updates) : i \in 1..Len(updates)' /\ updates'[i] = updates[i]
  BY <1>1
<1> QED
  BY <1>2 DEF Approvals

\* A vote that process_callback counts is one of the approvals.
LEMMA VoteIsApproval ==
    ASSUME TypeOK, Position, Votes, NEW d \in Daemons, Handling(d),
           Verified(Current(d)), Current(d).decision = "approve"
    PROVE  VotesWith(d) \subseteq Approvals(Current(d).req)
<1>1. /\ Current(d) \in Updates /\ daemon[d].next \in 1..Len(updates)
      /\ Current(d).req \in Requests
  BY CurrentTyped DEF Updates
<1>2. updates[daemon[d].next] = [req |-> Current(d).req, decision |-> "approve",
                                 user |-> Current(d).user, genuine |-> TRUE]
  BY <1>1 DEF Current, Updates, Verified
<1>3. Current(d).user \in Approvals(Current(d).req)
  BY <1>1, <1>2 DEF Approvals, Verified
<1> QED
  BY <1>1, <1>3 DEF VotesWith, Votes, CurrentRow

\* Steps that add no press and at most forget votes.
LEMMA QuietVotes ==
    ASSUME Votes, UNCHANGED <<updates, grant>>,
           \A q \in Requests : rows'[q].approvers \in {rows[q].approvers, {}}
    PROVE  Votes'
  BY DEF Votes, Approvals, Need

LEMMA NextVotes ==
    TypeOK /\ Position /\ Votes /\ [Next]_vars => Votes'
<1> SUFFICES ASSUME TypeOK, Position, Votes, [Next]_vars PROVE Votes'
  OBVIOUS
<1>0. ASSUME UNCHANGED <<rows, updates, grant>> PROVE Votes'
  BY <1>0, QuietVotes
<1>1. CASE UNCHANGED vars \/ Tick
  BY <1>0, <1>1 DEF vars, Tick
<1>2. ASSUME NEW r \in Requests, Send(r) \/ GuestChanges(r) PROVE Votes'
  <2>1. CASE Insert(r)
    <3>1. \A q \in Requests : rows'[q].approvers \in {rows[q].approvers, {}}
      BY <2>1, PruneStatus, PruneTyped DEF Insert
    <3> QED
      BY <2>1, <3>1, QuietVotes DEF Insert
  <2>2. CASE CloseUnsent(r)
    <3>1. \A q \in Requests : rows'[q].approvers = rows[q].approvers
      BY <2>2, MarkStatus DEF CloseUnsent, Statuses, Settled
    <3> QED
      BY <2>2, <3>1, QuietVotes DEF CloseUnsent
  <2>3. CASE Resolve(r) \/ SendOk(r) \/ SendErr(r) \/ SenderDies(r) \/ GuestChanges(r)
    BY <1>0, <2>3 DEF Resolve, SendOk, SendErr, SenderDies, GuestChanges
  <2> QED
    BY <1>2, <2>1, <2>2, <2>3 DEF Send
<1>3. ASSUME NEW r \in Requests, NEW u \in Users, NEW dec \in {"approve", "deny"},
             NEW genuine \in BOOLEAN, Press(r, u, dec, genuine)
      PROVE  Votes'
  <2>1. \A q \in Requests : Approvals(q) \subseteq Approvals(q)'
    BY <1>3, ApprovalsGrow
  <2> QED
    BY <1>3, <2>1 DEF Votes, Press, Need
<1>4. ASSUME NEW d \in Daemons, Start(d) \/ Crash(d) \/ Poll(d) \/ PollNothing(d)
      PROVE  Votes'
  <2>1. \A q \in Requests : rows'[q].approvers \in {rows[q].approvers, {}}
    BY <1>4, PruneStatus DEF Start, Crash, Poll, PollNothing
  <2> QED
    BY <1>4, <2>1, QuietVotes DEF Start, Crash, Poll, PollNothing
<1>5. ASSUME NEW d \in Daemons, Evaluate(d) PROVE Votes'
  <2> DEFINE r == Current(d).req
  <2>0. Handling(d)
    BY <1>5 DEF Evaluate, IgnoreCallback, DropCallback, ExpireRequest, DenyRequest,
           AwaitApprovals, ApproveRequest, Deciding
  <2>1. /\ r \in Requests /\ rows \in [Requests -> Rows]
        /\ CurrentRow(d) = rows[r]
    BY <2>0, CurrentTyped DEF Updates, TypeOK, CurrentRow
  <2>2. CASE IgnoreCallback(d) \/ DropCallback(d)
    BY <1>0, <2>2 DEF IgnoreCallback, DropCallback
  <2>3. CASE ExpireRequest(d) \/ DenyRequest(d)
    <3>1. \A q \in Requests : rows'[q].approvers = rows[q].approvers
      BY <2>1, <2>3 DEF ExpireRequest, DenyRequest, Rows
    <3> QED
      BY <2>3, <3>1, QuietVotes DEF ExpireRequest, DenyRequest
  <2>4. CASE AwaitApprovals(d)
    <3>1. VotesWith(d) \subseteq Approvals(r)
      BY <2>4, VoteIsApproval DEF AwaitApprovals, Deciding
    <3>2. \A q \in Requests : rows'[q].approvers =
            IF q = r THEN VotesWith(d) ELSE rows[q].approvers
      BY <2>1, <2>4 DEF AwaitApprovals, Rows
    <3>3. \A q \in Requests : Approvals(q)' = Approvals(q)
      BY <2>4 DEF AwaitApprovals, Approvals
    <3> QED
      BY <2>4, <3>1, <3>2, <3>3 DEF Votes, AwaitApprovals, Need
  <2>5. CASE ApproveRequest(d)
    <3>1. VotesWith(d) \subseteq Approvals(r)
      BY <2>5, VoteIsApproval DEF ApproveRequest, Deciding
    <3>2. \A q \in Requests :
            /\ rows'[q].approvers = IF q = r THEN VotesWith(d) ELSE rows[q].approvers
            /\ grant'[q] = IF q = r THEN VotesWith(d) ELSE grant[q]
      BY <2>1, <2>5 DEF ApproveRequest, Rows, TypeOK
    <3>3. \A q \in Requests : Approvals(q)' = Approvals(q) /\ Need(q)' = Need(q)
      BY <2>5 DEF ApproveRequest, Approvals, Need
    <3>4. Cardinality(VotesWith(d)) >= Need(r)
      BY <2>5 DEF ApproveRequest, QuorumMet
    <3> QED
      BY <3>1, <3>2, <3>3, <3>4 DEF Votes
  <2> QED
    BY <1>5, <2>2, <2>3, <2>4, <2>5 DEF Evaluate
<1>6. ASSUME NEW d \in Daemons, ExecuteApproved(d) \/ ShowExecuting(d) PROVE Votes'
  <2>0. daemon[d].pc \in {"edit"} \cup OwnPoints
    BY <1>6 DEF ExecuteApproved, CheckPasses, CheckRefuses, LookupFails, Issue,
           Return, Record, EditMessage, ShowExecuting, OwnPoints
  <2>1. daemon[d].req \in Requests
    BY <2>0 DEF Position
  <2>2. ASSUME NEW st \in Statuses, MarkBestEffort(daemon[d].req, st),
               NEW q \in Requests
        PROVE  rows'[q].approvers = rows[q].approvers
    BY <2>1, <2>2, MarkStatus DEF MarkBestEffort
  <2>3. "failed" \in Statuses /\ "executed" \in Statuses
    BY DEF Statuses, Settled
  <2>4. UNCHANGED <<updates, grant>>
    BY <1>6 DEF ExecuteApproved, CheckPasses, CheckRefuses, LookupFails, Issue,
           Return, Record, EditMessage, ShowExecuting
  <2>5. CASE CheckRefuses(d) \/ LookupFails(d) \/ Record(d)
    <3>1. \A q \in Requests : rows'[q].approvers = rows[q].approvers
      BY <2>2, <2>3, <2>5 DEF CheckRefuses, LookupFails, Record
    <3> QED
      BY <2>4, <3>1, QuietVotes
  <2>6. CASE CheckPasses(d) \/ Issue(d) \/ Return(d) \/ EditMessage(d)
             \/ ShowExecuting(d)
    BY <1>0, <2>4, <2>6
    DEF CheckPasses, Issue, Return, EditMessage, ShowExecuting
  <2> QED
    BY <1>6, <2>5, <2>6 DEF ExecuteApproved
<1> QED
  BY <1>1, <1>2, <1>3, <1>4, <1>5, <1>6 DEF Next, Serve

(***************************************************************************)
(* In flight: an approved row has a daemon that works on it                *)
(***************************************************************************)

\* A step after which every approved row was approved before, and which takes no
\* request from its owner.
LEMMA QuietInFlight ==
    ASSUME ApprovedIsInFlight,
           crashes' = 0 => crashes = 0,
           \A q \in Requests : rows'[q].status = "approved" => rows[q].status = "approved",
           \A e \in Daemons, q \in Requests :
              Owns(e, q) /\ rows'[q].status = "approved" => Owns(e, q)'
    PROVE  ApprovedIsInFlight'
  BY DEF ApprovedIsInFlight, Owners, Owns

\* The senders never approve, and leave the daemons alone.
LEMMA SenderInFlight ==
    ASSUME TypeOK, ApprovedIsInFlight, NEW r \in Requests, Send(r) \/ GuestChanges(r)
    PROVE  ApprovedIsInFlight'
<1>1. UNCHANGED <<daemon, crashes>>
  BY DEF Send, Resolve, Insert, SendOk, SendErr, CloseUnsent, SenderDies,
         GuestChanges
<1>2. \A q \in Requests : rows'[q].status = "approved" => rows[q].status = "approved"
  <2>1. CASE Insert(r)
    BY <2>1, PruneStatus, PruneTyped DEF Insert
  <2>2. CASE CloseUnsent(r)
    BY <2>2, MarkStatus DEF CloseUnsent, Statuses, Settled
  <2>3. CASE Resolve(r) \/ SendOk(r) \/ SendErr(r) \/ SenderDies(r) \/ GuestChanges(r)
    BY <2>3 DEF Resolve, SendOk, SendErr, SenderDies, GuestChanges
  <2> QED
    BY <2>1, <2>2, <2>3 DEF Send
<1> QED
  BY <1>1, <1>2, QuietInFlight DEF Owns

\* A daemon that polls owns nothing; one that crashes is counted.
LEMMA LoopInFlight ==
    ASSUME TypeOK, ApprovedIsInFlight, NEW d \in Daemons,
           Start(d) \/ Crash(d) \/ Poll(d) \/ PollNothing(d)
    PROVE  ApprovedIsInFlight'
<1>1. CASE Crash(d)
  <2>1. crashes' # 0
    BY <1>1 DEF Crash, TypeOK
  <2> QED
    BY <2>1 DEF ApprovedIsInFlight
<1>2. CASE Start(d) \/ Poll(d) \/ PollNothing(d)
  <2>1. daemon[d].pc \notin OwnPoints /\ crashes' = crashes
    BY <1>2 DEF Start, Poll, PollNothing, OwnPoints
  <2>2. \A e \in Daemons : e # d => daemon'[e] = daemon[e]
    BY <1>2 DEF Start, Poll, PollNothing, TypeOK
  <2>3. \A q \in Requests : rows'[q].status \in {rows[q].status, "none"}
    BY <1>2, PruneStatus DEF Start, Poll, PollNothing
  <2> QED
    BY <2>1, <2>2, <2>3, QuietInFlight DEF Owns
<1> QED
  BY <1>1, <1>2

\* Whoever approves a row owns it from then on.
LEMMA EvaluateInFlight ==
    ASSUME TypeOK, Position, ApprovedIsInFlight, NEW d \in Daemons, Evaluate(d)
    PROVE  ApprovedIsInFlight'
<1>0. Handling(d) /\ ~(daemon[d].pc \in OwnPoints)
  BY DEF Evaluate, IgnoreCallback, DropCallback, ExpireRequest, DenyRequest,
         AwaitApprovals, ApproveRequest, Deciding, Handling, OwnPoints
<1> DEFINE r == Current(d).req
<1>1. /\ r \in Requests /\ rows[r] \in Rows /\ CurrentRow(d) = rows[r]
      /\ daemon[d] \in Locals /\ rows \in [Requests -> Rows]
  BY <1>0, CurrentTyped DEF Updates, CurrentRow, TypeOK
<1>2. /\ \A e \in Daemons : e # d => daemon'[e] = daemon[e]
      /\ crashes' = crashes
  BY DEF Evaluate, IgnoreCallback, DropCallback, ExpireRequest, DenyRequest,
         AwaitApprovals, ApproveRequest, TypeOK
<1>3. \A e \in Daemons, q \in Requests : Owns(e, q) => Owns(e, q)'
  BY <1>0, <1>2 DEF Owns
<1>4. CASE ApproveRequest(d)
  <2>1. \A q \in Requests : q # r => rows'[q] = rows[q]
    BY <1>1, <1>4 DEF ApproveRequest
  <2>2. daemon'[d].pc = "check" /\ daemon'[d].req = r
    BY <1>1, <1>4 DEF ApproveRequest, TypeOK, Locals
  <2>3. ASSUME NEW q \in Requests, rows'[q].status = "approved", crashes' = 0, ~StoreFaults
        PROVE  \E e \in Daemons : Owns(e, q)'
    <3>1. CASE q = r
      BY <2>2, <3>1 DEF Owns, OwnPoints
    <3>2. CASE q # r
      BY <1>2, <1>3, <2>1, <2>3, <3>2 DEF ApprovedIsInFlight, Owners, Owns
    <3> QED
      BY <3>1, <3>2
  <2> QED
    BY <2>3 DEF ApprovedIsInFlight, Owners, Owns
<1>5. CASE ~ApproveRequest(d)
  <2>1. CASE IgnoreCallback(d) \/ DropCallback(d)
    BY <1>2, <1>3, <2>1, QuietInFlight DEF IgnoreCallback, DropCallback
  <2>2. CASE ExpireRequest(d) \/ DenyRequest(d)
    <3>1. \A q \in Requests : rows'[q].status \in {rows[q].status, "expired", "denied"}
      BY <1>1, <2>2 DEF ExpireRequest, DenyRequest, Rows
    <3> QED
      BY <1>2, <1>3, <3>1, QuietInFlight
  <2>3. CASE AwaitApprovals(d)
    <3>1. \A q \in Requests : rows'[q].status = rows[q].status
      BY <1>1, <2>3 DEF AwaitApprovals, Rows
    <3> QED
      BY <1>2, <1>3, <3>1, QuietInFlight
  <2> QED
    BY <1>5, <2>1, <2>2, <2>3 DEF Evaluate
<1> QED
  BY <1>4, <1>5

\* An owner lets go of its request only with the outcome in the row.
LEMMA ExecuteInFlight ==
    ASSUME TypeOK, Position, ApprovedIsInFlight, NEW d \in Daemons,
           ExecuteApproved(d) \/ ShowExecuting(d)
    PROVE  ApprovedIsInFlight'
<1>0. daemon[d].pc \in {"edit"} \cup OwnPoints
  BY DEF ExecuteApproved, CheckPasses, CheckRefuses, LookupFails, Issue, Return,
         Record, EditMessage, ShowExecuting, OwnPoints
<1> DEFINE r == daemon[d].req
<1>1. r \in Requests /\ daemon[d] \in Locals
  BY <1>0 DEF Position, TypeOK
<1>2. /\ \A e \in Daemons : e # d => daemon'[e] = daemon[e]
      /\ crashes' = crashes
  BY DEF ExecuteApproved, CheckPasses, CheckRefuses, LookupFails, Issue, Return,
         Record, EditMessage, ShowExecuting, TypeOK
<1>3. CASE StoreFaults
  BY <1>3 DEF ApprovedIsInFlight
<1>4. CASE CheckPasses(d) \/ Issue(d) \/ Return(d) \/ EditMessage(d) \/ ShowExecuting(d)
  <2>1. rows' = rows
    BY <1>4 DEF CheckPasses, Issue, Return, EditMessage, ShowExecuting
  <2>2. daemon[d].pc \in OwnPoints => daemon'[d].pc \in OwnPoints /\ daemon'[d].req = r
    <3> USE <1>1 DEF TypeOK, Locals, OwnPoints
    <3>1. CASE CheckPasses(d) \/ Issue(d)
      BY <3>1 DEF CheckPasses, Issue
    <3>2. CASE Return(d)
      BY <3>2 DEF Return
    <3>3. CASE EditMessage(d) \/ ShowExecuting(d)
      BY <3>3 DEF EditMessage, ShowExecuting
    <3> QED
      BY <1>4, <3>1, <3>2, <3>3
  <2> QED
    BY <1>2, <2>1, <2>2, QuietInFlight DEF Owns
<1>5. CASE ~StoreFaults /\ (CheckRefuses(d) \/ LookupFails(d) \/ Record(d))
  <2>1. PICK st \in {"failed", "executed"} : rows' = Mark(r, st)
    BY <1>5 DEF CheckRefuses, LookupFails, Record, MarkBestEffort
  <2>2. \A q \in Requests : /\ rows'[q].status \in {rows[q].status, st}
                            /\ rows'[r].status # "approved"
    BY <1>1, <2>1 DEF Mark, TypeOK, Rows
  <2>3. \A e \in Daemons, q \in Requests : Owns(e, q) /\ q # r => Owns(e, q)'
    BY <1>2 DEF Owns
  <2> QED
    BY <1>2, <2>2, <2>3, QuietInFlight
<1> QED
  BY <1>3, <1>4, <1>5 DEF ExecuteApproved

\* Every step keeps an approved row in the hands of a daemon.
LEMMA NextInFlight ==
    TypeOK /\ Position /\ ApprovedIsInFlight /\ [Next]_vars => ApprovedIsInFlight'
<1> SUFFICES ASSUME TypeOK, Position, ApprovedIsInFlight, [Next]_vars
             PROVE  ApprovedIsInFlight'
  OBVIOUS
<1>1. CASE UNCHANGED vars
  BY <1>1, QuietInFlight DEF vars, Owns
<1>2. CASE Tick
  BY <1>2, QuietInFlight DEF Tick, Owns
<1>3. ASSUME NEW r \in Requests, NEW u \in Users, NEW dec \in {"approve", "deny"},
             NEW genuine \in BOOLEAN, Press(r, u, dec, genuine)
      PROVE  ApprovedIsInFlight'
  BY <1>3, QuietInFlight DEF Press, Owns
<1> QED
  BY <1>1, <1>2, <1>3, SenderInFlight, LoopInFlight, EvaluateInFlight,
     ExecuteInFlight
  DEF Next, Serve

(***************************************************************************)
(* The theorems                                                            *)
(***************************************************************************)

\* The three parts of the invariant hold in every reachable state, whatever the
\* daemons, senders, approvers and crashes do.
THEOREM Invariance == Spec => []ApprovalInv
<1>1. Init => TypeOK /\ Position /\ Ownership /\ Votes
  <2> SUFFICES ASSUME Init PROVE TypeOK /\ Position /\ Ownership /\ Votes
    OBVIOUS
  <2>1. Ownership
    BY DEF Init, Ownership, Owns, OwnPoints, NoRow, Stopped
  <2>2. Votes
    BY DEF Init, Votes, NoRow
  <2> QED
    BY <2>1, <2>2, InitTyped
<1>2. TypeOK /\ Position /\ Ownership /\ Votes /\ [Next]_vars
        => (TypeOK /\ Position /\ Ownership /\ Votes)'
  BY NextTyped, NextOwnership, NextVotes
<1>3. TypeOK /\ Position /\ Ownership /\ Votes => ApprovalInv
  BY DEF ApprovalInv
<1> QED
  BY <1>1, <1>2, <1>3, PTL DEF Spec

\* An approved operation is sent to Proxmox at most once.
THEOREM CallOnce == Spec => []AtMostOneCall
<1>1. ApprovalInv => AtMostOneCall
  BY DEF ApprovalInv, Ownership, AtMostOneCall
<1> QED
  BY <1>1, Invariance, PTL

\* A Proxmox call is preceded by a quorum of genuine approvals of members of
\* allowed_approvers.
THEOREM CallAfterQuorum == Spec => []CallNeedsQuorum
<1>1. TypeOK /\ ApprovalInv => CallNeedsQuorum
  <2> SUFFICES ASSUME TypeOK, ApprovalInv, NEW r \in Requests, calls[r] > 0
               PROVE  /\ Cardinality(grant[r]) >= Need(r)
                      /\ \A u \in grant[r] : u \in Approvals(r)
    BY DEF CallNeedsQuorum, Approvals
  <2>1. calls[r] # 0
    BY DEF TypeOK
  <2>2. grant[r] # {}
    BY <2>1 DEF ApprovalInv, Ownership
  <2> QED
    BY <2>2 DEF ApprovalInv, Votes
<1> QED
  BY <1>1, Invariance, TypeCorrect, PTL

\* The status column never misreports what reached Proxmox.
THEOREM StatusTruthful == Spec => []StatusTellsOutcome
<1>1. ApprovalInv => StatusTellsOutcome
  BY DEF ApprovalInv, Ownership, StatusTellsOutcome, Owners, Owns
<1> QED
  BY <1>1, Invariance, PTL

\* A row that says approved is being executed, as long as no daemon died and the
\* store takes its writes: no path of the handler leaves one behind.
THEOREM InFlight == Spec => []ApprovedIsInFlight
<1>1. Init => TypeOK /\ Position /\ ApprovedIsInFlight
  BY InitTyped DEF Init, ApprovedIsInFlight, NoRow
<1>2. TypeOK /\ Position /\ ApprovedIsInFlight /\ [Next]_vars
        => (TypeOK /\ Position /\ ApprovedIsInFlight)'
  BY NextTyped, NextInFlight
<1> QED
  BY <1>1, <1>2, PTL DEF Spec

(***************************************************************************)
(* HitlApprovals implements ApprovalContract: every step of the senders,   *)
(* the daemons, Telegram and the cluster is a vote, a refusal, the one     *)
(* performance of a request, or invisible.                                 *)
(***************************************************************************)

\* A request without a row has no votes.
Blank == \A r \in Requests : rows[r].status = "none" => rows[r].approvers = {}

\* What the contract sees of a request.
Performed == [r \in Requests |-> calls[r] > 0]

Fixed(q) ==
    /\ grant'[q] = grant[q]
    /\ (calls'[q] > 0) = (calls[q] > 0)
    /\ grant[q] = {} =>
          /\ Undecided(q)' = Undecided(q)
          /\ Undecided(q) => rows'[q].approvers = rows[q].approvers

\* The abstract values of one request.
LEMMA AbsFacts ==
    ASSUME NEW q \in Requests
    PROVE  /\ AbsVerdict[q] = IF grant[q] # {} THEN "granted"
                              ELSE IF Undecided(q) THEN "open" ELSE "refused"
           /\ AbsVotes[q] = IF grant[q] # {} THEN grant[q]
                            ELSE IF Undecided(q) THEN rows[q].approvers ELSE {}
           /\ AbsVerdict'[q] = IF grant'[q] # {} THEN "granted"
                               ELSE IF Undecided(q)' THEN "open" ELSE "refused"
           /\ AbsVotes'[q] = IF grant'[q] # {} THEN grant'[q]
                             ELSE IF Undecided(q)' THEN rows'[q].approvers ELSE {}
           /\ Performed[q] = (calls[q] > 0) /\ Performed'[q] = (calls'[q] > 0)
  BY DEF AbsVerdict, AbsVotes, Performed

\* A request whose row, grant and calls stay as they are looks the same.
LEMMA FixedLooksSame ==
    ASSUME NEW q \in Requests, Fixed(q)
    PROVE  /\ AbsVerdict'[q] = AbsVerdict[q] /\ AbsVotes'[q] = AbsVotes[q]
           /\ Performed'[q] = Performed[q]
  BY AbsFacts DEF Fixed

\* The abstract variables are functions on the requests.
LEMMA AbsFunctions ==
    ASSUME NEW r \in Requests, NEW v, NEW w, NEW z,
           \A q \in Requests \ {r} : Fixed(q),
           AbsVerdict'[r] = v, AbsVotes'[r] = w, Performed'[r] = z
    PROVE  /\ AbsVerdict' = [AbsVerdict EXCEPT ![r] = v]
           /\ AbsVotes' = [AbsVotes EXCEPT ![r] = w]
           /\ Performed' = [Performed EXCEPT ![r] = z]
<1>0. \A q \in Requests \ {r} : /\ AbsVerdict'[q] = AbsVerdict[q] /\ AbsVotes'[q] = AbsVotes[q]
                                /\ Performed'[q] = Performed[q]
  BY FixedLooksSame
<1>1. AbsVerdict' = [AbsVerdict EXCEPT ![r] = v]
  BY <1>0 DEF AbsVerdict
<1>2. AbsVotes' = [AbsVotes EXCEPT ![r] = w]
  BY <1>0 DEF AbsVotes
<1>3. Performed' = [Performed EXCEPT ![r] = z]
  BY <1>0 DEF Performed
<1> QED
  BY <1>1, <1>2, <1>3

\* A step that fixes every request is invisible.
LEMMA Invisible ==
    ASSUME \A q \in Requests : Fixed(q)
    PROVE  UNCHANGED Contract!contractVars
<1>1. \A q \in Requests : /\ AbsVerdict'[q] = AbsVerdict[q] /\ AbsVotes'[q] = AbsVotes[q]
                          /\ Performed'[q] = Performed[q]
  BY FixedLooksSame
<1>2. AbsVerdict' = AbsVerdict
  BY <1>1 DEF AbsVerdict
<1>3. AbsVotes' = AbsVotes
  BY <1>1 DEF AbsVotes
<1>4. Performed' = Performed
  BY <1>1 DEF Performed
<1> QED
  BY <1>2, <1>3, <1>4 DEF Contract!contractVars, Performed

\* A step after which an open request is closed without a grant is a refusal.
LEMMA Refusal ==
    ASSUME NEW r \in Requests, \A q \in Requests \ {r} : Fixed(q),
           grant[r] = {}, grant'[r] = {}, (calls'[r] > 0) = (calls[r] > 0),
           Undecided(r), ~Undecided(r)'
    PROVE  Contract!Next
<1>1. /\ AbsVerdict[r] = "open" /\ AbsVerdict'[r] = "refused" /\ AbsVotes'[r] = {}
      /\ Performed'[r] = Performed[r]
  BY AbsFacts
<1>2. /\ AbsVerdict' = [AbsVerdict EXCEPT ![r] = "refused"]
      /\ AbsVotes' = [AbsVotes EXCEPT ![r] = {}]
      /\ Performed' = [Performed EXCEPT ![r] = Performed[r]]
  BY <1>1, AbsFunctions
<1>3. Performed' = Performed
  BY <1>2 DEF Performed
<1>4. Contract!Refuse(r)
  BY <1>1, <1>2, <1>3 DEF Contract!Refuse, Performed
<1> QED
  BY <1>4 DEF Contract!Next

\* A step that adds an approver to an open request is a vote, and grants exactly
\* if it makes the quorum.
LEMMA Voting ==
    ASSUME NEW r \in Requests, NEW u \in Allowed, rows[r].approvers \subseteq Users,
           \A q \in Requests \ {r} : Fixed(q),
           grant[r] = {}, Undecided(r), (calls'[r] > 0) = (calls[r] > 0),
           \/ /\ Cardinality(rows[r].approvers \cup {u}) >= Need(r)
              /\ grant'[r] = rows[r].approvers \cup {u}
           \/ /\ ~(Cardinality(rows[r].approvers \cup {u}) >= Need(r))
              /\ grant'[r] = {} /\ Undecided(r)'
              /\ rows'[r].approvers = rows[r].approvers \cup {u}
    PROVE  Contract!Next
<1> DEFINE voted == rows[r].approvers \cup {u}
           quorum == Cardinality(voted) >= Need(r)
<1>1. /\ AbsVerdict[r] = "open" /\ AbsVotes[r] = rows[r].approvers
      /\ AbsVerdict'[r] = IF quorum THEN "granted" ELSE "open"
      /\ AbsVotes'[r] = voted
      /\ Performed'[r] = Performed[r]
  BY AbsFacts
<1>2. /\ AbsVerdict' = [AbsVerdict EXCEPT ![r] = IF quorum THEN "granted" ELSE "open"]
      /\ AbsVotes' = [AbsVotes EXCEPT ![r] = voted]
      /\ Performed' = [Performed EXCEPT ![r] = Performed[r]]
  BY <1>1, AbsFunctions
<1>3. Performed' = Performed
  BY <1>2 DEF Performed
<1>4. quorum <=> voted \in [q \in Requests |-> {v \in SUBSET Users : Cardinality(v) >= Need(q)}][r]
  BY HitlAssumption
<1>5. Contract!Vote(r, u)
  <2> HIDE DEF quorum, voted
  <2>1. voted = AbsVotes[r] \cup {u}
    BY <1>1 DEF voted
  <2> QED
    BY <2>1, <1>1, <1>2, <1>3, <1>4 DEF Contract!Vote, Performed
<1> QED
  BY <1>5 DEF Contract!Next

\* The first call for a granted request is its performance.
LEMMA Performing ==
    ASSUME NEW r \in Requests, \A q \in Requests \ {r} : Fixed(q),
           grant[r] # {}, grant'[r] = grant[r], ~(calls[r] > 0), calls'[r] > 0
    PROVE  Contract!Next
<1>1. /\ AbsVerdict[r] = "granted" /\ AbsVerdict'[r] = AbsVerdict[r]
      /\ AbsVotes'[r] = AbsVotes[r]
  BY AbsFacts
<1>p. ~Performed[r] /\ Performed'[r] = TRUE
  BY DEF Performed
<1>2. /\ AbsVerdict' = [AbsVerdict EXCEPT ![r] = AbsVerdict[r]]
      /\ AbsVotes' = [AbsVotes EXCEPT ![r] = AbsVotes[r]]
      /\ Performed' = [Performed EXCEPT ![r] = TRUE]
  BY <1>1, <1>p, AbsFunctions
<1>3. AbsVerdict' = AbsVerdict /\ AbsVotes' = AbsVotes
  BY <1>2 DEF AbsVerdict, AbsVotes
<1>4. Contract!Perform(r)
  BY <1>1, <1>p, <1>2, <1>3 DEF Contract!Perform, Performed
<1> QED
  BY <1>4 DEF Contract!Next

(***************************************************************************)
(* Rows without a request stay blank                                       *)
(***************************************************************************)

LEMMA BlankKept ==
    ASSUME TypeOK, Position, Blank, [Next]_vars
    PROVE  Blank'
<1>0. rows \in [Requests -> Rows]
  BY DEF TypeOK
<1>s. ASSUME rows' = rows PROVE Blank'
  BY <1>s DEF Blank
<1>p. ASSUME rows' = Prune(rows) PROVE Blank'
  BY <1>0, <1>p DEF Blank, Prune, NoRow
<1>m. ASSUME NEW r \in Requests, NEW st \in Statuses, rows' = Mark(r, st) PROVE Blank'
  BY <1>0, <1>m DEF Blank, Mark, Rows, Statuses, Settled
<1>1. CASE UNCHANGED vars
  BY <1>1, <1>s DEF vars
<1>2. CASE Tick
  BY <1>2, <1>s DEF Tick
<1>3. ASSUME NEW r \in Requests, Send(r) \/ GuestChanges(r) PROVE Blank'
  <2>1. CASE Insert(r)
    BY <2>1, <1>0 DEF Insert, Blank, Prune, NoRow
  <2>2. CASE CloseUnsent(r)
    BY <2>2, <1>m DEF CloseUnsent, Statuses, Settled
  <2> QED
    BY <1>3, <2>1, <2>2, <1>s DEF Send, Resolve, SendOk, SendErr, SenderDies, GuestChanges
<1>4. ASSUME NEW r \in Requests, NEW u \in Users, NEW dec \in {"approve", "deny"},
             NEW genuine \in BOOLEAN, Press(r, u, dec, genuine)
      PROVE  Blank'
  BY <1>4, <1>s DEF Press
<1>5. ASSUME NEW d \in Daemons, Evaluate(d) PROVE Blank'
  <2>0. CASE IgnoreCallback(d) \/ DropCallback(d)
    BY <2>0, <1>s DEF IgnoreCallback, DropCallback
  <2>1. CASE ExpireRequest(d)
    <3>1. Current(d).req \in Requests
      BY <2>1, CurrentTyped DEF ExpireRequest, Updates
    <3> QED
      BY <2>1, <3>1, <1>0 DEF ExpireRequest, Blank, Rows
  <2>2. CASE DenyRequest(d)
    <3>1. Current(d).req \in Requests
      BY <2>2, CurrentTyped DEF DenyRequest, Deciding, Updates
    <3> QED
      BY <2>2, <3>1, <1>0 DEF DenyRequest, Blank, Rows
  <2>3. CASE AwaitApprovals(d)
    <3>1. Current(d).req \in Requests /\ rows[Current(d).req].status = "pending"
      BY <2>3, CurrentTyped DEF AwaitApprovals, Deciding, Updates, CurrentRow
    <3> QED
      BY <2>3, <3>1, <1>0 DEF AwaitApprovals, Blank, Rows
  <2>4. CASE ApproveRequest(d)
    <3>1. Current(d).req \in Requests
      BY <2>4, CurrentTyped DEF ApproveRequest, Deciding, Updates
    <3> QED
      BY <2>4, <3>1, <1>0 DEF ApproveRequest, Blank, Rows
  <2> QED
    BY <1>5, <2>0, <2>1, <2>2, <2>3, <2>4 DEF Evaluate
<1>6. ASSUME NEW d \in Daemons, ExecuteApproved(d) PROVE Blank'
  <2>1. CASE CheckRefuses(d) \/ LookupFails(d) \/ Record(d)
    <3>1. daemon[d].req \in Requests
      BY <2>1 DEF CheckRefuses, LookupFails, Record, Position, OwnPoints
    <3>2. \E st \in Statuses : MarkBestEffort(daemon[d].req, st)
      BY <2>1 DEF CheckRefuses, LookupFails, Record, Statuses, Settled
    <3> QED
      BY <3>1, <3>2, <1>m, <1>s DEF MarkBestEffort
  <2> QED
    BY <1>6, <2>1, <1>s DEF ExecuteApproved, CheckPasses, Issue, Return, EditMessage
<1>7. ASSUME NEW d \in Daemons,
             Start(d) \/ Poll(d) \/ PollNothing(d) \/ ShowExecuting(d) \/ Crash(d)
      PROVE  Blank'
  BY <1>7, <1>s, <1>p DEF Start, Poll, PollNothing, ShowExecuting, Crash
<1> QED
  BY <1>1, <1>2, <1>3, <1>4, <1>5, <1>6, <1>7 DEF Next, Serve

(***************************************************************************)
(* Every step is a step of the contract, or invisible                      *)
(***************************************************************************)

\* A pruned row was settled: the contract does not see it go.
LEMMA PruneInvisible ==
    ASSUME TypeOK, Ownership, UNCHANGED <<grant, calls>>, NEW q \in Requests,
           sender'[q] = sender[q], rows'[q] = Prune(rows)[q]
    PROVE  Fixed(q)
<1>1. rows[q].status \in Settled => ~Undecided(q)
  BY DEF Ownership, Undecided, Settled
<1>2. rows'[q] = rows[q] \/ (rows[q].status \in Settled /\ rows'[q] = NoRow)
  BY DEF Prune
<1>3. CASE rows'[q] = rows[q]
  BY <1>3 DEF Fixed, Undecided
<1>4. CASE rows[q].status \in Settled /\ rows'[q] = NoRow
  BY <1>1, <1>4 DEF Fixed, Undecided, NoRow
<1> QED
  BY <1>2, <1>3, <1>4

LEMMA SendKeeps ==
    ASSUME TypeOK, Ownership, Blank, NEW r \in Requests, Send(r) \/ GuestChanges(r)
    PROVE  Contract!Next \/ UNCHANGED Contract!contractVars
<1>0. /\ rows \in [Requests -> Rows] /\ sender \in [Requests -> Senders]
      /\ UNCHANGED <<grant, calls>>
  BY DEF TypeOK, Send, Resolve, Insert, SendOk, SendErr, CloseUnsent, SenderDies,
         GuestChanges
<1>q. ASSUME NEW q \in Requests, rows'[q] = rows[q], sender'[q] = sender[q]
      PROVE  Fixed(q)
  BY <1>0, <1>q DEF Fixed, Undecided
<1>1. CASE Resolve(r)
  <2>1. \A q \in Requests \ {r} : Fixed(q)
    BY <1>1, <1>0, <1>q DEF Resolve
  <2>2. Fixed(r)
    BY <1>1, <1>0 DEF Resolve, Fixed, Undecided
  <2> QED
    BY <2>1, <2>2, Invisible
<1>2. CASE Insert(r)
  <2>1. \A q \in Requests \ {r} : sender'[q] = sender[q] /\ rows'[q] = Prune(rows)[q]
    BY <1>2, <1>0 DEF Insert, Prune
  <2>2. \A q \in Requests \ {r} : Fixed(q)
    BY <2>1, <1>0, PruneInvisible
  <2>3. rows'[r].status = "pending" /\ rows'[r].approvers = {}
    BY <1>2 DEF Insert, Prune
  <2>4. rows[r].approvers = {} /\ Undecided(r)
    BY <1>2 DEF Insert, Ownership, Blank, Undecided
  <2>5. Fixed(r)
    BY <2>3, <2>4, <1>0 DEF Fixed, Undecided
  <2> QED
    BY <2>2, <2>5, Invisible
<1>3. CASE SendOk(r) \/ SendErr(r)
  <2>1. \A q \in Requests \ {r} : Fixed(q)
    BY <1>3, <1>0, <1>q DEF SendOk, SendErr
  <2>2. Fixed(r)
    BY <1>3, <1>0 DEF SendOk, SendErr, Fixed, Undecided, Senders
  <2> QED
    BY <2>1, <2>2, Invisible
<1>4. CASE CloseUnsent(r)
  <2>1. \A q \in Requests \ {r} : rows'[q] = rows[q] /\ sender'[q] = sender[q]
    BY <1>4, <1>0 DEF CloseUnsent, Mark
  <2>2. \A q \in Requests \ {r} : Fixed(q)
    BY <2>1, <1>q
  <2>3. ~Undecided(r)'
    BY <1>4, <1>0 DEF CloseUnsent, Mark, Undecided, Senders, Rows
  <2>4. CASE rows[r].status = "pending"
    <3>1. grant[r] = {} /\ Undecided(r)
      BY <2>4 DEF Ownership, Undecided
    <3> QED
      BY <2>2, <2>3, <3>1, <1>0, Refusal
  <2>5. CASE rows[r].status # "pending"
    <3>1. ~Undecided(r)
      BY <2>5, <1>4 DEF CloseUnsent, Undecided
    <3>2. Fixed(r)
      BY <2>3, <3>1, <1>0 DEF Fixed, Undecided
    <3> QED
      BY <2>2, <3>2, Invisible
  <2> QED
    BY <2>4, <2>5
<1>5. CASE SenderDies(r)
  <2>1. \A q \in Requests \ {r} : Fixed(q)
    BY <1>5, <1>0, <1>q DEF SenderDies
  <2>2. CASE sender[r].pc = "resolved"
    <3>1. grant[r] = {} /\ Undecided(r) /\ ~Undecided(r)'
      BY <2>2, <1>5, <1>0 DEF Ownership, Undecided, SenderDies, Senders
    <3> QED
      BY <2>1, <3>1, <1>0, Refusal
  <2>3. CASE sender[r].pc # "resolved"
    <3>1. Fixed(r)
      BY <2>3, <1>5, <1>0 DEF SenderDies, Fixed, Undecided, Senders
    <3> QED
      BY <2>1, <3>1, Invisible
  <2> QED
    BY <2>2, <2>3
<1>6. CASE GuestChanges(r)
  BY <1>6, <1>q, Invisible DEF GuestChanges
<1> QED
  BY <1>1, <1>2, <1>3, <1>4, <1>5, <1>6 DEF Send

LEMMA EvaluateKeeps ==
    ASSUME TypeOK, Position, Ownership, NEW d \in Daemons, Evaluate(d)
    PROVE  Contract!Next \/ UNCHANGED Contract!contractVars
<1>h. Handling(d)
  BY DEF Evaluate, IgnoreCallback, DropCallback, ExpireRequest, DenyRequest,
         AwaitApprovals, ApproveRequest, Deciding
<1>r. PICK r \in Requests : r = Current(d).req
  BY <1>h, CurrentTyped DEF Updates
<1>0. /\ rows \in [Requests -> Rows] /\ CurrentRow(d) = rows[r]
      /\ grant \in [Requests -> SUBSET Users]
      /\ UNCHANGED <<sender, calls>>
  BY <1>h, <1>r DEF TypeOK, CurrentRow, Evaluate, IgnoreCallback,
     DropCallback, ExpireRequest, DenyRequest, AwaitApprovals, ApproveRequest
<1>q. ASSUME NEW q \in Requests, rows'[q] = rows[q], grant'[q] = grant[q]
      PROVE  Fixed(q)
  BY <1>0, <1>q DEF Fixed, Undecided
<1>o. rows[r].status # "none" => ~(sender[r].pc \in {"idle", "resolved"})
  BY <1>0, <1>r DEF Ownership
<1>1. CASE IgnoreCallback(d) \/ DropCallback(d)
  BY <1>1, <1>q, Invisible DEF IgnoreCallback, DropCallback
<1>2. CASE ExpireRequest(d)
  <2>1. \A q \in Requests \ {r} : Fixed(q)
    BY <1>2, <1>0, <1>r, <1>q DEF ExpireRequest
  <2>2. grant' = grant /\ rows'[r].status = "expired" /\ rows'[r].approvers = rows[r].approvers
    BY <1>2, <1>0, <1>r DEF ExpireRequest, Rows
  <2>3. rows[r].status \in {"expired", "pending"}
    BY <1>2, <1>0, <1>r DEF ExpireRequest, TimedOut
  <2>4. CASE rows[r].status = "expired"
    <3>1. Fixed(r)
      BY <2>2, <2>4, <1>0, <1>r DEF Fixed, Undecided
    <3> QED
      BY <2>1, <3>1, Invisible
  <2>5. CASE rows[r].status = "pending"
    <3>1. grant[r] = {} /\ Undecided(r) /\ ~Undecided(r)'
      BY <2>2, <2>5, <1>0, <1>r, <1>o DEF Ownership, Undecided
    <3> QED
      BY <2>1, <2>2, <3>1, <1>0, <1>r, Refusal
  <2> QED
    BY <2>3, <2>4, <2>5
<1>3. CASE DenyRequest(d)
  <2>1. \A q \in Requests \ {r} : Fixed(q)
    BY <1>3, <1>0, <1>r, <1>q DEF DenyRequest
  <2>2. grant' = grant /\ rows'[r].status = "denied" /\ rows[r].status = "pending"
    BY <1>3, <1>0, <1>r DEF DenyRequest, Deciding, Rows
  <2>3. grant[r] = {} /\ Undecided(r) /\ ~Undecided(r)'
    BY <2>2, <1>0, <1>r, <1>o DEF Ownership, Undecided
  <2> QED
    BY <2>1, <2>2, <2>3, <1>0, <1>r, Refusal
<1>4. CASE AwaitApprovals(d) \/ ApproveRequest(d)
  <2>u. PICK u \in Allowed : u = Current(d).user
    BY <1>4 DEF AwaitApprovals, ApproveRequest, Deciding, Verified
  <2>1. VotesWith(d) = rows[r].approvers \cup {u}
    BY <2>u, <1>0, <1>r DEF VotesWith
  <2>2. rows[r].status = "pending" /\ rows[r].approvers \subseteq Users
    BY <1>4, <1>0, <1>r DEF AwaitApprovals, ApproveRequest, Deciding, Rows
  <2>3. grant[r] = {} /\ Undecided(r)
    BY <2>2, <1>0, <1>r DEF Ownership, Undecided
  <2>4. \A q \in Requests \ {r} : Fixed(q)
    BY <1>4, <1>0, <1>r, <1>q DEF AwaitApprovals, ApproveRequest
  <2>5. QuorumMet(d) <=> Cardinality(rows[r].approvers \cup {u}) >= Need(r)
    BY <2>1, <1>r DEF QuorumMet
  <2>6. CASE AwaitApprovals(d)
    <3>1. /\ grant' = grant /\ rows'[r].approvers = rows[r].approvers \cup {u}
          /\ rows'[r].status = "pending" /\ ~QuorumMet(d)
      BY <2>6, <2>1, <2>2, <1>0, <1>r DEF AwaitApprovals, Rows
    <3>2. Undecided(r)'
      BY <3>1 DEF Undecided
    <3> QED
      BY <2>1, <2>2, <2>3, <2>4, <2>5, <3>1, <3>2, <1>0, <1>r, Voting
  <2>7. CASE ApproveRequest(d)
    <3>1. grant'[r] = rows[r].approvers \cup {u} /\ QuorumMet(d)
      BY <2>7, <2>1, <1>0, <1>r DEF ApproveRequest
    <3> QED
      BY <2>1, <2>2, <2>3, <2>4, <2>5, <3>1, <1>0, <1>r, Voting
  <2> QED
    BY <1>4, <2>6, <2>7
<1> QED
  BY <1>1, <1>2, <1>3, <1>4 DEF Evaluate

LEMMA ExecuteKeeps ==
    ASSUME TypeOK, Position, Ownership, NEW d \in Daemons, ExecuteApproved(d)
    PROVE  Contract!Next \/ UNCHANGED Contract!contractVars
<1>r. PICK r \in Requests : r = daemon[d].req
  BY DEF Position, OwnPoints, ExecuteApproved, CheckPasses, CheckRefuses,
         LookupFails, Issue, Return, Record, EditMessage
<1>0. /\ rows \in [Requests -> Rows] /\ calls \in [Requests -> Nat]
      /\ UNCHANGED <<sender, grant>>
  BY DEF TypeOK, ExecuteApproved, CheckPasses, CheckRefuses,
         LookupFails, Issue, Return, Record, EditMessage
<1>q. ASSUME NEW q \in Requests, rows'[q] = rows[q], calls'[q] = calls[q]
      PROVE  Fixed(q)
  BY <1>0, <1>q DEF Fixed, Undecided
<1>1. CASE CheckPasses(d) \/ Return(d) \/ EditMessage(d)
  BY <1>1, <1>q, Invisible DEF CheckPasses, Return, EditMessage
<1>2. CASE CheckRefuses(d) \/ LookupFails(d) \/ Record(d)
  <2>1. Owns(d, r) /\ calls' = calls
    BY <1>2, <1>r DEF CheckRefuses, LookupFails, Record, Owns, OwnPoints
  <2>2. grant[r] # {}
    BY <2>1, <1>0 DEF Ownership
  <2>3. \A q \in Requests \ {r} : rows'[q] = rows[q]
    BY <1>2, <1>r, <1>0 DEF CheckRefuses, LookupFails, Record, MarkBestEffort, Mark
  <2>4. Fixed(r)
    BY <2>1, <2>2, <1>0 DEF Fixed
  <2> QED
    BY <2>1, <2>3, <2>4, <1>q, Invisible
<1>3. CASE Issue(d)
  <2>1. Owns(d, r) /\ daemon[d].pc = "execute" /\ rows' = rows
    BY <1>3, <1>r DEF Issue, Owns, OwnPoints
  <2>2. grant[r] # {} /\ calls[r] = 0
    BY <2>1, <1>0 DEF Ownership
  <2>3. calls'[r] = 1 /\ \A q \in Requests \ {r} : calls'[q] = calls[q]
    BY <1>3, <1>r, <2>2, <1>0 DEF Issue
  <2>4. \A q \in Requests \ {r} : Fixed(q)
    BY <2>1, <2>3, <1>q
  <2>5. ~(calls[r] > 0) /\ calls'[r] > 0 /\ grant'[r] = grant[r]
    BY <2>2, <2>3, <1>0
  <2> QED
    BY <2>2, <2>4, <2>5, <1>0, Performing
<1> QED
  BY <1>1, <1>2, <1>3 DEF ExecuteApproved

LEMMA NextKeeps ==
    ASSUME TypeOK, Position, Ownership, Blank, [Next]_vars
    PROVE  Contract!Next \/ UNCHANGED Contract!contractVars
<1>q. ASSUME UNCHANGED <<rows, sender, grant, calls>>
      PROVE  UNCHANGED Contract!contractVars
  BY <1>q, Invisible DEF Fixed, Undecided
<1>1. CASE UNCHANGED vars
  BY <1>1, <1>q DEF vars
<1>2. CASE Tick
  BY <1>2, <1>q DEF Tick
<1>3. ASSUME NEW r \in Requests, NEW u \in Users, NEW dec \in {"approve", "deny"},
             NEW genuine \in BOOLEAN, Press(r, u, dec, genuine)
      PROVE  UNCHANGED Contract!contractVars
  BY <1>3, <1>q DEF Press
<1>4. ASSUME NEW d \in Daemons,
             Poll(d) \/ PollNothing(d) \/ ShowExecuting(d) \/ Crash(d)
      PROVE  UNCHANGED Contract!contractVars
  BY <1>4, <1>q DEF Poll, PollNothing, ShowExecuting, Crash
<1>5. ASSUME NEW d \in Daemons, Start(d) PROVE UNCHANGED Contract!contractVars
  BY <1>5, PruneInvisible, Invisible DEF Start
<1> QED
  BY <1>1, <1>2, <1>3, <1>4, <1>5, SendKeeps, EvaluateKeeps, ExecuteKeeps DEF Next, Serve

LEMMA InitKeeps == Init => Contract!Init /\ Blank
<1> SUFFICES ASSUME Init PROVE Contract!Init /\ Blank
  OBVIOUS
<1>1. \A q \in Requests : /\ grant[q] = {} /\ rows[q].approvers = {} /\ calls[q] = 0
                          /\ sender[q].pc = "idle"
  BY DEF Init, NoRow
<1>2. AbsVerdict = [q \in Requests |-> "open"] /\ AbsVotes = [q \in Requests |-> {}]
  BY <1>1 DEF AbsVerdict, AbsVotes, Undecided
<1>3. \A q \in Requests : (calls[q] > 0) = FALSE
  BY <1>1
<1>4. [q \in Requests |-> calls[q] > 0] = [q \in Requests |-> FALSE]
  BY <1>3
<1> QED
  BY <1>1, <1>2, <1>4 DEF Contract!Init, Blank

\* HitlApprovals implements ApprovalContract: whatever is redelivered, however
\* many daemons serve the store and wherever they crash, what handle_callback_update
\* does for a request is a vote, a refusal or its one performance.
THEOREM ContractKept == Spec => KeepsContract
<1>1. Init => Contract!Init /\ Blank
  BY InitKeeps
<1>2. TypeOK /\ ApprovalInv /\ Blank /\ [Next]_vars => Blank'
  BY BlankKept DEF ApprovalInv
<1>3. TypeOK /\ ApprovalInv /\ Blank /\ [Next]_vars
        => [Contract!Next]_(Contract!contractVars)
  BY NextKeeps DEF ApprovalInv
<1> QED
  BY <1>1, <1>2, <1>3, TypeCorrect, Invariance, PTL DEF Spec, KeepsContract, Contract!Spec
=============================================================================
