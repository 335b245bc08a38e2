------------------------- MODULE MutationGateProofs -------------------------
(***************************************************************************)
(* Machine-checked proofs about MutationGate, for any number of calls,     *)
(* profiles, attempts, freezes, thaws, torn lock files and reloads.        *)
(***************************************************************************)
EXTENDS MutationGate, TLAPS

\* What the proofs use of the constants.
LEMMA GateConstants ==
    /\ Mutations \subseteq Calls
    /\ MaxAttempts \in Nat /\ MaxAttempts >= 1
    /\ \A c \in Calls : ProfileOf[c] \in Profiles \cup {"flat"}
    /\ "global" \notin Profiles /\ "flat" \notin Profiles /\ "read_only" \notin Profiles
    /\ NoLock \in LockFiles
  BY GateAssumption DEF GateAssumption, NoLock, LockFiles

\* The locks that can bar a call.
LEMMA LocksOnTyped ==
    ASSUME NEW c \in Calls, NEW ro, NEW files, NEW t
    PROVE  LocksOn(c, ro, files, t) \in SUBSET (Scopes \cup {"read_only"})
  BY GateConstants DEF LocksOn, Governing, Scopes

\* Barring sets only shrink, to the locks that are on.
LEMMA StillBarredFacts ==
    ASSUME TypeOK, NEW ro, NEW files, NEW t
    PROVE  /\ StillBarred(ro, files, t) \in [Calls -> SUBSET (Scopes \cup {"read_only"})]
           /\ \A c \in Calls :
                 /\ StillBarred(ro, files, t)[c] \subseteq barred[c]
                 /\ StillBarred(ro, files, t)[c] \subseteq LocksOn(c, ro, files, t)
  BY DEF StillBarred, TypeOK

\* A step of the operators or of the clock, seen from the calls: they stay where
\* they are and what bars them can only fall away.
Outside ==
    /\ UNCHANGED <<call, trail, executed>>
    /\ barred' = StillBarred(readOnly', locks', now')

LEMMA OutsideSteps ==
    ASSUME NEW s \in Scopes, NEW ttl,
           Tick \/ Reload \/ Thaw(s) \/ Tear(s) \/ Freeze(s, ttl)
    PROVE  Outside
  BY DEF Outside, Tick, Reload, Thaw, Tear, Freeze

----------------------------------------------------------------------------
(* Type correctness.                                                       *)

\* The first state is well typed.
LEMMA GateTypeInit == Init => TypeOK
  BY GateConstants DEF Init, TypeOK, CallLocals, Points, Results

\* A result is delivered to a call of the right type.
LEMMA FinishTyped ==
    ASSUME TypeOK, NEW c \in Calls, NEW result \in {"ok", "error", "warned"},
           Finish(c, result)
    PROVE  /\ call' \in [Calls -> CallLocals]
           /\ trail' \in [Calls -> SUBSET {"sent", "ok", "error"}]
<1>1. call' \in [Calls -> CallLocals]
  <2>1. PICK shown \in {"ok", "error", "warned"} :
            call' = [call EXCEPT ![c].pc = "done", ![c].result = shown]
    BY DEF Finish
  <2>2. [[call[c] EXCEPT !.pc = "done"] EXCEPT !.result = shown] \in CallLocals
    BY DEF TypeOK, CallLocals, Points, Results
  <2>3. call' = [call EXCEPT ![c] = [[call[c] EXCEPT !.pc = "done"] EXCEPT !.result = shown]]
    BY <2>1 DEF TypeOK
  <2> QED
    BY <2>2, <2>3 DEF TypeOK
<1>2. trail' \in [Calls -> SUBSET {"sent", "ok", "error"}]
  BY DEF Finish, TypeOK
<1> QED
  BY <1>1, <1>2

\* A call that moves to another control point stays well typed.
LEMMA GotoTyped ==
    ASSUME TypeOK, NEW c \in Calls, NEW point \in Points, Goto(c, point)
    PROVE  call' \in [Calls -> CallLocals]
  BY DEF Goto, TypeOK, CallLocals

\* Every step keeps the types.
LEMMA GateTypeStep == TypeOK /\ [Next]_vars => TypeOK'
<1> SUFFICES ASSUME TypeOK, [Next]_vars PROVE TypeOK'
  OBVIOUS
<1> USE GateConstants
<1>1. CASE Tick
  BY <1>1, StillBarredFacts DEF Tick, TypeOK
<1>2. CASE Reload
  BY <1>2, StillBarredFacts DEF Reload, Turn, TypeOK
<1>3. ASSUME NEW s \in Scopes, Thaw(s) PROVE TypeOK'
  BY <1>3, StillBarredFacts DEF Thaw, Turn, TypeOK
<1>4. ASSUME NEW s \in Scopes, Tear(s) PROVE TypeOK'
  <2>1. locks' \in [Scopes -> LockFiles]
    BY <1>4 DEF Tear, TypeOK, LockFiles
  <2> QED
    BY <1>4, <2>1, StillBarredFacts DEF Tear, Turn, TypeOK
<1>5. ASSUME NEW s \in Scopes, NEW ttl \in Ttls \cup {Forever}, Freeze(s, ttl) PROVE TypeOK'
  <2>1. locks' \in [Scopes -> LockFiles]
    BY <1>5 DEF Freeze, TypeOK, LockFiles
  <2> QED
    BY <1>5, <2>1, StillBarredFacts DEF Freeze, Turn, TypeOK
<1>6. ASSUME NEW c \in Calls, Begin(c) PROVE TypeOK'
  <2>1. call' \in [Calls -> CallLocals]
    BY <1>6, GotoTyped DEF Begin, Points
  <2>2. barred' \in [Calls -> SUBSET (Scopes \cup {"read_only"})]
    <3>1. LocksOn(c, readOnly, locks, now) \in SUBSET (Scopes \cup {"read_only"})
      BY LocksOnTyped
    <3> QED
      BY <1>6, <3>1 DEF Begin, TypeOK
  <2> QED
    BY <1>6, <2>1, <2>2 DEF Begin, TypeOK
<1>7. ASSUME NEW c \in Calls, GuardReadOnly(c) \/ CheckGlobal(c) \/ CheckOwn(c) PROVE TypeOK'
  <2>1. call' \in [Calls -> CallLocals]
    BY <1>7, GotoTyped DEF GuardReadOnly, CheckGlobal, CheckOwn, Points
  <2> QED
    BY <1>7, <2>1 DEF GuardReadOnly, CheckGlobal, CheckOwn, TypeOK
<1>8. ASSUME NEW c \in Calls, WriteAhead(c) PROVE TypeOK'
  <2>1. call' \in [Calls -> CallLocals]
    BY <1>8, GotoTyped DEF WriteAhead, Points
  <2> QED
    BY <1>8, <2>1 DEF WriteAhead, TypeOK
<1>9. ASSUME NEW c \in Calls, Attempt(c) PROVE TypeOK'
  <2>1. CASE Finish(c, "error")
    BY <1>9, <2>1, FinishTyped DEF Attempt, TypeOK
  <2>2. CASE call' = [call EXCEPT ![c].pc = "wire", ![c].attempt = @ + 1] /\ UNCHANGED trail
    <3>1. call' \in [Calls -> CallLocals]
      BY <2>2 DEF TypeOK, CallLocals, Points
    <3> QED
      BY <1>9, <2>2, <3>1 DEF Attempt, TypeOK
  <2> QED
    BY <1>9, <2>1, <2>2 DEF Attempt
<1>10. ASSUME NEW c \in Calls, Reauth(c) PROVE TypeOK'
  <2>1. CASE Finish(c, "error")
    BY <1>10, <2>1, FinishTyped DEF Reauth, TypeOK
  <2>2. CASE Goto(c, "auth") /\ UNCHANGED trail
    <3>1. call' \in [Calls -> CallLocals]
      BY <2>2, GotoTyped DEF Points
    <3> QED
      BY <1>10, <2>2, <3>1 DEF Reauth, TypeOK
  <2> QED
    BY <1>10, <2>1, <2>2 DEF Reauth
<1>11. ASSUME NEW c \in Calls, NEW a \in Answers, Receive(c, a) PROVE TypeOK'
  <2>1. executed' \in [Calls -> Nat]
    BY <1>11 DEF Receive, Executes, TypeOK
  <2>2. call' \in [Calls -> CallLocals] /\ trail' \in [Calls -> SUBSET {"sent", "ok", "error"}]
    <3>1. CASE Finish(c, ResultOf(c, a))
      <4>1. ResultOf(c, a) \in {"ok", "error", "warned"}
        BY DEF ResultOf
      <4> QED
        BY <3>1, <4>1, FinishTyped
    <3>2. CASE Goto(c, "auth") /\ UNCHANGED trail
      BY <3>2, GotoTyped DEF Points, TypeOK
    <3>3. CASE /\ call' = [call EXCEPT ![c].pc = "reauth", ![c].reauthed = TRUE]
               /\ UNCHANGED trail
      BY <3>3 DEF TypeOK, CallLocals, Points
    <3> QED
      BY <1>11, <3>1, <3>2, <3>3 DEF Receive
  <2> QED
    BY <1>11, <2>1, <2>2 DEF Receive, TypeOK
<1>12. CASE UNCHANGED vars
  BY <1>12 DEF vars, TypeOK
<1> QED
  BY <1>1, <1>2, <1>3, <1>4, <1>5, <1>6, <1>7, <1>8, <1>9, <1>10, <1>11, <1>12 DEF Next, Step

\* Every reachable state of the gateway layer is well typed: call locals, lock
\* files, audit rows and the barring sets.
THEOREM GateTypes == Spec => []TypeOK
  BY GateTypeInit, GateTypeStep, PTL DEF Spec

----------------------------------------------------------------------------
(* The inductive invariant.                                                *)

\* One call moves and the others keep everything the invariant speaks of.
Only(c) ==
    \A d \in Calls \ {c} :
        /\ call'[d] = call[d] /\ trail'[d] = trail[d]
        /\ executed'[d] = executed[d] /\ barred'[d] = barred[d]

\* A step of one call concerns that call alone.
LEMMA StepIsOwn == ASSUME TypeOK, NEW c \in Calls, Step(c) PROVE Only(c)
<1>1. CASE Begin(c)
  BY <1>1 DEF Begin, Goto, Only, TypeOK
<1>2. CASE GuardReadOnly(c) \/ CheckGlobal(c) \/ CheckOwn(c)
  BY <1>2 DEF GuardReadOnly, CheckGlobal, CheckOwn, Goto, Only, TypeOK
<1>3. CASE WriteAhead(c)
  BY <1>3 DEF WriteAhead, Goto, Only, TypeOK
<1>4. CASE Attempt(c) \/ Reauth(c)
  BY <1>4 DEF Attempt, Reauth, Finish, Goto, Only, TypeOK
<1>5. ASSUME NEW a \in Answers, Receive(c, a) PROVE Only(c)
  BY <1>5 DEF Receive, Executes, Finish, Goto, Only, TypeOK
<1> QED
  BY <1>1, <1>2, <1>3, <1>4, <1>5 DEF Step

\* Locks and clock stand still while a call steps.
LEMMA StepLeavesLocks ==
    ASSUME NEW c \in Calls, Step(c)
    PROVE  UNCHANGED <<now, readOnly, locks, turns>>
  BY DEF Step, Begin, GuardReadOnly, CheckGlobal, CheckOwn, WriteAhead, Attempt, Reauth, Receive

\* What a call's first step does.
LEMMA BeginKeeps ==
    ASSUME TypeOK, NEW c \in Calls, Begin(c), Budget(c), c \in Mutations => Progress(c)
    PROVE  Budget(c)' /\ (c \in Mutations => Progress(c)' /\ Ahead(c)')
<1>1. /\ call'[c].pc = (IF c \in Mutations THEN "guard" ELSE "auth")
      /\ call'[c].attempt = call[c].attempt /\ call[c].pc = "idle"
      /\ call'[c].reauthed = call[c].reauthed
  BY DEF Begin, Goto, TypeOK, CallLocals
<1>2. Budget(c)'
  BY <1>1, GateConstants DEF Budget, Gated, TypeOK, CallLocals
<1>3. c \in Mutations => barred'[c] = LocksOn(c, readOnly, locks, now)
  BY DEF Begin, TypeOK
<1>4. trail' = trail /\ executed' = executed /\ UNCHANGED <<now, readOnly, locks>>
  BY DEF Begin
<1>5. c \in Mutations => Progress(c)'
  BY <1>1, <1>4 DEF Progress, Gated, Sending
<1>6. c \in Mutations => Ahead(c)'
  BY <1>1, <1>3, <1>4 DEF Ahead, Gated, LocksOn
<1> QED
  BY <1>2, <1>5, <1>6

\* The three gates: a call that passes one is not barred by it.
LEMMA GatesKeep ==
    ASSUME TypeOK, NEW c \in Calls, GuardReadOnly(c) \/ CheckGlobal(c) \/ CheckOwn(c),
           Budget(c), c \in Mutations => Progress(c) /\ Ahead(c)
    PROVE  Budget(c)' /\ (c \in Mutations => Progress(c)' /\ Ahead(c)')
<1>1. /\ call[c].pc \in {"guard", "global", "own"}
      /\ call'[c].pc \in {"global", "own", "audit", "refused"}
      /\ call'[c].attempt = call[c].attempt
      /\ UNCHANGED <<now, readOnly, locks, trail, executed, barred>>
  BY DEF GuardReadOnly, CheckGlobal, CheckOwn, Goto, TypeOK, CallLocals
<1>2. Budget(c)'
  BY <1>1 DEF Budget, Gated
<1>3. c \in Mutations => Progress(c)'
  BY <1>1 DEF Progress, Gated, Sending
<1>4. ASSUME c \in Mutations PROVE Ahead(c)'
  <2>1. barred[c] \subseteq LocksOn(c, readOnly, locks, now)
    BY <1>4 DEF Ahead
  <2>2. CASE GuardReadOnly(c)
    <3>1. /\ call'[c].pc = (IF readOnly THEN "refused" ELSE "global")
      BY <2>2 DEF GuardReadOnly, Goto, TypeOK, CallLocals
    <3>2. ~readOnly => "read_only" \notin barred[c]
      BY <2>1, GateConstants DEF LocksOn, Governing
    <3> QED
      BY <1>1, <2>1, <3>1, <3>2 DEF Ahead, Gated, LocksOn
  <2>3. CASE CheckGlobal(c)
    <3>1. /\ call'[c].pc = (IF Active(locks["global"], now) THEN "refused" ELSE "own")
          /\ call[c].pc = "global"
      BY <2>3 DEF CheckGlobal, Goto, TypeOK, CallLocals
    <3>2. ~Active(locks["global"], now) => "global" \notin barred[c]
      BY <2>1 DEF LocksOn
    <3>3. "read_only" \notin barred[c]
      BY <1>4, <3>1 DEF Ahead
    <3> QED
      BY <1>1, <2>1, <3>1, <3>2, <3>3 DEF Ahead, Gated, LocksOn
  <2>4. CASE CheckOwn(c)
    <3> DEFINE Mine == ProfileOf[c] # "flat" /\ Active(locks[ProfileOf[c]], now)
    <3>1. /\ call'[c].pc = (IF Mine THEN "refused" ELSE "audit")
          /\ call[c].pc = "own"
      BY <2>4 DEF CheckOwn, Goto, TypeOK, CallLocals
    <3>2. "read_only" \notin barred[c] /\ "global" \notin barred[c]
      BY <1>4, <3>1 DEF Ahead
    <3>3. ~Mine => barred[c] = {}
      BY <2>1, <3>2 DEF LocksOn, Governing
    <3> QED
      BY <1>1, <2>1, <3>1, <3>2, <3>3 DEF Ahead, Gated, LocksOn
  <2> QED
    BY <2>2, <2>3, <2>4
<1> QED
  BY <1>2, <1>3, <1>4

\* The write-ahead row: the call goes on with it, or is refused without.
LEMMA WriteAheadKeeps ==
    ASSUME TypeOK, NEW c \in Calls, WriteAhead(c),
           Budget(c), c \in Mutations => Progress(c) /\ Ahead(c)
    PROVE  Budget(c)' /\ (c \in Mutations => Progress(c)' /\ Ahead(c)')
<1>1. /\ call[c].pc = "audit"
      /\ call'[c].attempt = call[c].attempt
      /\ UNCHANGED <<now, readOnly, locks, executed, barred>>
      /\ \/ call'[c].pc = "auth" /\ trail'[c] = trail[c] \cup {"sent"}
         \/ call'[c].pc = "refused" /\ trail'[c] = trail[c]
  BY DEF WriteAhead, Goto, TypeOK, CallLocals
<1>2. Budget(c)'
  BY <1>1, GateConstants DEF Budget, Gated, TypeOK, CallLocals
<1>3. c \in Mutations => Progress(c)'
  BY <1>1 DEF Progress, Gated, Sending
<1>4. c \in Mutations => Ahead(c)'
  BY <1>1 DEF Ahead, Gated, LocksOn
<1> QED
  BY <1>2, <1>3, <1>4

\* What the end of a call leaves behind.
LEMMA FinishFacts ==
    ASSUME TypeOK, NEW c \in Calls, NEW result, Finish(c, result)
    PROVE  /\ call'[c].pc = "done" /\ call'[c].attempt = call[c].attempt
           /\ call'[c].reauthed = call[c].reauthed
           /\ trail[c] \subseteq trail'[c]
           /\ result # "ok" => trail'[c] \subseteq trail[c] \cup {"error"}
           /\ trail'[c] \subseteq trail[c] \cup {"ok", "error"}
<1>1. PICK shown : call' = [call EXCEPT ![c].pc = "done", ![c].result = shown]
  BY DEF Finish
<1>2. /\ call'[c].pc = "done" /\ call'[c].attempt = call[c].attempt
      /\ call'[c].reauthed = call[c].reauthed
  BY <1>1 DEF TypeOK, CallLocals
<1>3. \/ trail'[c] = trail[c] \cup {IF result = "ok" THEN "ok" ELSE "error"}
      \/ trail'[c] = trail[c]
  BY DEF Finish, TypeOK
<1> QED
  BY <1>2, <1>3

\* One more attempt, or a login that fails.
LEMMA AttemptKeeps ==
    ASSUME TypeOK, NEW c \in Calls, Attempt(c) \/ Reauth(c),
           Budget(c), c \in Mutations => Progress(c) /\ Ahead(c)
    PROVE  Budget(c)' /\ (c \in Mutations => Progress(c)' /\ Ahead(c)')
<1>1. /\ call[c].pc \in {"auth", "reauth"}
      /\ UNCHANGED <<now, readOnly, locks, executed, barred>>
  BY DEF Attempt, Reauth
<1>2. CASE Finish(c, "error")
  <2>1. Budget(c)'
    BY <1>1, <1>2, FinishFacts, GateConstants DEF Budget, Gated, TypeOK, CallLocals
  <2>2. c \in Mutations => Progress(c)'
    BY <1>1, <1>2, FinishFacts DEF Progress, Gated, Sending
  <2>3. c \in Mutations => Ahead(c)'
    BY <1>1, <1>2, FinishFacts DEF Ahead, Gated, LocksOn
  <2> QED
    BY <2>1, <2>2, <2>3
<1>3. CASE Attempt(c) /\ ~Finish(c, "error")
  <2>1. /\ call[c].pc = "auth" /\ call'[c].pc = "wire"
        /\ call'[c].attempt = call[c].attempt + 1
        /\ call'[c].reauthed = call[c].reauthed /\ trail' = trail
    BY <1>3 DEF Attempt, TypeOK, CallLocals
  <2>2. Budget(c)'
    BY <2>1, GateConstants DEF Budget, Gated, TypeOK, CallLocals
  <2>3. c \in Mutations => Progress(c)'
    BY <1>1, <2>1 DEF Progress, Gated, Sending
  <2>4. c \in Mutations => Ahead(c)'
    BY <1>1, <2>1 DEF Ahead, Gated, LocksOn
  <2> QED
    BY <2>2, <2>3, <2>4
<1>4. CASE Reauth(c) /\ ~Finish(c, "error")
  <2>1. /\ call[c].pc = "reauth" /\ call'[c].pc = "auth"
        /\ call'[c].attempt = call[c].attempt
        /\ call'[c].reauthed = call[c].reauthed /\ trail' = trail
    BY <1>4 DEF Reauth, Goto, TypeOK, CallLocals
  <2>2. Budget(c)'
    BY <2>1, GateConstants DEF Budget, Gated, TypeOK, CallLocals
  <2>3. c \in Mutations => Progress(c)'
    BY <1>1, <2>1 DEF Progress, Gated, Sending
  <2>4. c \in Mutations => Ahead(c)'
    BY <1>1, <2>1 DEF Ahead, Gated, LocksOn
  <2> QED
    BY <2>2, <2>3, <2>4
<1> QED
  BY <1>2, <1>3, <1>4

\* An answer that lets a mutation go on proves that nothing was executed.
LEMMA RetriesAreSafe ==
    ASSUME NEW c \in Mutations, NEW a \in Answers, ShouldRetry(c, a) \/ a = "401",
           Executes(c, a)
    PROVE  executed' = executed
  BY DEF ShouldRetry, Executes, Ambiguous, Answers

\* The answers: login again, retry or end.
LEMMA ReceiveKeeps ==
    ASSUME TypeOK, NEW c \in Calls, NEW a \in Answers, Receive(c, a),
           Budget(c), c \in Mutations => Progress(c) /\ Ahead(c)
    PROVE  Budget(c)' /\ (c \in Mutations => Progress(c)' /\ Ahead(c)')
<1>1. /\ call[c].pc = "wire" /\ Executes(c, a)
      /\ UNCHANGED <<now, readOnly, locks, barred>>
  BY DEF Receive
<1>2. CASE ReauthDue(c, a) /\ UNCHANGED trail
           /\ call' = [call EXCEPT ![c].pc = "reauth", ![c].reauthed = TRUE]
  <2>1. /\ call'[c].pc = "reauth" /\ call'[c].reauthed = TRUE
        /\ call'[c].attempt = call[c].attempt
        /\ a = "401" /\ call[c].reauthed = FALSE
    BY <1>2 DEF ReauthDue, TypeOK, CallLocals
  <2>2. Budget(c)'
    BY <1>1, <2>1, GateConstants DEF Budget, Gated, TypeOK, CallLocals
  <2>3. c \in Mutations => Progress(c)'
    BY <1>1, <1>2, <2>1, RetriesAreSafe DEF Progress, Gated, Sending
  <2>4. c \in Mutations => Ahead(c)'
    BY <1>1, <2>1 DEF Ahead, Gated, LocksOn
  <2> QED
    BY <2>2, <2>3, <2>4
<1>3. CASE ShouldRetry(c, a) /\ MayRetry(c) /\ Goto(c, "auth") /\ UNCHANGED trail
  <2>1. /\ call'[c].pc = "auth" /\ call'[c].reauthed = call[c].reauthed
        /\ call'[c].attempt = call[c].attempt /\ call[c].attempt < MaxAttempts
    BY <1>3 DEF MayRetry, Goto, TypeOK, CallLocals
  <2>2. Budget(c)'
    BY <1>1, <2>1, GateConstants DEF Budget, Gated, TypeOK, CallLocals
  <2>3. c \in Mutations => Progress(c)'
    BY <1>1, <1>3, <2>1, RetriesAreSafe DEF Progress, Gated, Sending
  <2>4. c \in Mutations => Ahead(c)'
    BY <1>1, <2>1 DEF Ahead, Gated, LocksOn
  <2> QED
    BY <2>2, <2>3, <2>4
<1>4. CASE Finish(c, ResultOf(c, a))
  <2>1. Budget(c)'
    BY <1>1, <1>4, FinishFacts, GateConstants DEF Budget, Gated, TypeOK, CallLocals
  <2>2. ASSUME c \in Mutations PROVE Progress(c)'
    <3>1. executed[c] = 0 /\ trail[c] = {"sent"}
      BY <1>1, <2>2 DEF Progress, Sending
    <3>2. executed'[c] \in {0, 1} /\ (a = "ok" => executed'[c] = 1)
      BY <1>1, <3>1 DEF Executes, TypeOK
    <3>3. ResultOf(c, a) = "ok" => a = "ok"
      BY DEF ResultOf
    <3> QED
      BY <1>4, <3>1, <3>2, <3>3, FinishFacts DEF Progress, Gated, Sending
  <2>3. c \in Mutations => Ahead(c)'
    BY <1>1, <1>4, FinishFacts DEF Ahead, Gated, LocksOn
  <2> QED
    BY <2>1, <2>2, <2>3
<1> QED
  BY <1>2, <1>3, <1>4 DEF Receive

\* Operators and the clock do not disturb the invariant.
LEMMA OutsideKeeps == ASSUME TypeOK, GateInv, Outside PROVE GateInv'
<1>1. \A c \in Calls : Budget(c)'
  BY DEF GateInv, Budget, Outside
<1>2. ASSUME NEW c \in Mutations PROVE Progress(c)'
  BY <1>2 DEF GateInv, Progress, Outside
<1>3. ASSUME NEW c \in Mutations PROVE Ahead(c)'
  <2>1. c \in Calls /\ Ahead(c)
    BY <1>3, GateConstants DEF GateInv
  <2>2. barred'[c] \subseteq barred[c]
        /\ barred'[c] \subseteq LocksOn(c, readOnly', locks', now')
    BY <2>1, StillBarredFacts DEF Outside
  <2> QED
    BY <2>1, <2>2 DEF Ahead, Outside, LocksOn
<1> QED
  BY <1>1, <1>2, <1>3 DEF GateInv

\* Every step keeps the invariant.
LEMMA GateInvStep == TypeOK /\ GateInv /\ [Next]_vars => GateInv'
<1> SUFFICES ASSUME TypeOK, GateInv, [Next]_vars PROVE GateInv'
  OBVIOUS
<1>1. CASE \/ Tick \/ Reload
           \/ \E s \in Scopes :
                 Thaw(s) \/ Tear(s) \/ \E ttl \in Ttls \cup {Forever} : Freeze(s, ttl)
  <2>1. "global" \in Scopes
    BY DEF Scopes
  <2> QED
    BY <1>1, <2>1, OutsideSteps, OutsideKeeps
<1>2. ASSUME NEW c \in Calls, Step(c) PROVE GateInv'
  <2>1. Budget(c) /\ (c \in Mutations => Progress(c) /\ Ahead(c))
    BY DEF GateInv
  <2>2. Budget(c)' /\ (c \in Mutations => Progress(c)' /\ Ahead(c)')
    BY <1>2, <2>1, BeginKeeps, GatesKeep, WriteAheadKeeps, AttemptKeeps, ReceiveKeeps DEF Step
  <2>3. Only(c) /\ UNCHANGED <<now, readOnly, locks>>
    BY <1>2, StepIsOwn, StepLeavesLocks
  <2>4. \A d \in Calls \ {c} : Budget(d)'
    BY <2>3 DEF GateInv, Budget, Only
  <2>5. \A d \in Mutations \ {c} : Progress(d)'
    BY <2>3, GateConstants DEF GateInv, Progress, Only
  <2>6. \A d \in Mutations \ {c} : Ahead(d)'
    BY <2>3, GateConstants DEF GateInv, Ahead, LocksOn, Only
  <2> QED
    BY <2>2, <2>4, <2>5, <2>6, GateConstants DEF GateInv
<1>3. CASE UNCHANGED vars
  BY <1>3 DEF vars, GateInv, Budget, Progress, Ahead, LocksOn
<1> QED
  BY <1>1, <1>2, <1>3 DEF Next

\* It holds at first.
LEMMA GateInvInit == Init => GateInv
  BY GateConstants DEF Init, GateInv, Budget, Progress, Ahead, Gated, Sending, LocksOn

\* The control point of a call tells what it has done, what bars it lies ahead
\* of it, and its attempts are within the budget.
THEOREM GateInvariance == Spec => []GateInv
  BY GateTypeInit, GateTypeStep, GateInvInit, GateInvStep, PTL DEF Spec

----------------------------------------------------------------------------
(* What the gates promise.                                                 *)

\* A mutation is at one of its control points, where the invariant holds.
LEMMA WhereItIs ==
    ASSUME TypeOK, GateInv, NEW c \in Mutations
    PROVE  /\ Progress(c) /\ Ahead(c)
           /\ call[c].pc \in Gated \cup Sending \cup {"done"}
           /\ executed[c] \in Nat
<1>1. c \in Calls
  BY GateConstants
<1> QED
  BY <1>1 DEF TypeOK, CallLocals, Points, Gated, Sending, GateInv

\* send_with_retry never makes Proxmox carry a mutation out twice.
THEOREM GateExecutesOnce == Spec => []ExecutedAtMostOnce
<1>1. TypeOK /\ GateInv => ExecutedAtMostOnce
  BY WhereItIs DEF Progress, Gated, Sending, ExecutedAtMostOnce
<1> QED
  BY <1>1, GateTypes, GateInvariance, PTL

\* A read_only flag or a freeze that was on when a mutation began and stayed on
\* keeps it off the wire and out of the audit log.
THEOREM GateLocksHold == Spec => []LockedMeansUnsent
<1>1. TypeOK /\ GateInv => LockedMeansUnsent
  <2> SUFFICES ASSUME TypeOK, GateInv, NEW c \in Mutations, barred[c] # {}
               PROVE  call[c].attempt = 0 /\ trail[c] = {}
    BY DEF LockedMeansUnsent
  <2>1. call[c].pc \in Gated
    BY WhereItIs DEF Ahead
  <2> QED
    BY <2>1, WhereItIs DEF Progress
<1> QED
  BY <1>1, GateTypes, GateInvariance, PTL

\* The books of the gate: types, the retry budget, and an audit trail that
\* invents no outcome.
THEOREM GateBooks == Spec => []BooksAreTrue
<1>1. TypeOK /\ GateInv => RetryBudget
  <2> SUFFICES ASSUME TypeOK, GateInv, NEW c \in Calls
               PROVE  call[c].attempt <= MaxAttempts + 1
    BY DEF RetryBudget
  <2>1. /\ call[c].pc \in Gated \cup {"auth", "wire", "reauth", "done"}
        /\ call[c].attempt \in Nat
    BY DEF TypeOK, CallLocals, Points, Gated
  <2>2. Budget(c)
    BY DEF GateInv
  <2> QED
    BY <2>1, <2>2, GateConstants DEF Budget
<1>2. TypeOK /\ GateInv => TrailIsTrue
  <2> SUFFICES ASSUME TypeOK, GateInv, NEW c \in Mutations
               PROVE  /\ "ok" \in trail[c] => executed[c] = 1
                      /\ trail[c] # {} => "sent" \in trail[c]
                      /\ call[c].pc = "refused" => executed[c] = 0 /\ trail[c] = {}
    BY DEF TrailIsTrue
  <2>1. CASE call[c].pc \in Gated
    BY <2>1, WhereItIs DEF Progress
  <2>2. CASE call[c].pc \in Sending
    BY <2>2, WhereItIs DEF Progress, Sending
  <2>3. CASE call[c].pc = "done"
    BY <2>3, WhereItIs DEF Progress
  <2> QED
    BY <2>1, <2>2, <2>3, WhereItIs
<1>3. TypeOK /\ GateInv => BooksAreTrue
  BY <1>1, <1>2 DEF BooksAreTrue
<1> QED
  BY <1>3, GateTypes, GateInvariance, PTL
=============================================================================
