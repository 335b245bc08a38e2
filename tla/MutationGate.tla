---------------------------- MODULE MutationGate ----------------------------
(***************************************************************************)
(* The gateway layer of PxClient: every request of every caller.  A        *)
(* mutation passes the read_only lock, the freeze locks (global, then its  *)
(* profile's) and the write-ahead audit row, and only then enters the      *)
(* retry loop of send_with_retry; a read goes straight to that loop.       *)
(* Meanwhile operators freeze and thaw, a TTL runs out, a reload changes   *)
(* read_only, a lock file is torn, and Proxmox or the network answers      *)
(* late, twice or not at all.                                              *)
(***************************************************************************)
EXTENDS Integers

CONSTANTS
    Calls,        \* requests of one process
    Mutations,    \* the POST, PUT and DELETE among them
    Profiles,     \* named profiles
    ProfileOf,    \* the profile of each call; "flat" is the unnamed one
    MaxAttempts,  \* max_attempts of the client, RETRY_MAX_ATTEMPTS by default
    Ttls,         \* the --ttl values of incident freeze
    MaxTime,      \* bound on the clock, in seconds
    MaxTurns      \* bound on freezes, thaws, tears and reloads together

\* A freeze without --ttl.
Forever == -1

ASSUME GateAssumption ==
    /\ Mutations \subseteq Calls
    /\ ProfileOf \in [Calls -> Profiles \cup {"flat"}]
    /\ {"flat", "global", "read_only"} \cap Profiles = {}
    /\ MaxAttempts \in Nat \ {0}
    /\ Ttls \subseteq Nat
    /\ MaxTime \in Nat /\ MaxTurns \in Nat

VARIABLES
    now,      \* unix seconds
    readOnly, \* read_only of the live config
    locks,    \* per scope: its lock file
    call,     \* per call: control point and local variables
    trail,    \* per call: its rows in the audit log
    executed, \* history: how often Proxmox carried a mutation out
    barred,   \* history: the locks that were on when a call began and still are
    turns     \* number of operator and environment turns so far

vars == <<now, readOnly, locks, call, trail, executed, barred, turns>>

Scopes == Profiles \cup {"global"}

\* file: no lock file, a well-formed one, or one that cannot be read or parsed.
LockFiles == [file : {"absent", "lock", "torn"}, at : Nat, ttl : Ttls \cup {Forever}]

NoLock == [file |-> "absent", at |-> 0, ttl |-> Forever]

Points == {"idle", "guard", "global", "own", "audit", "auth", "wire", "reauth",
           "done", "refused"}

\* What became of a call: the caller's result, where "warned" is an error that
\* says Proxmox may still have executed the mutation.
Results == {"none", "ok", "error", "warned"}

CallLocals == [pc : Points, attempt : Nat, reauthed : BOOLEAN, result : Results]

TypeOK ==
    /\ now \in Nat
    /\ readOnly \in BOOLEAN
    /\ locks \in [Scopes -> LockFiles]
    /\ call \in [Calls -> CallLocals]
    /\ trail \in [Calls -> SUBSET {"sent", "ok", "error"}]
    /\ executed \in [Calls -> Nat]
    /\ barred \in [Calls -> SUBSET (Scopes \cup {"read_only"})]
    /\ turns \in Nat

Init ==
    /\ now = 0
    /\ readOnly \in BOOLEAN
    /\ locks = [s \in Scopes |-> NoLock]
    /\ call = [c \in Calls |-> [pc |-> "idle", attempt |-> 0, reauthed |-> FALSE,
                                result |-> "none"]]
    /\ trail = [c \in Calls |-> {}]
    /\ executed = [c \in Calls |-> 0]
    /\ barred = [c \in Calls |-> {}]
    /\ turns = 0

(***************************************************************************)
(* The locks                                                               *)
(***************************************************************************)

\* current_state_at and is_active_at: an unreadable lock counts as active.
Active(lock, t) ==
    \/ lock.file = "torn"
    \/ lock.file = "lock" /\ (lock.ttl = Forever \/ lock.at + lock.ttl > t)

\* lock_paths_for: the scopes that govern a call.
Governing(c) ==
    {"global"} \cup (IF ProfileOf[c] = "flat" THEN {} ELSE {ProfileOf[c]})

\* Every lock that is on for a call, with the given files and clock.
LocksOn(c, ro, files, t) ==
    {s \in Governing(c) : Active(files[s], t)} \cup (IF ro THEN {"read_only"} ELSE {})

\* A barred call stays barred by the locks that were never off since it began.
StillBarred(ro, files, t) ==
    [c \in Calls |-> barred[c] \cap LocksOn(c, ro, files, t)]

Turn == turns < MaxTurns /\ turns' = turns + 1

\* incident freeze: the lock file is replaced, whatever it held.
Freeze(s, ttl) ==
    /\ Turn
    /\ locks' = [locks EXCEPT ![s] = [file |-> "lock", at |-> now, ttl |-> ttl]]
    /\ barred' = StillBarred(readOnly, locks', now)
    /\ UNCHANGED <<now, readOnly, call, trail, executed>>

\* incident thaw: the file is removed, also one that cannot be read.
Thaw(s) ==
    /\ Turn
    /\ locks[s].file # "absent"
    /\ locks' = [locks EXCEPT ![s] = NoLock]
    /\ barred' = StillBarred(readOnly, locks', now)
    /\ UNCHANGED <<now, readOnly, call, trail, executed>>

\* A lock file is damaged by a torn write, a truncated copy or tampering.
Tear(s) ==
    /\ Turn
    /\ locks[s].file = "lock"
    /\ locks' = [locks EXCEPT ![s].file = "torn"]
    /\ barred' = StillBarred(readOnly, locks', now)
    /\ UNCHANGED <<now, readOnly, call, trail, executed>>

\* SIGHUP: reload_once swaps the live config.
Reload ==
    /\ Turn
    /\ readOnly' = ~readOnly
    /\ barred' = StillBarred(readOnly', locks, now)
    /\ UNCHANGED <<now, locks, call, trail, executed>>

Tick ==
    /\ now < MaxTime
    /\ now' = now + 1
    /\ barred' = StillBarred(readOnly, locks, now')
    /\ UNCHANGED <<readOnly, locks, call, trail, executed, turns>>

(***************************************************************************)
(* The gates, in the order post, put and delete run them                   *)
(***************************************************************************)

Goto(c, point) == call' = [call EXCEPT ![c].pc = point]

Begin(c) ==
    /\ call[c].pc = "idle"
    /\ Goto(c, IF c \in Mutations THEN "guard" ELSE "auth")
    /\ barred' = [barred EXCEPT ![c] =
            IF c \in Mutations THEN LocksOn(c, readOnly, locks, now) ELSE {}]
    /\ UNCHANGED <<now, readOnly, locks, trail, executed, turns>>

\* guard_read_only
GuardReadOnly(c) ==
    /\ call[c].pc = "guard"
    /\ Goto(c, IF readOnly THEN "refused" ELSE "global")
    /\ UNCHANGED <<now, readOnly, locks, trail, executed, barred, turns>>

\* Mutant: only the lock of the call's own profile is read (#504).
CheckGlobalSkipped(c) ==
    /\ call[c].pc = "global"
    /\ Goto(c, "own")
    /\ UNCHANGED <<now, readOnly, locks, trail, executed, barred, turns>>

\* check_not_frozen_for: the global lock ...
CheckGlobal(c) ==
    /\ call[c].pc = "global"
    /\ Goto(c, IF Active(locks["global"], now) THEN "refused" ELSE "own")
    /\ UNCHANGED <<now, readOnly, locks, trail, executed, barred, turns>>

\* ... then that of the profile, if it has a name.
CheckOwn(c) ==
    /\ call[c].pc = "own"
    /\ Goto(c, IF ProfileOf[c] # "flat" /\ Active(locks[ProfileOf[c]], now)
               THEN "refused" ELSE "audit")
    /\ UNCHANGED <<now, readOnly, locks, trail, executed, barred, turns>>

\* Mutant: a refused audit row sends the call through the gates again.
WriteAheadRetries(c) ==
    /\ call[c].pc = "audit"
    /\ \/ /\ trail' = [trail EXCEPT ![c] = @ \cup {"sent"}]
          /\ Goto(c, "auth")
       \/ /\ Goto(c, "guard")
          /\ UNCHANGED trail
    /\ UNCHANGED <<now, readOnly, locks, executed, barred, turns>>

\* write_ahead_at: the "sent" row, or an AuditWriteRefusal.
WriteAhead(c) ==
    /\ call[c].pc = "audit"
    /\ \/ /\ trail' = [trail EXCEPT ![c] = @ \cup {"sent"}]
          /\ Goto(c, "auth")
       \/ /\ Goto(c, "refused")
          /\ UNCHANGED trail
    /\ UNCHANGED <<now, readOnly, locks, executed, barred, turns>>

(***************************************************************************)
(* send_with_retry                                                         *)
(***************************************************************************)

\* What comes back from one attempt: statuses, and reqwest's transport errors.
Answers == {"ok", "error_status", "401", "429", "503_retry_after", "503", "502_504",
            "595", "connect", "tls", "connect_timeout", "timeout", "reset"}

\* The answers of a mutation that Proxmox may have carried out all the same.
Ambiguous == {"error_status", "503", "502_504", "595", "timeout", "reset"}

\* Mutant: one retry policy for reads and mutations (the state before #348).
ShouldRetryAnything(c, a) ==
    a \in {"429", "503_retry_after", "connect", "503", "502_504", "timeout",
           "connect_timeout"}

\* should_retry_status and should_retry_error_flags: a mutation only where it
\* was provably not processed, a read on any transient failure but TLS.
ShouldRetry(c, a) ==
    \/ a \in {"429", "503_retry_after", "connect"}
    \/ c \notin Mutations /\ a \in {"503", "502_504", "timeout", "connect_timeout"}

\* from_status_with_idempotency, from_transport_with_idempotency
ResultOf(c, a) ==
    IF a = "ok" THEN "ok"
    ELSE IF c \in Mutations
            /\ a \in {"503_retry_after", "503", "502_504", "timeout", "connect_timeout"}
    THEN "warned" ELSE "error"

\* Mutant: any answer is recorded as a success.
FinishAlwaysOk(c, result) ==
    /\ call' = [call EXCEPT ![c].pc = "done", ![c].result = result]
    /\ IF c \in Mutations THEN trail' = [trail EXCEPT ![c] = @ \cup {"ok"}]
       ELSE UNCHANGED trail

\* The caller gets its result; a mutation's outcome goes to the audit log, which
\* may fail without changing the result.  After an "ok" the body may still turn
\* out too large or unreadable.
Finish(c, result) ==
    /\ \E shown \in IF result = "ok" THEN {"ok", "error"} ELSE {result} :
          call' = [call EXCEPT ![c].pc = "done", ![c].result = shown]
    /\ \/ c \in Mutations
          /\ trail' = [trail EXCEPT ![c] = @ \cup {IF result = "ok" THEN "ok" ELSE "error"}]
       \/ UNCHANGED trail

\* ensure_auth: the ticket is fresh or refreshed, or the login fails; then the
\* attempt goes out.
Attempt(c) ==
    /\ call[c].pc = "auth"
    /\ \/ /\ call' = [call EXCEPT ![c].pc = "wire", ![c].attempt = @ + 1]
          /\ UNCHANGED trail
       \/ Finish(c, "error")
    /\ UNCHANGED <<now, readOnly, locks, executed, barred, turns>>

\* Proxmox executes a mutation it accepted, and perhaps one whose answer is lost.
Executes(c, a) ==
    \/ a = "ok" /\ executed' = [executed EXCEPT ![c] = @ + 1]
    \/ a \in Ambiguous /\ executed' = [executed EXCEPT ![c] = @ + 1]
    \/ a # "ok" /\ UNCHANGED executed

\* Mutant: the attempt that reaches the limit is retried too.
MayRetryOnceMore(c) == call[c].attempt <= MaxAttempts

MayRetry(c) == call[c].attempt < MaxAttempts

ReauthDue(c, a) == a = "401" /\ ~call[c].reauthed /\ MaxAttempts > 1

\* The first 401 forces a new login, a transient answer another attempt after a
\* backoff, anything else ends the call.
Receive(c, a) ==
    /\ call[c].pc = "wire"
    /\ Executes(c, a)
    /\ \/ /\ ReauthDue(c, a)
          /\ call' = [call EXCEPT ![c].pc = "reauth", ![c].reauthed = TRUE]
          /\ UNCHANGED trail
       \/ /\ ShouldRetry(c, a) /\ MayRetry(c)
          /\ Goto(c, "auth")
          /\ UNCHANGED trail
       \/ /\ ~ReauthDue(c, a) /\ ~(ShouldRetry(c, a) /\ MayRetry(c))
          /\ Finish(c, ResultOf(c, a))
    /\ UNCHANGED <<now, readOnly, locks, barred, turns>>

\* force_reauth: a token profile or a failed login surfaces the 401.
Reauth(c) ==
    /\ call[c].pc = "reauth"
    /\ \/ Goto(c, "auth") /\ UNCHANGED trail
       \/ Finish(c, "error")
    /\ UNCHANGED <<now, readOnly, locks, executed, barred, turns>>

(***************************************************************************)
(* Specification                                                           *)
(***************************************************************************)

Step(c) ==
    \/ Begin(c) \/ GuardReadOnly(c) \/ CheckGlobal(c) \/ CheckOwn(c)
    \/ WriteAhead(c) \/ Attempt(c) \/ Reauth(c)
    \/ \E a \in Answers : Receive(c, a)

Next ==
    \/ Tick
    \/ Reload
    \/ \E s \in Scopes :
          Thaw(s) \/ Tear(s) \/ \E ttl \in Ttls \cup {Forever} : Freeze(s, ttl)
    \/ \E c \in Calls : Step(c)

Spec == Init /\ [][Next]_vars

\* A request ends by its timeout at the latest, so a call that began goes on.
FairSpec == Spec /\ \A c \in Calls : WF_vars(Step(c))

(***************************************************************************)
(* Properties                                                              *)
(***************************************************************************)

\* Retries never run a change twice (#348): Proxmox carries a mutation out at
\* most once, whatever send_with_retry makes of the answers.
ExecutedAtMostOnce == \A c \in Mutations : executed[c] <= 1

\* A lock that was on when a mutation began and stayed on stops it, whichever
\* lock that is and whatever the other locks do meanwhile: not one request goes
\* out and no "sent" row is written.
LockedMeansUnsent ==
    \A c \in Mutations :
        barred[c] # {} => call[c].attempt = 0 /\ trail[c] = {}

\* The audit log does not invent an outcome: an "ok" row is about a mutation that
\* Proxmox carried out, every outcome follows a "sent" row, and a refused call
\* changed nothing.
TrailIsTrue ==
    \A c \in Mutations :
        /\ "ok" \in trail[c] => executed[c] = 1
        /\ trail[c] # {} => "sent" \in trail[c]
        /\ call[c].pc = "refused" => executed[c] = 0 /\ trail[c] = {}

\* send_with_retry sends no more than max_attempts requests and the one that
\* follows a forced login.
RetryBudget == \A c \in Calls : call[c].attempt <= MaxAttempts + 1

\* A call that began ends: neither 401s nor overload answers keep it going.
CallsEnd == \A c \in Calls : call[c].pc # "idle" ~> call[c].pc \in {"done", "refused"}

\* The books of the gate: well-typed calls within their retry budget whose
\* rows in the audit log are true.
BooksAreTrue == TypeOK /\ RetryBudget /\ TrailIsTrue

(***************************************************************************)
(* The inductive invariant                                                 *)
(***************************************************************************)

Gated == {"idle", "guard", "global", "own", "audit", "refused"}
Sending == {"auth", "wire", "reauth"}

\* Where a mutation is tells what it has done: nothing before the write-ahead
\* row, one "sent" row and no execution while the retry loop goes on.
Progress(c) ==
    /\ call[c].pc \in Gated =>
          call[c].attempt = 0 /\ executed[c] = 0 /\ trail[c] = {}
    /\ call[c].pc \in Sending => executed[c] = 0 /\ trail[c] = {"sent"}
    /\ call[c].pc = "done" =>
          /\ executed[c] <= 1 /\ "sent" \in trail[c]
          /\ "ok" \in trail[c] => executed[c] = 1

\* A lock that bars a mutation is on, and lies ahead of it.
Ahead(c) ==
    /\ barred[c] \subseteq LocksOn(c, readOnly, locks, now)
    /\ call[c].pc \in {"global", "own"} => "read_only" \notin barred[c]
    /\ call[c].pc = "own" => "global" \notin barred[c]
    /\ call[c].pc \notin Gated \ {"audit", "idle"} => barred[c] = {}

\* The attempts a call has left, with the one that a forced login adds.
Budget(c) ==
    LET extra == IF call[c].reauthed THEN 1 ELSE 0
    IN  /\ call[c].pc \in Gated => call[c].attempt = 0
        /\ call[c].pc = "auth" => call[c].attempt < MaxAttempts + extra
        /\ call[c].pc \in {"wire", "done"} => call[c].attempt <= MaxAttempts + extra
        /\ call[c].pc = "reauth" => call[c].reauthed /\ call[c].attempt <= MaxAttempts

GateInv ==
    /\ \A c \in Mutations : Progress(c) /\ Ahead(c)
    /\ \A c \in Calls : Budget(c)
=============================================================================
