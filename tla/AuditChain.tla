----------------------------- MODULE AuditChain -----------------------------
(***************************************************************************)
(* The HMAC-chained audit log: audit.db, audit.key, the retired keys, and  *)
(* the processes that append to it.  Every mutation writes a "sent" row    *)
(* before its request leaves the process and an outcome row after it.  A   *)
(* process caches one logger (key and verdict of a full verify) behind a   *)
(* mutex; `audit rotate-key` runs in a process of its own.                 *)
(*                                                                         *)
(* A MAC is modelled by what it binds: the key that made it and the        *)
(* predecessor it was chained to.  Keys are numbered in the order they are *)
(* published, 0 is no key; rows are labelled with the second of the        *)
(* rotation that retired their key, 0 is `primary`.                        *)
(***************************************************************************)
EXTENDS Integers, Sequences

CONSTANTS
    Procs,          \* proxxx processes that send mutations
    Muts,           \* mutations, each sent by one process
    Home,           \* the process of each mutation
    Rotators,       \* runs of `proxxx audit rotate-key`
    Faults,         \* what may fail in a rotation, see RotationFaults
    MaxTime,        \* bound on the clock, in seconds
    MaxCrashes      \* bound on the crashes of processes

\* COMMIT fails, writing the previous key back fails, the directory cannot be
\* synced after the rename of the fresh key, the process is killed.
RotationFaults == {"commit", "restore", "sync", "crash"}

\* A rotation overlapped an append, or another rotation, was killed, could not
\* commit, or failed with its fresh key in place and the copy of the old one removed.
Troubles == {"append", "rotation", "killed", "commit", "lost"}

ASSUME AuditAssumption ==
    /\ Home \in [Muts -> Procs]
    /\ Muts \cap Rotators = {}
    /\ "none" \notin Muts \cup Rotators
    /\ Faults \subseteq RotationFaults
    /\ MaxTime \in Nat /\ MaxCrashes \in Nat

VARIABLES
    now,      \* unix seconds
    rows,     \* audit_log as committed, by id
    lock,     \* who holds SQLite's write lock
    primary,  \* the key in audit.key
    retired,  \* the keys in audit.key.retired-<second>
    minted,   \* the number of keys ever published as primary
    cache,    \* per process: its cached logger
    mut,      \* per mutation: control point and local variables
    rot,      \* per rotation: control point and local variables
    issued,   \* history: the mutations whose request left the process
    trouble,  \* history: what rotations met, see Troubles
    crashes   \* number of processes killed so far

vars == <<now, rows, lock, primary, retired, minted, cache, mut, rot, issued,
          trouble, crashes>>

NoKey == 0

PrimaryId == 0

Ids == 1..(MaxTime + 1)

Rows == [signer : Nat, label : {PrimaryId} \cup Ids, prev : Nat,
         mut : Muts \cup {"none"}, kind : {"sent", "outcome"}]

\* The points of a mutation inside with_cached_logger_at, mutex held.
Section == {"key", "open", "first", "create", "verify", "use", "append", "insert"}

MutPoints == {"idle", "issue", "flight", "done", "refused", "dead"} \cup Section

\* The points of a rotation that has begun its transaction or undoes it.
Rotating == {"archive", "replace", "commit", "restore", "undo"}

RotPoints == {"idle", "begin", "rotated", "failed", "dead"} \cup Rotating

NoLogger == [key |-> NoKey, bad |-> FALSE]

Caches == [key : Nat, bad : BOOLEAN]

MutLocals == [pc : MutPoints, kind : {"sent", "outcome"}, key : Nat, prev : Nat]

RotLocals == [pc : RotPoints, old : Nat, id : {PrimaryId} \cup Ids]

TypeOK ==
    /\ now \in Ids
    /\ rows \in Seq(Rows)
    /\ lock \in Muts \cup Rotators \cup {"none"}
    /\ primary \in Nat
    /\ retired \in [Ids -> Nat]
    /\ minted \in Nat
    /\ cache \in [Procs -> Caches]
    /\ mut \in [Muts -> MutLocals]
    /\ rot \in [Rotators -> RotLocals]
    /\ issued \subseteq Muts
    /\ trouble \subseteq Troubles
    /\ crashes \in Nat

\* The row of a log that was restored from a backup without its audit.key, the
\* first key there was.
OldRow == [signer |-> 1, label |-> PrimaryId, prev |-> 0, mut |-> "none",
           kind |-> "sent"]

Init ==
    /\ now = 1
    /\ rows \in {<<>>, <<OldRow>>}
    /\ lock = "none"
    /\ primary = NoKey
    /\ retired = [i \in Ids |-> NoKey]
    /\ minted = Len(rows)
    /\ cache = [p \in Procs |-> NoLogger]
    /\ mut = [m \in Muts |-> [pc |-> "idle", kind |-> "sent", key |-> NoKey,
                              prev |-> 0]]
    /\ rot = [t \in Rotators |-> [pc |-> "idle", old |-> NoKey, id |-> PrimaryId]]
    /\ issued = {}
    /\ trouble = {}
    /\ crashes = 0

(***************************************************************************)
(* Verification                                                            *)
(***************************************************************************)

\* The key a verifier that holds k as primary checks a row against.
KeyFor(row, k) == IF row.label = PrimaryId THEN k ELSE retired[row.label]

\* verify_raw_row: the MAC recomputes over the predecessor with that key.
RowVerifies(i, k) ==
    /\ rows[i].prev = i - 1
    /\ rows[i].signer = KeyFor(rows[i], k)

\* verify: the walk over the whole log.
ChainVerifiesWith(k) == \A i \in 1..Len(rows) : RowVerifies(i, k)

\* verify_tail: the last row alone; an empty log passes.
TailVerifiesWith(k) == rows # <<>> => RowVerifies(Len(rows), k)

(***************************************************************************)
(* A mutation's audit rows: log_mutation_sent and record_outcome           *)
(***************************************************************************)

Busy(p) == \E m \in Muts : Home[m] = p /\ mut[m].pc \in Section

RotationActive ==
    \E t \in Rotators : rot[t].pc \in Rotating \cup {"begin"}

Met(what, yes) == IF yes THEN {what} ELSE {}

\* The append is given up: a "sent" row that is not written refuses the mutation
\* (AuditWriteRefusal), an outcome row that is not written is only logged.
GiveUp(s) == [s EXCEPT !.pc = IF s.kind = "sent" THEN "refused" ELSE "done"]

\* The process takes the mutex of its logger cache, for the "sent" row of a new
\* mutation or for the outcome row of one that was answered (or not).
Enter(m) ==
    /\ mut[m].pc \in {"idle", "flight"}
    /\ ~Busy(Home[m])
    /\ trouble' = trouble \cup Met("append", RotationActive)
    /\ mut' = [mut EXCEPT ![m] =
            [@ EXCEPT !.pc = "key",
                      !.kind = IF mut[m].pc = "idle" THEN "sent" ELSE "outcome"]]
    /\ UNCHANGED <<now, rows, lock, primary, retired, minted, cache, rot,
                   issued, crashes>>

\* A cached logger is used if its key is still the one on disk, and dropped
\* otherwise.
CheckKey(m) ==
    /\ mut[m].pc = "key"
    /\ LET hit == cache[Home[m]].key # NoKey /\ cache[Home[m]].key = primary IN
       /\ mut' = [mut EXCEPT ![m].pc = IF hit THEN "use" ELSE "open"]
       /\ cache' = [cache EXCEPT ![Home[m]] = IF hit THEN @ ELSE NoLogger]
    /\ UNCHANGED <<now, rows, lock, primary, retired, minted, rot, issued,
                   crashes, trouble>>

\* AuditLogger::open_at: read the key if there is one.
Open(m) ==
    /\ mut[m].pc = "open"
    /\ mut' = [mut EXCEPT ![m] =
            IF primary # NoKey THEN [@ EXCEPT !.pc = "verify", !.key = primary]
            ELSE [@ EXCEPT !.pc = "first"]]
    /\ UNCHANGED <<now, rows, lock, primary, retired, minted, cache, rot,
                   issued, crashes, trouble>>

HasPrimaryRows == \E i \in 1..Len(rows) : rows[i].label = PrimaryId

\* Mutant: a missing key is replaced whatever the log holds.
FirstUseKeyAlways(m) ==
    /\ mut[m].pc = "first"
    /\ mut' = [mut EXCEPT ![m].pc = "create"]
    /\ UNCHANGED <<now, rows, lock, primary, retired, minted, cache, rot,
                   issued, crashes, trouble>>

\* first_use_key: a log without primary rows may get a key; one with such rows
\* needs the key that another opener has published by now, or is refused.
FirstUseKey(m) ==
    /\ mut[m].pc = "first"
    /\ mut' = [mut EXCEPT ![m] =
            IF ~HasPrimaryRows THEN [@ EXCEPT !.pc = "create"]
            ELSE IF primary # NoKey
                 THEN [@ EXCEPT !.pc = "verify", !.key = primary]
            ELSE GiveUp(@)]
    /\ UNCHANGED <<now, rows, lock, primary, retired, minted, cache, rot,
                   issued, crashes, trouble>>

\* create_key_once: hard_link publishes the new key unless one is there, in
\* which case that one is read.
CreateKeyOnce(m) ==
    /\ mut[m].pc = "create"
    /\ IF primary = NoKey
       THEN /\ primary' = minted + 1
            /\ minted' = minted + 1
            /\ mut' = [mut EXCEPT ![m] =
                    [@ EXCEPT !.pc = "verify", !.key = minted + 1]]
       ELSE /\ mut' = [mut EXCEPT ![m] =
                    [@ EXCEPT !.pc = "verify", !.key = primary]]
            /\ UNCHANGED <<primary, minted>>
    /\ UNCHANGED <<now, rows, lock, retired, cache, rot, issued, crashes, trouble>>

\* Mutant: every row is checked against the primary key.
FullVerifyPrimaryOnly(m) ==
    /\ mut[m].pc = "verify"
    /\ cache' = [cache EXCEPT ![Home[m]] =
            [key |-> mut[m].key,
             bad |-> \E i \in 1..Len(rows) : rows[i].signer # mut[m].key]]
    /\ mut' = [mut EXCEPT ![m].pc = "use"]
    /\ UNCHANGED <<now, rows, lock, primary, retired, minted, rot, issued,
                   crashes, trouble>>

\* Mutant: a bad verdict reopens the logger instead of being remembered.
FullVerifyRetries(m) ==
    /\ mut[m].pc = "verify"
    /\ IF ChainVerifiesWith(mut[m].key)
       THEN /\ cache' = [cache EXCEPT ![Home[m]] =
                    [key |-> mut[m].key, bad |-> FALSE]]
            /\ mut' = [mut EXCEPT ![m].pc = "use"]
       ELSE /\ mut' = [mut EXCEPT ![m].pc = "open"]
            /\ UNCHANGED cache
    /\ UNCHANGED <<now, rows, lock, primary, retired, minted, rot, issued,
                   crashes, trouble>>

\* open_cached_logger: a full verify with the key just read; its verdict stays
\* with the logger.
FullVerify(m) ==
    /\ mut[m].pc = "verify"
    /\ cache' = [cache EXCEPT ![Home[m]] =
            [key |-> mut[m].key, bad |-> ~ChainVerifiesWith(mut[m].key)]]
    /\ mut' = [mut EXCEPT ![m].pc = "use"]
    /\ UNCHANGED <<now, rows, lock, primary, retired, minted, rot, issued,
                   crashes, trouble>>

\* The closure given to with_cached_logger_at: a "sent" row needs a clean
\* verdict and a good tail, an outcome row neither.
UseLogger(m) ==
    /\ mut[m].pc = "use"
    /\ LET c == cache[Home[m]]
           accepts == mut[m].kind = "sent" => ~c.bad /\ TailVerifiesWith(c.key)
       IN  mut' = [mut EXCEPT ![m].pc = IF accepts THEN "append" ELSE "refused"]
    /\ UNCHANGED <<now, rows, lock, primary, retired, minted, cache, rot,
                   issued, crashes, trouble>>

\* Mutant: a deferred transaction reads the last MAC without the write lock.
BeginAppendDeferred(m) ==
    /\ mut[m].pc = "append"
    /\ mut' = [mut EXCEPT ![m] = [@ EXCEPT !.pc = "insert", !.prev = Len(rows)]]
    /\ UNCHANGED <<now, rows, lock, primary, retired, minted, cache, rot,
                   issued, crashes, trouble>>

\* AuditLogger::log: BEGIN IMMEDIATE, then the MAC of the last row.
BeginAppend(m) ==
    /\ mut[m].pc = "append"
    /\ lock = "none"
    /\ lock' = m
    /\ mut' = [mut EXCEPT ![m] = [@ EXCEPT !.pc = "insert", !.prev = Len(rows)]]
    /\ UNCHANGED <<now, rows, primary, retired, minted, cache, rot, issued,
                   crashes, trouble>>

\* The row is signed with the cached key and labelled primary; COMMIT.
CommitAppend(m) ==
    /\ mut[m].pc = "insert"
    /\ rows' = Append(rows,
            [signer |-> cache[Home[m]].key, label |-> PrimaryId,
             prev |-> mut[m].prev, mut |-> m, kind |-> mut[m].kind])
    /\ lock' = "none"
    /\ mut' = [mut EXCEPT ![m].pc =
            IF mut[m].kind = "sent" THEN "issue" ELSE "done"]
    /\ UNCHANGED <<now, primary, retired, minted, cache, rot, issued, crashes, trouble>>

\* Mutant: a failed "sent" row is reported but does not stop the mutation.
AuditFailsOpen(m) ==
    /\ mut[m].pc \in Section
    /\ cache' = [cache EXCEPT ![Home[m]] = IF mut[m].pc = "key" THEN NoLogger ELSE @]
    /\ lock' = IF lock = m THEN "none" ELSE lock
    /\ mut' = [mut EXCEPT ![m].pc =
            IF mut[m].kind = "sent" THEN "issue" ELSE "done"]
    /\ UNCHANGED <<now, rows, primary, retired, minted, rot, issued, crashes, trouble>>

\* A step inside the section fails: the key file or the database cannot be read
\* (an unreadable key drops the cached logger), the lock stays taken for longer
\* than AUDIT_BUSY_TIMEOUT, the insert or the commit fails.
AuditFails(m) ==
    /\ mut[m].pc \in Section
    /\ cache' = [cache EXCEPT ![Home[m]] = IF mut[m].pc = "key" THEN NoLogger ELSE @]
    /\ lock' = IF lock = m THEN "none" ELSE lock
    /\ mut' = [mut EXCEPT ![m] = GiveUp(@)]
    /\ UNCHANGED <<now, rows, primary, retired, minted, rot, issued, crashes, trouble>>

\* The request leaves the process.
Issue(m) ==
    /\ mut[m].pc = "issue"
    /\ issued' = issued \cup {m}
    /\ mut' = [mut EXCEPT ![m].pc = "flight"]
    /\ UNCHANGED <<now, rows, lock, primary, retired, minted, cache, rot,
                   crashes, trouble>>

(***************************************************************************)
(* rotate_key_at                                                           *)
(***************************************************************************)

\* Before the transaction: the current key is read and the id chosen.
RotateRead(t) ==
    /\ rot[t].pc = "idle"
    /\ primary # NoKey /\ retired[now] = NoKey
    /\ trouble' = trouble \cup Met("rotation", RotationActive)
                    \cup Met("append", \E p \in Procs : Busy(p))
    /\ rot' = [rot EXCEPT ![t] = [pc |-> "begin", old |-> primary, id |-> now]]
    /\ UNCHANGED <<now, rows, lock, primary, retired, minted, cache, mut,
                   issued, crashes>>

\* 1. BEGIN IMMEDIATE; a lock held for too long ends the rotation here.
RotateBegin(t) ==
    /\ rot[t].pc = "begin"
    /\ \/ /\ lock = "none"
          /\ lock' = t
          /\ rot' = [rot EXCEPT ![t].pc = "archive"]
       \/ /\ lock # "none"
          /\ rot' = [rot EXCEPT ![t].pc = "failed"]
          /\ UNCHANGED lock
    /\ UNCHANGED <<now, rows, primary, retired, minted, cache, mut, issued,
                   crashes, trouble>>

\* Mutant: the retired copy is not written.
ArchiveSkipped(t) ==
    /\ rot[t].pc = "archive"
    /\ rot' = [rot EXCEPT ![t].pc = "replace"]
    /\ UNCHANGED <<now, rows, lock, primary, retired, minted, cache, mut,
                   issued, crashes, trouble>>

\* 2. The retired copy, in a new file; one that has appeared meanwhile stops it,
\* and so does a copy that cannot be written.
Archive(t) ==
    /\ rot[t].pc = "archive"
    /\ \/ /\ retired[rot[t].id] = NoKey
          /\ retired' = [retired EXCEPT ![rot[t].id] = rot[t].old]
          /\ rot' = [rot EXCEPT ![t].pc = "replace"]
          /\ UNCHANGED lock
       \/ /\ rot' = [rot EXCEPT ![t].pc = "failed"]
          /\ lock' = "none"
          /\ UNCHANGED retired
    /\ UNCHANGED <<now, rows, primary, minted, cache, mut, issued, crashes, trouble>>

\* 3. and 4. The rows are relabelled inside the transaction, where nobody sees
\* it, and the fresh key is renamed over the primary.
ReplacePrimary(t) ==
    /\ rot[t].pc = "replace"
    /\ primary' = minted + 1
    /\ minted' = minted + 1
    /\ rot' = [rot EXCEPT ![t].pc = "commit"]
    /\ UNCHANGED <<now, rows, lock, retired, cache, mut, issued, crashes, trouble>>

\* Relabel, random bytes or rename failed: the copy is removed, the transaction
\* rolled back.
ReplaceFails(t) ==
    /\ rot[t].pc = "replace"
    /\ retired' = [retired EXCEPT ![rot[t].id] = NoKey]
    /\ lock' = "none"
    /\ rot' = [rot EXCEPT ![t].pc = "failed"]
    /\ UNCHANGED <<now, rows, primary, minted, cache, mut, issued, crashes, trouble>>

\* rename_durable has renamed the fresh key over the primary, and then cannot
\* sync the directory: for the rotation the replacement failed.
ReplaceUnsynced(t) ==
    /\ "sync" \in Faults
    /\ rot[t].pc = "replace"
    /\ primary' = minted + 1
    /\ minted' = minted + 1
    /\ retired' = [retired EXCEPT ![rot[t].id] = NoKey]
    /\ lock' = "none"
    /\ rot' = [rot EXCEPT ![t].pc = "failed"]
    /\ trouble' = trouble \cup {"lost"}
    /\ UNCHANGED <<now, rows, cache, mut, issued, crashes>>

\* Mutant: the rows keep their label.
CommitWithoutRelabel(t) ==
    /\ rot[t].pc = "commit"
    /\ lock' = "none"
    /\ rot' = [rot EXCEPT ![t].pc = "rotated"]
    /\ UNCHANGED <<now, rows, primary, retired, minted, cache, mut, issued,
                   crashes, trouble>>

\* 5. COMMIT: the relabelled rows become visible.
CommitRotation(t) ==
    /\ rot[t].pc = "commit"
    /\ rows' = [i \in 1..Len(rows) |->
            IF rows[i].label = PrimaryId THEN [rows[i] EXCEPT !.label = rot[t].id]
            ELSE rows[i]]
    /\ lock' = "none"
    /\ rot' = [rot EXCEPT ![t].pc = "rotated"]
    /\ UNCHANGED <<now, primary, retired, minted, cache, mut, issued, crashes, trouble>>

\* COMMIT fails: the transaction, and with it the lock, is gone.
CommitFails(t) ==
    /\ "commit" \in Faults
    /\ rot[t].pc = "commit"
    /\ lock' = "none"
    /\ rot' = [rot EXCEPT ![t].pc = "restore"]
    /\ trouble' = trouble \cup {"commit"}
    /\ UNCHANGED <<now, rows, primary, retired, minted, cache, mut, issued,
                   crashes>>

\* The previous key is written back, or that fails too ...
RestorePrimary(t) ==
    /\ rot[t].pc = "restore"
    /\ \/ primary' = rot[t].old /\ UNCHANGED trouble
       \/ /\ "restore" \in Faults
          /\ trouble' = trouble \cup {"lost"}
          /\ UNCHANGED primary
    /\ rot' = [rot EXCEPT ![t].pc = "undo"]
    /\ UNCHANGED <<now, rows, lock, retired, minted, cache, mut, issued, crashes>>

\* ... and the retired copy is removed in either case.
UndoRetired(t) ==
    /\ rot[t].pc = "undo"
    /\ retired' = [retired EXCEPT ![rot[t].id] = NoKey]
    /\ rot' = [rot EXCEPT ![t].pc = "failed"]
    /\ UNCHANGED <<now, rows, lock, primary, minted, cache, mut, issued, crashes, trouble>>

(***************************************************************************)
(* Environment                                                             *)
(***************************************************************************)

Tick ==
    /\ now <= MaxTime
    /\ now' = now + 1
    /\ UNCHANGED <<rows, lock, primary, retired, minted, cache, mut, rot,
                   issued, crashes, trouble>>

\* A process is killed: its mutations stop where they are, its cache is gone and
\* SQLite rolls its transaction back.
Crash(p) ==
    /\ crashes < MaxCrashes
    /\ crashes' = crashes + 1
    /\ cache' = [cache EXCEPT ![p] = NoLogger]
    /\ mut' = [m \in Muts |->
            IF Home[m] = p /\ mut[m].pc \notin {"done", "refused", "idle"}
            THEN [mut[m] EXCEPT !.pc = "dead"] ELSE mut[m]]
    /\ lock' = IF lock \in Muts /\ Home[lock] = p THEN "none" ELSE lock
    /\ UNCHANGED <<now, rows, primary, retired, minted, rot, issued, trouble>>

CrashRotation(t) ==
    /\ "crash" \in Faults
    /\ rot[t].pc \in Rotating
    /\ rot' = [rot EXCEPT ![t].pc = "dead"]
    /\ lock' = IF lock = t THEN "none" ELSE lock
    /\ trouble' = trouble \cup {"killed"}
    /\ UNCHANGED <<now, rows, primary, retired, minted, cache, mut, issued,
                   crashes>>

(***************************************************************************)
(* Specification                                                           *)
(***************************************************************************)

\* What a mutation's own thread does next.
Mutate(m) ==
    \/ Enter(m) \/ CheckKey(m) \/ Open(m) \/ FirstUseKey(m) \/ CreateKeyOnce(m)
    \/ FullVerify(m) \/ UseLogger(m) \/ BeginAppend(m) \/ CommitAppend(m)
    \/ AuditFails(m) \/ Issue(m)

Rotate(t) ==
    \/ RotateRead(t) \/ RotateBegin(t) \/ Archive(t) \/ ReplacePrimary(t)
    \/ ReplaceFails(t) \/ ReplaceUnsynced(t) \/ CommitRotation(t) \/ CommitFails(t)
    \/ RestorePrimary(t) \/ UndoRetired(t)

Next ==
    \/ Tick
    \/ \E m \in Muts : Mutate(m)
    \/ \E t \in Rotators : Rotate(t) \/ CrashRotation(t)
    \/ \E p \in Procs : Crash(p)

Spec == Init /\ [][Next]_vars

\* Threads that can run do run, and a rotation that was begun goes on; the mutex
\* of the cache is not fair, but a mutation that waits for it is not stopped for
\* ever by finitely many others.
Fairness ==
    /\ \A m \in Muts : WF_vars(Mutate(m))
    /\ \A t \in Rotators : WF_vars(rot[t].pc # "idle" /\ Rotate(t))

FairSpec == Spec /\ Fairness

(***************************************************************************)
(* Properties                                                              *)
(***************************************************************************)

\* The log has a key and no rotation has its transaction open or is undoing itself.
Quiet == primary # NoKey /\ \A t \in Rotators : rot[t].pc \notin Rotating

\* "every entry still verifies, old and new": between rotations `audit verify`
\* finds every row good with the keys on disk, whoever appended, rotated or failed
\* to commit, as long as no rotation overlapped an append or another rotation and
\* none was killed.
ChainVerifies == Quiet /\ trouble \subseteq {"commit"} => ChainVerifiesWith(primary)

\* The chain never forks: concurrent appenders of any process chain onto the row
\* just before theirs, because the last MAC is read under the write lock (#368).
NoFork == \A i \in 1..Len(rows) : rows[i].prev = i - 1

\* The write-ahead trail is complete: a request that left a process has its
\* "sent" row, and an outcome row comes after the "sent" row it answers, also if
\* the process was killed right after the commit.
TrailCoversIssued ==
    /\ \A m \in issued :
          \E i \in 1..Len(rows) : rows[i].mut = m /\ rows[i].kind = "sent"
    /\ \A j \in 1..Len(rows) : rows[j].kind = "outcome" =>
          \E i \in 1..(j - 1) : rows[i].mut = rows[j].mut /\ rows[i].kind = "sent"

\* The key can be had from disk, as primary or as a retired one.
Kept(k) == k = primary \/ \E id \in Ids : k = retired[id]

\* No rotation has met what may cost a key.
KeysSafe ==
    /\ trouble \cap {"rotation", "lost"} = {}
    /\ ~({"append", "commit"} \subseteq trouble)

\* No key that signed a row is ever lost from disk by a rotation: even where a
\* row is labelled wrongly its MAC can still be checked by hand.  Two rotations at
\* once are outside: the second archives the key it read before the first; and so
\* are an append between a failed COMMIT and the key that is written back, and a
\* rotation that removes its copy although the fresh key is in place.
SigningKeysKept ==
    Quiet /\ KeysSafe => \A i \in 1..Len(rows) : Kept(rows[i].signer)

\* A process that goes on refusing mutations because of its verify has a reason:
\* its remembered verdict is about the chain as it is.
RefusalsHaveCause ==
    \A p \in Procs :
        Quiet /\ trouble \subseteq {"commit"} /\ cache[p].bad /\ cache[p].key = primary =>
            ~ChainVerifiesWith(primary)

\* A log restored without its key gets no key and no row: nobody starts a second
\* chain on top of rows that the new key cannot verify (first_use_key).
NoForgedStart ==
    rows # <<>> /\ rows[1] = OldRow => primary = NoKey /\ rows = <<OldRow>> /\ issued = {}

\* A started mutation ends: neither the mutex of the cache nor the write lock of
\* the database strands it, also if a rotation dies holding the lock.
MutationsEnd ==
    \A m \in Muts :
        mut[m].pc # "idle" ~> mut[m].pc \in {"done", "refused", "dead"}

\* One log, one chain: whoever races for the first key, the write lock or a
\* restored log, rows follow one another and start from a key of their own.
LogIsOneChain == TypeOK /\ NoFork /\ NoForgedStart

\* The log can be trusted after rotations: what signed it is kept, between
\* rotations it verifies, and a process that says otherwise is right.
LogVerifies == SigningKeysKept /\ ChainVerifies /\ RefusalsHaveCause

(***************************************************************************)
(* The inductive invariant of LogIsOneChain and TrailCoversIssued          *)
(***************************************************************************)

HasSent(m, n) == \E i \in 1..n : rows[i].mut = m /\ rows[i].kind = "sent"

\* Whoever is about to insert holds the write lock and knows the last row, and
\* so does a rotation inside its transaction.
Appender ==
    /\ \A m \in Muts : mut[m].pc = "insert" => lock = m /\ mut[m].prev = Len(rows)
    /\ \A t \in Rotators : rot[t].pc \in {"archive", "replace", "commit"} => lock = t

\* A mutation that may leave, has left or is answered has its "sent" row.
Covered ==
    \A m \in Muts :
        \/ mut[m].pc \in {"issue", "flight"} \/ mut[m].kind = "outcome" \/ m \in issued
        => HasSent(m, Len(rows))

\* A log that was restored without its key stops every opener before a key.
Stranded ==
    rows # <<>> /\ rows[1].mut = "none" =>
        /\ rows = <<OldRow>> /\ primary = NoKey /\ issued = {}
        /\ \A p \in Procs : cache[p].key = NoKey
        /\ \A m \in Muts : mut[m].pc \in {"idle", "key", "open", "first", "done", "refused", "dead"}
        /\ \A t \in Rotators : rot[t].pc = "idle"

ChainInv == NoFork /\ TrailCoversIssued /\ Appender /\ Covered /\ Stranded

(***************************************************************************)
(* The inductive invariant of LogVerifies                                  *)
(***************************************************************************)

Active == Rotating \cup {"begin"}

\* The points at which a mutation uses the cached logger.
Logging == {"use", "append", "insert"}

\* The mutex of the logger cache: one mutation of a process is in the section.
Exclusive ==
    \A m, n \in Muts :
        mut[m].pc \in Section /\ mut[n].pc \in Section /\ Home[m] = Home[n] => m = n

\* Before the first key nobody has one; from then on whoever verifies, appends or
\* rotates has one, and every row is signed.
Keyed ==
    /\ primary = NoKey =>
          /\ rows = <<>> \/ rows[1].mut = "none"
          /\ \A p \in Procs : cache[p].key = NoKey
          /\ \A m \in Muts : mut[m].pc \notin Logging \cup {"verify"}
          /\ \A t \in Rotators : rot[t].pc = "idle"
    /\ \A m \in Muts :
          /\ mut[m].pc = "verify" => mut[m].key # NoKey
          /\ mut[m].pc \in Logging => cache[Home[m]].key # NoKey
    /\ \A t \in Rotators : rot[t].pc # "idle" => rot[t].old # NoKey /\ rot[t].id \in Ids
    /\ \A i \in 1..Len(rows) : rows[i].signer # NoKey

\* Nobody has a key that was not published.
Published ==
    /\ primary <= minted
    /\ \A p \in Procs : cache[p].key <= minted
    /\ \A m \in Muts : mut[m].key <= minted
    /\ \A t \in Rotators : rot[t].old <= minted
    /\ \A i \in 1..Len(rows) : rows[i].signer <= minted

\* Rotations and appends keep apart unless `trouble` says that they met.
Apart ==
    /\ "rotation" \notin trouble =>
          \A t, u \in Rotators : rot[t].pc \in Active /\ rot[u].pc \in Active => t = u
    /\ "append" \notin trouble =>
          \A t \in Rotators, m \in Muts : rot[t].pc \in Active => mut[m].pc \notin Section

\* How far a rotation has come with the two key files.
Turning ==
    trouble \cap {"rotation", "lost"} = {} =>
        \A t \in Rotators :
            /\ rot[t].pc \in {"begin", "archive", "replace", "undo"} => primary = rot[t].old
            /\ rot[t].pc \in {"replace", "commit", "restore", "undo"} =>
                  retired[rot[t].id] = rot[t].old
            /\ rot[t].pc \in {"restore", "undo"} => "commit" \in trouble

\* A fresh key has signed nothing before its rotation has committed.
Fresh ==
    trouble \cap {"rotation", "lost", "append"} = {} =>
        \A t \in Rotators : rot[t].pc \in {"commit", "restore"} =>
            /\ \A p \in Procs : cache[p].key # primary
            /\ \A i \in 1..Len(rows) : rows[i].signer # primary

\* The keys that have signed and those that may sign can be had from disk.
KeysKept ==
    KeysSafe /\ primary # NoKey =>
        /\ \A i \in 1..Len(rows) : Kept(rows[i].signer)
        /\ \A p \in Procs : cache[p].key # NoKey => Kept(cache[p].key)
        /\ \A m \in Muts : mut[m].pc = "verify" => Kept(mut[m].key)

\* A mutation has the key on disk in its hands as long as no rotation meets it.
Current ==
    "append" \notin trouble =>
        \A m \in Muts :
            /\ mut[m].pc = "verify" => mut[m].key = primary
            /\ mut[m].pc \in Logging => cache[Home[m]].key = primary

\* A retired label names the key that signed the row, `primary` the key on disk,
\* or the one a rotation is about to replace.
Labelled ==
    trouble \subseteq {"commit"} /\ primary # NoKey =>
        /\ \A i \in 1..Len(rows) :
              IF rows[i].label = PrimaryId
              THEN \/ rows[i].signer = primary
                   \/ \E t \in Rotators : rot[t].pc \in {"commit", "restore"}
              ELSE /\ rows[i].signer = retired[rows[i].label]
                   /\ \A t \in Rotators : rot[t].pc \in Rotating \ {"archive"} =>
                         rows[i].label # rot[t].id
        /\ \A i \in 1..Len(rows), t \in Rotators :
              rot[t].pc \in {"commit", "restore"} /\ rows[i].label = PrimaryId =>
                  rows[i].signer = rot[t].old

\* No logger has seen the log otherwise.
Clean == trouble \subseteq {"commit"} => \A p \in Procs : ~cache[p].bad

KeyInv ==
    /\ Exclusive /\ Keyed /\ Published /\ Apart /\ Turning /\ Fresh /\ KeysKept
    /\ Current /\ Labelled /\ Clean
=============================================================================
