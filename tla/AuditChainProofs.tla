-------------------------- MODULE AuditChainProofs --------------------------
(***************************************************************************)
(* Machine-checked proofs about AuditChain, for any number of processes,   *)
(* mutations, rotations, faults and crashes.                               *)
(***************************************************************************)
EXTENDS AuditChain, SequenceTheorems, TLAPS

\* What the proofs use of the constants.
LEMMA AuditConstants ==
    /\ \A m \in Muts : Home[m] \in Procs /\ m \notin Rotators /\ m # "none"
    /\ "none" \notin Muts /\ "none" \notin Rotators
    /\ MaxTime \in Nat /\ MaxCrashes \in Nat
    /\ 1 \in Ids /\ Ids \subseteq Nat
  BY AuditAssumption DEF AuditAssumption, Ids

\* The rows before and after an append: one more, and the others are the same.
LEMMA AppendFacts ==
    ASSUME TypeOK, NEW m \in Muts, CommitAppend(m)
    PROVE  /\ rows' \in Seq(Rows) /\ Len(rows') = Len(rows) + 1
           /\ Len(rows) \in Nat
           /\ \A i \in 1..Len(rows) : rows'[i] = rows[i]
           /\ rows'[Len(rows) + 1].prev = mut[m].prev
           /\ rows'[Len(rows) + 1].mut = m
           /\ rows'[Len(rows) + 1].kind = mut[m].kind
<1> DEFINE row == [signer |-> cache[Home[m]].key, label |-> PrimaryId,
                   prev |-> mut[m].prev, mut |-> m, kind |-> mut[m].kind]
<1>1. row \in Rows
  BY AuditConstants DEF TypeOK, Rows, Caches, MutLocals
<1>2. rows \in Seq(Rows) /\ rows' = Append(rows, row)
  BY DEF CommitAppend, TypeOK
<1>3. /\ row.prev = mut[m].prev /\ row.mut = m /\ row.kind = mut[m].kind
  OBVIOUS
<1> HIDE DEF row
<1> QED
  BY <1>1, <1>2, <1>3, AppendProperties, LenProperties

\* A rotation's commit changes labels and nothing else.
LEMMA RelabelFacts ==
    ASSUME TypeOK, NEW t \in Rotators, CommitRotation(t)
    PROVE  /\ rows' \in Seq(Rows) /\ Len(rows') = Len(rows)
           /\ Len(rows) \in Nat
           /\ \A i \in 1..Len(rows) :
                 /\ rows'[i].prev = rows[i].prev /\ rows'[i].mut = rows[i].mut
                 /\ rows'[i].kind = rows[i].kind
<1> DEFINE new(i) == IF rows[i].label = PrimaryId THEN [rows[i] EXCEPT !.label = rot[t].id]
                     ELSE rows[i]
<1>1. rows \in Seq(Rows) /\ Len(rows) \in Nat
  BY LenProperties DEF TypeOK
<1>2. ASSUME NEW i \in 1..Len(rows) PROVE rows[i] \in Rows
  BY <1>1, ElementOfSeq
<1>3. rot[t].id \in {PrimaryId} \cup Ids
  BY DEF TypeOK, RotLocals
<1>4. ASSUME NEW i \in 1..Len(rows)
      PROVE  /\ new(i) \in Rows /\ new(i).prev = rows[i].prev
             /\ new(i).mut = rows[i].mut /\ new(i).kind = rows[i].kind
  BY <1>2, <1>3 DEF Rows
<1>5. rows' = [i \in 1..Len(rows) |-> new(i)]
  BY DEF CommitRotation
<1> HIDE DEF new
<1>6. rows' \in [1..Len(rows) -> Rows]
  BY <1>4, <1>5
<1>7. rows' \in Seq(Rows)
  BY <1>1, <1>6, SeqDef
<1>8. Len(rows') = Len(rows)
  BY <1>1, <1>6, <1>7, LenProperties
<1> QED
  BY <1>1, <1>4, <1>5, <1>7, <1>8

----------------------------------------------------------------------------
(* Type correctness.                                                       *)

\* The first state is well typed.
LEMMA AuditTypeInit == Init => TypeOK
<1> SUFFICES ASSUME Init PROVE TypeOK
  OBVIOUS
<1>1. OldRow \in Rows
  BY DEF OldRow, Rows
<1>2. rows \in Seq(Rows) /\ Len(rows) \in Nat
  <2>1. <<OldRow>> \in [1..1 -> Rows] /\ <<>> \in Seq(Rows)
    BY <1>1, EmptySeq
  <2>2. <<OldRow>> \in Seq(Rows)
    BY <2>1, SeqDef
  <2> QED
    BY <2>1, <2>2, LenProperties DEF Init
<1>3. /\ [m \in Muts |-> [pc |-> "idle", kind |-> "sent", key |-> NoKey, prev |-> 0]]
            \in [Muts -> MutLocals]
      /\ [t \in Rotators |-> [pc |-> "idle", old |-> NoKey, id |-> PrimaryId]]
            \in [Rotators -> RotLocals]
      /\ [p \in Procs |-> NoLogger] \in [Procs -> Caches]
  BY DEF MutLocals, MutPoints, RotLocals, RotPoints, NoLogger, Caches, NoKey
<1> QED
  BY <1>2, <1>3, AuditConstants DEF Init, TypeOK, NoKey

\* A mutation whose locals are replaced.
LEMMA MutTyped ==
    ASSUME TypeOK, NEW m \in Muts, NEW x \in MutLocals, mut' = [mut EXCEPT ![m] = x]
    PROVE  /\ mut' \in [Muts -> MutLocals] /\ mut'[m] = x
           /\ \A n \in Muts \ {m} : mut'[n] = mut[n]
  BY DEF TypeOK

\* The ways in which the locals of a mutation change.
LEMMA LocalsTyped ==
    ASSUME NEW x \in MutLocals, NEW pc \in MutPoints, NEW k \in Nat, NEW n \in Nat,
           NEW kind \in {"sent", "outcome"}
    PROVE  /\ [x EXCEPT !.pc = pc] \in MutLocals
           /\ [x EXCEPT !.pc = pc, !.kind = kind] \in MutLocals
           /\ [x EXCEPT !.pc = pc, !.key = k] \in MutLocals
           /\ [x EXCEPT !.pc = pc, !.prev = n] \in MutLocals
           /\ GiveUp(x) \in MutLocals
  BY DEF MutLocals, GiveUp, MutPoints
\* One mutation moves: what its steps make of its locals and the rest.
LEMMA MutateTyped == ASSUME TypeOK, NEW m \in Muts, Mutate(m) PROVE TypeOK'
<1>0. /\ mut[m] \in MutLocals /\ Home[m] \in Procs
      /\ Len(rows) \in Nat /\ mut[m].key \in Nat
      /\ mut[m].kind \in {"sent", "outcome"}
  BY AuditConstants, LenProperties DEF TypeOK, MutLocals
<1>p. {"idle", "issue", "flight", "done", "refused", "dead", "key", "open", "first", "create",
       "verify", "use", "append", "insert"} \subseteq MutPoints
  BY DEF MutPoints, Section
<1>c. /\ NoLogger \in Caches /\ cache[Home[m]] \in Caches
      /\ \A k \in Nat : \A b \in BOOLEAN : [key |-> k, bad |-> b] \in Caches
  BY <1>0 DEF TypeOK, NoLogger, NoKey, Caches
<1>1. CASE Enter(m)
  <2>1. mut' \in [Muts -> MutLocals]
    BY <1>0, <1>1, <1>p, LocalsTyped, MutTyped DEF Enter
  <2> QED
    BY <1>1, <2>1 DEF Enter, Met, Troubles, TypeOK
<1>2. CASE CheckKey(m)
  <2>1. mut' \in [Muts -> MutLocals]
    BY <1>0, <1>2, <1>p, LocalsTyped, MutTyped DEF CheckKey
  <2> QED
    BY <1>2, <1>c, <2>1 DEF CheckKey, TypeOK
<1>3. CASE Open(m) \/ FirstUseKey(m)
  <2>1. primary \in Nat
    BY DEF TypeOK
  <2>2. mut' \in [Muts -> MutLocals]
    BY <1>0, <1>3, <1>p, <2>1, LocalsTyped, MutTyped DEF Open, FirstUseKey
  <2> QED
    BY <1>3, <2>2 DEF Open, FirstUseKey, TypeOK
<1>4. CASE CreateKeyOnce(m)
  <2>1. primary \in Nat /\ minted + 1 \in Nat
    BY DEF TypeOK
  <2>2. mut' \in [Muts -> MutLocals]
    BY <1>0, <1>4, <1>p, <2>1, LocalsTyped, MutTyped DEF CreateKeyOnce
  <2> QED
    BY <1>4, <2>1, <2>2 DEF CreateKeyOnce, TypeOK
<1>5. CASE FullVerify(m)
  <2>1. mut' \in [Muts -> MutLocals]
    BY <1>0, <1>5, <1>p, LocalsTyped, MutTyped DEF FullVerify
  <2>2. (~ChainVerifiesWith(mut[m].key)) \in BOOLEAN
    BY DEF ChainVerifiesWith
  <2>3. cache' \in [Procs -> Caches]
    BY <1>0, <1>5, <1>c, <2>2 DEF FullVerify, TypeOK
  <2> QED
    BY <1>5, <2>1, <2>3 DEF FullVerify, TypeOK
<1>6. CASE UseLogger(m)
  <2>1. mut' \in [Muts -> MutLocals]
    BY <1>0, <1>6, <1>p, LocalsTyped, MutTyped DEF UseLogger
  <2> QED
    BY <1>6, <2>1 DEF UseLogger, TypeOK
<1>7. CASE BeginAppend(m)
  <2>1. mut' \in [Muts -> MutLocals]
    BY <1>0, <1>7, <1>p, LocalsTyped, MutTyped DEF BeginAppend
  <2> QED
    BY <1>7, <2>1 DEF BeginAppend, TypeOK
<1>8. CASE CommitAppend(m)
  <2>1. mut' \in [Muts -> MutLocals]
    BY <1>0, <1>8, <1>p, LocalsTyped, MutTyped DEF CommitAppend
  <2>2. rows' \in Seq(Rows)
    BY <1>8, AppendFacts
  <2> QED
    BY <1>8, <2>1, <2>2 DEF CommitAppend, TypeOK
<1>9. CASE AuditFails(m)
  <2>1. mut' \in [Muts -> MutLocals]
    BY <1>0, <1>9, <1>p, LocalsTyped, MutTyped DEF AuditFails
  <2> QED
    BY <1>9, <1>c, <2>1 DEF AuditFails, TypeOK
<1>10. CASE Issue(m)
  <2>1. mut' \in [Muts -> MutLocals]
    BY <1>0, <1>10, <1>p, LocalsTyped, MutTyped DEF Issue
  <2> QED
    BY <1>10, <2>1 DEF Issue, TypeOK
<1> QED
  BY <1>1, <1>2, <1>3, <1>4, <1>5, <1>6, <1>7, <1>8, <1>9, <1>10 DEF Mutate

\* One rotation moves, or is killed.
LEMMA RotateTyped ==
    ASSUME TypeOK, NEW t \in Rotators, Rotate(t) \/ CrashRotation(t)
    PROVE  TypeOK'
<1>0. rot[t].id \in {PrimaryId} \cup Ids /\ rot[t].old \in Nat
  BY DEF TypeOK, RotLocals
<1>p. ASSUME NEW pc \in RotPoints, rot' = [rot EXCEPT ![t].pc = pc]
      PROVE  rot' \in [Rotators -> RotLocals]
  <2>1. [rot[t] EXCEPT !.pc = pc] \in RotLocals
    BY DEF TypeOK, RotLocals
  <2> QED
    BY <1>p, <2>1 DEF TypeOK
<1>q. {"archive", "replace", "commit", "restore", "undo", "rotated", "failed", "dead"}
          \subseteq RotPoints
  BY DEF RotPoints, Rotating
<1>r. ASSUME NEW k \in Nat, retired' = [retired EXCEPT ![rot[t].id] = k]
      PROVE  retired' \in [Ids -> Nat]
  BY <1>r DEF TypeOK
<1>1. CASE RotateRead(t)
  <2>1. [pc |-> "begin", old |-> primary, id |-> now] \in RotLocals
    BY DEF TypeOK, RotLocals, RotPoints
  <2> QED
    BY <1>1, <2>1 DEF RotateRead, Met, Troubles, TypeOK
<1>2. CASE RotateBegin(t)
  <2>1. rot' \in [Rotators -> RotLocals]
    BY <1>2, <1>p, <1>q DEF RotateBegin
  <2> QED
    BY <1>2, <2>1 DEF RotateBegin, TypeOK
<1>3. CASE Archive(t)
  <2>1. rot' \in [Rotators -> RotLocals]
    BY <1>3, <1>p, <1>q DEF Archive
  <2>2. retired' \in [Ids -> Nat]
    BY <1>0, <1>3, <1>r DEF Archive, TypeOK
  <2> QED
    BY <1>3, <2>1, <2>2 DEF Archive, TypeOK
<1>4. CASE ReplacePrimary(t)
  <2>1. rot' \in [Rotators -> RotLocals]
    BY <1>4, <1>p, <1>q DEF ReplacePrimary
  <2> QED
    BY <1>4, <2>1 DEF ReplacePrimary, TypeOK
<1>5. CASE ReplaceFails(t) \/ UndoRetired(t)
  <2>1. rot' \in [Rotators -> RotLocals]
    BY <1>5, <1>p, <1>q DEF ReplaceFails, UndoRetired
  <2>2. retired' \in [Ids -> Nat]
    BY <1>5, <1>r DEF ReplaceFails, UndoRetired, NoKey
  <2> QED
    BY <1>5, <2>1, <2>2 DEF ReplaceFails, UndoRetired, TypeOK
<1>6. CASE CommitRotation(t)
  <2>1. rot' \in [Rotators -> RotLocals]
    BY <1>6, <1>p, <1>q DEF CommitRotation
  <2>2. rows' \in Seq(Rows)
    BY <1>6, RelabelFacts
  <2> QED
    BY <1>6, <2>1, <2>2 DEF CommitRotation, TypeOK
<1>7. CASE CommitFails(t)
  <2>1. rot' \in [Rotators -> RotLocals]
    BY <1>7, <1>p, <1>q DEF CommitFails
  <2> QED
    BY <1>7, <2>1 DEF CommitFails, TypeOK, Troubles
<1>8. CASE RestorePrimary(t)
  <2>1. rot' \in [Rotators -> RotLocals]
    BY <1>8, <1>p, <1>q DEF RestorePrimary
  <2> QED
    BY <1>0, <1>8, <2>1 DEF RestorePrimary, TypeOK, Troubles
<1>9. CASE CrashRotation(t)
  <2>1. rot' \in [Rotators -> RotLocals]
    BY <1>9, <1>p, <1>q DEF CrashRotation
  <2> QED
    BY <1>9, <2>1 DEF CrashRotation, TypeOK, Troubles
<1>10. CASE ReplaceUnsynced(t)
  <2>1. rot' \in [Rotators -> RotLocals]
    BY <1>10, <1>p, <1>q DEF ReplaceUnsynced
  <2>2. retired' \in [Ids -> Nat]
    BY <1>10, <1>r DEF ReplaceUnsynced, NoKey
  <2> QED
    BY <1>10, <2>1, <2>2 DEF ReplaceUnsynced, TypeOK, Troubles
<1> QED
  BY <1>1, <1>2, <1>3, <1>4, <1>5, <1>6, <1>7, <1>8, <1>9, <1>10 DEF Rotate

\* A process is killed.
LEMMA CrashTyped == ASSUME TypeOK, NEW p \in Procs, Crash(p) PROVE TypeOK'
<1>1. ASSUME NEW m \in Muts PROVE [mut[m] EXCEPT !.pc = "dead"] \in MutLocals
  BY <1>1 DEF TypeOK, MutLocals, MutPoints
<1>2. mut' \in [Muts -> MutLocals]
  BY <1>1 DEF Crash, TypeOK
<1>3. cache' \in [Procs -> Caches]
  BY DEF Crash, TypeOK, NoLogger, NoKey, Caches
<1> QED
  BY <1>2, <1>3 DEF Crash, TypeOK

\* Every step keeps the types.
LEMMA AuditTypeStep == TypeOK /\ [Next]_vars => TypeOK'
<1> SUFFICES ASSUME TypeOK, [Next]_vars PROVE TypeOK'
  OBVIOUS
<1>1. CASE Tick
  <2>1. now' \in Ids
    BY <1>1, AuditConstants DEF Tick, TypeOK, Ids
  <2> QED
    BY <1>1, <2>1 DEF Tick, TypeOK
<1>2. CASE UNCHANGED vars
  BY <1>2 DEF vars, TypeOK
<1> QED
  BY <1>1, <1>2, MutateTyped, RotateTyped, CrashTyped DEF Next

\* Every reachable state of the log, its keys and its writers is well typed.
THEOREM AuditTypes == Spec => []TypeOK
  BY AuditTypeInit, AuditTypeStep, PTL DEF Spec

----------------------------------------------------------------------------
(* The inductive invariant.                                                *)

\* What the steps of a mutation have in common: they are its own; only
\* BeginAppend leads to an insert, only a committed "sent" row to the request;
\* an outcome row is for a mutation that was in flight.
LEMMA MoveFacts ==
    ASSUME TypeOK, NEW m \in Muts, Mutate(m)
    PROVE  /\ \A n \in Muts \ {m} : mut'[n] = mut[n]
           /\ mut'[m].pc = "insert" => BeginAppend(m)
           /\ mut'[m].pc \in {"issue", "flight"} =>
                 (CommitAppend(m) /\ mut[m].kind = "sent") \/ Issue(m)
           /\ mut'[m].kind = "outcome" => mut[m].kind = "outcome" \/ mut[m].pc = "flight"
           /\ issued' # issued => Issue(m)
           /\ rows' # rows => CommitAppend(m)
           /\ rot' = rot
<1>0. mut[m] \in MutLocals /\ mut \in [Muts -> MutLocals]
  BY DEF TypeOK
<1>1. CASE Enter(m)
  BY <1>0, <1>1 DEF Enter, MutLocals
<1>2. CASE CheckKey(m) \/ FullVerify(m) \/ UseLogger(m)
  BY <1>0, <1>2 DEF CheckKey, FullVerify, UseLogger, MutLocals
<1>3. CASE Open(m) \/ CreateKeyOnce(m)
  BY <1>0, <1>3 DEF Open, CreateKeyOnce, MutLocals
<1>4. CASE FirstUseKey(m)
  BY <1>0, <1>4 DEF FirstUseKey, GiveUp, MutLocals
<1>5. CASE AuditFails(m)
  BY <1>0, <1>5 DEF AuditFails, GiveUp, MutLocals
<1>6. CASE BeginAppend(m)
  BY <1>0, <1>6 DEF BeginAppend, MutLocals
<1>7. CASE CommitAppend(m)
  BY <1>0, <1>7 DEF CommitAppend, MutLocals
<1>8. CASE Issue(m)
  BY <1>0, <1>8 DEF Issue, MutLocals
<1> QED
  BY <1>1, <1>2, <1>3, <1>4, <1>5, <1>6, <1>7, <1>8 DEF Mutate

\* What the steps of a rotation have in common: they are its own, and rows are
\* touched by the commit alone.
LEMMA TurnFacts ==
    ASSUME TypeOK, NEW t \in Rotators, Rotate(t) \/ CrashRotation(t)
    PROVE  /\ \A u \in Rotators \ {t} : rot'[u] = rot[u]
           /\ mut' = mut /\ issued' = issued /\ cache' = cache
           /\ rows' # rows => CommitRotation(t)
           /\ rot[t].pc = "idle" => RotateRead(t)
<1>1. CASE RotateRead(t) \/ RotateBegin(t) \/ Archive(t) \/ ReplacePrimary(t) \/ ReplaceFails(t)
  BY <1>1 DEF RotateRead, RotateBegin, Archive, ReplacePrimary, ReplaceFails, TypeOK, RotLocals
<1>2. CASE \/ CommitRotation(t) \/ CommitFails(t) \/ RestorePrimary(t) \/ UndoRetired(t)
           \/ ReplaceUnsynced(t) \/ CrashRotation(t)
  BY <1>2 DEF CommitRotation, CommitFails, RestorePrimary, UndoRetired, ReplaceUnsynced,
              CrashRotation, Rotating, TypeOK, RotLocals
<1> QED
  BY <1>1, <1>2 DEF Rotate

\* A process that is killed leaves its mutations dead or where they had ended.
LEMMA CrashFacts ==
    ASSUME TypeOK, NEW p \in Procs, Crash(p)
    PROVE  /\ \A m \in Muts :
                 /\ mut'[m].kind = mut[m].kind /\ mut'[m].prev = mut[m].prev
                 /\ mut'[m].pc \in {mut[m].pc, "dead"}
                 /\ Home[m] = p => mut'[m].pc # "insert"
           /\ rows' = rows /\ issued' = issued /\ rot' = rot /\ primary' = primary
  BY DEF Crash, TypeOK, MutLocals

\* Rows are never lost, and neither their order nor what they are about changes.
LEMMA RowsGrow ==
    ASSUME TypeOK, [Next]_vars
    PROVE  /\ Len(rows) \in Nat /\ Len(rows') \in Nat /\ Len(rows') >= Len(rows)
           /\ \A i \in 1..Len(rows) :
                 /\ rows'[i].prev = rows[i].prev /\ rows'[i].mut = rows[i].mut
                 /\ rows'[i].kind = rows[i].kind
<1>0. Len(rows) \in Nat
  BY LenProperties DEF TypeOK
<1>1. ASSUME NEW m \in Muts, Mutate(m) PROVE rows' = rows \/ CommitAppend(m)
  BY <1>1, MoveFacts
<1>2. ASSUME NEW t \in Rotators, Rotate(t) \/ CrashRotation(t)
      PROVE  rows' = rows \/ CommitRotation(t)
  BY <1>2, TurnFacts
<1>3. \/ rows' = rows \/ \E m \in Muts : CommitAppend(m)
      \/ \E t \in Rotators : CommitRotation(t)
  BY <1>1, <1>2, CrashFacts DEF Next, Tick, vars
<1> QED
  BY <1>0, <1>3, AppendFacts, RelabelFacts

\* A "sent" row that is there stays there.
LEMMA SentStays ==
    ASSUME TypeOK, [Next]_vars, NEW m, NEW n \in Nat, n <= Len(rows), HasSent(m, n)
    PROVE  HasSent(m, n)' /\ HasSent(m, Len(rows))'
  BY RowsGrow DEF HasSent

\* The write lock.
LEMMA AppenderStep == ASSUME TypeOK, Appender, [Next]_vars PROVE Appender'
<1>1. ASSUME NEW m \in Muts, Mutate(m) PROVE Appender'
  <2>1. CASE BeginAppend(m)
    <3>1. /\ lock = "none" /\ lock' = m /\ rows' = rows
          /\ mut'[m].prev = Len(rows)
      BY <2>1 DEF BeginAppend, TypeOK, MutLocals
    <3> QED
      BY <1>1, <3>1, MoveFacts, AuditConstants DEF Appender
  <2>2. CASE CommitAppend(m)
    <3>1. lock = m /\ lock' = "none" /\ ~BeginAppend(m)
      BY <2>2 DEF CommitAppend, BeginAppend, Appender
    <3> QED
      BY <1>1, <3>1, MoveFacts, AuditConstants DEF Appender
  <2>3. CASE AuditFails(m)
    <3>1. /\ lock' = IF lock = m THEN "none" ELSE lock
          /\ rows' = rows /\ ~BeginAppend(m)
      BY <2>3, AuditConstants DEF AuditFails, BeginAppend
    <3> QED
      BY <1>1, <3>1, MoveFacts, AuditConstants DEF Appender
  <2>4. CASE ~BeginAppend(m) /\ ~CommitAppend(m) /\ ~AuditFails(m)
    <3>1. lock' = lock
      BY <1>1, <2>4 DEF Mutate, Enter, CheckKey, Open, FirstUseKey, CreateKeyOnce, FullVerify,
                        UseLogger, Issue
    <3> QED
      BY <1>1, <2>4, <3>1, MoveFacts DEF Appender
  <2> QED
    BY <2>1, <2>2, <2>3, <2>4
<1>2. ASSUME NEW t \in Rotators, Rotate(t) \/ CrashRotation(t) PROVE Appender'
  <2>1. Len(rows') = Len(rows) /\ mut' = mut
    BY <1>2, TurnFacts, RelabelFacts
  <2>2. CASE lock' = lock /\ (rot'[t].pc \in {"archive", "replace", "commit"} =>
                                rot[t].pc \in {"archive", "replace", "commit"})
    BY <1>2, <2>1, <2>2, TurnFacts DEF Appender
  <2>3. CASE lock = t /\ lock' = "none" /\ rot'[t].pc \notin {"archive", "replace", "commit"}
    BY <1>2, <2>1, <2>3, TurnFacts, AuditConstants DEF Appender
  <2>4. CASE lock = "none" /\ lock' = t
    BY <1>2, <2>1, <2>4, TurnFacts, AuditConstants DEF Appender
  <2>5. \/ lock' = lock /\ (rot'[t].pc \in {"archive", "replace", "commit"} =>
                                rot[t].pc \in {"archive", "replace", "commit"})
        \/ lock = t /\ lock' = "none" /\ rot'[t].pc \notin {"archive", "replace", "commit"}
        \/ lock = "none" /\ lock' = t
    <3>1. CASE RotateRead(t) \/ ReplacePrimary(t) \/ RestorePrimary(t) \/ UndoRetired(t)
      <4>1. lock' = lock
        BY <3>1 DEF RotateRead, ReplacePrimary, RestorePrimary, UndoRetired
      <4>2. \/ rot'[t].pc \in {"begin", "undo", "failed"}
            \/ rot[t].pc = "replace" /\ rot'[t].pc = "commit"
        <5>1. CASE RotateRead(t)
          BY <5>1 DEF RotateRead, TypeOK
        <5>2. CASE ReplacePrimary(t)
          BY <5>2 DEF ReplacePrimary, TypeOK, RotLocals
        <5>3. CASE RestorePrimary(t) \/ UndoRetired(t)
          BY <5>3 DEF RestorePrimary, UndoRetired, TypeOK, RotLocals
        <5> QED
          BY <3>1, <5>1, <5>2, <5>3
      <4> QED
        BY <4>1, <4>2
    <3>2. CASE RotateBegin(t)
      BY <3>2 DEF RotateBegin, TypeOK, RotLocals
    <3>3. CASE Archive(t)
      BY <3>3 DEF Archive, Appender, TypeOK, RotLocals
    <3>4. CASE \/ ReplaceFails(t) \/ ReplaceUnsynced(t) \/ CommitRotation(t)
               \/ CommitFails(t)
      <4>1. rot[t].pc \in {"replace", "commit"} /\ lock = t /\ lock' = "none"
        BY <3>4 DEF ReplaceFails, ReplaceUnsynced, CommitRotation, CommitFails, Appender
      <4>2. rot'[t].pc \in {"failed", "rotated", "restore"}
        BY <3>4 DEF ReplaceFails, ReplaceUnsynced, CommitRotation, CommitFails, TypeOK, RotLocals
      <4> QED
        BY <4>1, <4>2
    <3>5. CASE CrashRotation(t)
      BY <3>5 DEF CrashRotation, TypeOK, RotLocals
    <3> QED
      BY <1>2, <3>1, <3>2, <3>3, <3>4, <3>5 DEF Rotate
  <2> QED
    BY <2>2, <2>3, <2>4, <2>5
<1>3. ASSUME NEW p \in Procs, Crash(p) PROVE Appender'
  <2>1. lock' = IF lock \in Muts /\ Home[lock] = p THEN "none" ELSE lock
    BY <1>3 DEF Crash
  <2> QED
    BY <1>3, <2>1, CrashFacts, AuditConstants DEF Appender
<1>4. CASE Tick \/ UNCHANGED vars
  BY <1>4 DEF Tick, vars, Appender
<1> QED
  BY <1>1, <1>2, <1>3, <1>4 DEF Next

\* The chain does not fork: an append chains onto the row it was told of under
\* the lock.
LEMMA NoForkStep == ASSUME TypeOK, NoFork, Appender, [Next]_vars PROVE NoFork'
<1>1. ASSUME NEW m \in Muts, CommitAppend(m) PROVE NoFork'
  <2>1. mut[m].prev = Len(rows)
    BY <1>1 DEF CommitAppend, Appender
  <2> QED
    BY <1>1, <2>1, AppendFacts DEF NoFork
<1>2. ASSUME NEW t \in Rotators, CommitRotation(t) PROVE NoFork'
  BY <1>2, RelabelFacts DEF NoFork
<1>3. CASE rows' = rows
  BY <1>3 DEF NoFork
<1> QED
  BY <1>1, <1>2, <1>3, MoveFacts, TurnFacts, CrashFacts DEF Next, Tick, vars

\* A mutation that may leave, has left or is answered has its "sent" row.
LEMMA CoveredStep == ASSUME TypeOK, Covered, [Next]_vars PROVE Covered'
<1>0. Len(rows) \in Nat
  BY LenProperties DEF TypeOK
<1> DEFINE Needs(n) ==
        mut[n].pc \in {"issue", "flight"} \/ mut[n].kind = "outcome" \/ n \in issued
<1>1. ASSUME NEW n \in Muts, Needs(n) PROVE HasSent(n, Len(rows))'
  BY <1>0, <1>1, SentStays DEF Covered
<1>2. ASSUME NEW m \in Muts, Mutate(m), NEW n \in Muts, Needs(n)' PROVE HasSent(n, Len(rows))'
  <2>1. CASE Needs(n)
    BY <1>1, <2>1
  <2>2. CASE ~Needs(n)
    <3>1. n = m \/ Issue(m)
      BY <1>2, <2>2, MoveFacts
    <3>2. ASSUME Issue(m) PROVE FALSE
      <4>1. mut[m].pc = "issue" /\ issued' = issued \cup {m}
        BY <3>2 DEF Issue
      <4>2. n # m
        BY <2>2, <4>1
      <4> QED
        BY <1>2, <2>2, <4>1, <4>2, MoveFacts
    <3>3. CommitAppend(n) /\ mut[n].kind = "sent"
      BY <1>2, <2>2, <3>1, <3>2, MoveFacts
    <3> QED
      BY <3>3, AppendFacts DEF HasSent
  <2> QED
    BY <2>1, <2>2
<1>3. ASSUME NEW n \in Muts, Needs(n)', mut' = mut, issued' = issued PROVE HasSent(n, Len(rows))'
  BY <1>1, <1>3
<1>4. ASSUME NEW p \in Procs, Crash(p), NEW n \in Muts, Needs(n)' PROVE HasSent(n, Len(rows))'
  BY <1>1, <1>4, CrashFacts
<1>5. \/ \E m \in Muts : Mutate(m)
      \/ \E p \in Procs : Crash(p)
      \/ mut' = mut /\ issued' = issued
  BY TurnFacts DEF Next, Tick, vars
<1>6. \A n \in Muts : Needs(n)' => HasSent(n, Len(rows))'
  BY <1>2, <1>3, <1>4, <1>5
<1> QED
  BY <1>6 DEF Covered

\* Some of the first n rows of a log f is the "sent" row of m.
SentIn(f, m, n) == \E i \in 1..n : f[i].mut = m /\ f[i].kind = "sent"

\* Outcome rows follow the "sent" rows they answer.
LEMMA TrailStep ==
    ASSUME TypeOK, Covered, TrailCoversIssued, [Next]_vars
    PROVE  TrailCoversIssued'
<1>0. Len(rows) \in Nat /\ issued' \subseteq Muts
  BY LenProperties, AuditTypeStep DEF TypeOK
<1>1. \A m \in issued' : SentIn(rows', m, Len(rows'))
  BY <1>0, CoveredStep DEF Covered, HasSent, SentIn
<1>2. \A j \in 1..Len(rows) : rows[j].kind = "outcome" => SentIn(rows, rows[j].mut, j - 1)
  BY DEF TrailCoversIssued, SentIn
<1>3. ASSUME NEW j \in 1..Len(rows), rows'[j].kind = "outcome"
      PROVE  SentIn(rows', rows'[j].mut, j - 1)
  <2>1. /\ rows[j].kind = "outcome" /\ rows'[j].mut = rows[j].mut
        /\ j - 1 \in Nat /\ j - 1 <= Len(rows)
    BY <1>0, <1>3, RowsGrow
  <2>2. PICK i \in 1..(j - 1) : rows[i].mut = rows[j].mut /\ rows[i].kind = "sent"
    BY <1>2, <2>1 DEF SentIn
  <2>3. i \in 1..Len(rows)
    BY <1>0, <2>1, <2>2
  <2>4. rows'[i].mut = rows'[j].mut /\ rows'[i].kind = "sent"
    BY <2>1, <2>2, <2>3, RowsGrow
  <2> QED
    BY <2>2, <2>4 DEF SentIn
<1>5. \A j \in 1..Len(rows') : rows'[j].kind = "outcome" => SentIn(rows', rows'[j].mut, j - 1)
  <2>1. CASE Len(rows') = Len(rows)
    BY <1>3, <2>1
  <2>2. ASSUME NEW m \in Muts, CommitAppend(m), NEW j \in 1..Len(rows'), rows'[j].kind = "outcome"
        PROVE  SentIn(rows', rows'[j].mut, j - 1)
    <3>1. /\ Len(rows') = Len(rows) + 1
          /\ rows'[Len(rows) + 1].mut = m /\ rows'[Len(rows) + 1].kind = mut[m].kind
          /\ \A i \in 1..Len(rows) : rows'[i] = rows[i]
      BY <2>2, AppendFacts
    <3>2. CASE j = Len(rows) + 1
      <4>1. HasSent(m, Len(rows))
        BY <2>2, <3>1, <3>2 DEF Covered
      <4>2. SentIn(rows', m, Len(rows))
        BY <3>1, <4>1 DEF HasSent, SentIn
      <4>3. j - 1 = Len(rows) /\ rows'[j].mut = m
        BY <1>0, <3>1, <3>2
      <4> QED
        BY <4>2, <4>3
    <3>3. CASE j # Len(rows) + 1
      <4>1. j \in 1..Len(rows)
        BY <1>0, <2>2, <3>1, <3>3
      <4> QED
        BY <1>3, <2>2, <4>1
    <3> QED
      BY <3>2, <3>3
  <2>3. Len(rows') = Len(rows) \/ \E m \in Muts : CommitAppend(m)
    BY MoveFacts, TurnFacts, CrashFacts, RelabelFacts DEF Next, Tick, vars
  <2> QED
    BY <2>1, <2>2, <2>3
<1> QED
  BY <1>1, <1>5 DEF TrailCoversIssued, SentIn

\* A restored log without its key: no opener gets past first_use_key.
LEMMA StrandedStep == ASSUME TypeOK, Stranded, [Next]_vars PROVE Stranded'
<1> DEFINE Harmless == {"idle", "key", "open", "first", "done", "refused", "dead"}
<1> SUFFICES ASSUME rows' # <<>>, rows'[1].mut = "none"
             PROVE  /\ rows' = <<OldRow>> /\ primary' = NoKey /\ issued' = {}
                    /\ \A p \in Procs : cache'[p].key = NoKey
                    /\ \A m \in Muts : mut'[m].pc \in Harmless
                    /\ \A t \in Rotators : rot'[t].pc = "idle"
  BY DEF Stranded
<1>1. rows # <<>> /\ rows[1].mut = "none"
  <2>1. rows \in Seq(Rows) /\ rows' \in Seq(Rows)
    BY AuditTypeStep DEF TypeOK
  <2>2. Len(rows') \in Nat \ {0} /\ (Len(rows) = 0 => rows = <<>>) /\ Len(rows) \in Nat
    BY <2>1, EmptySeq, LenProperties
  <2>3. ASSUME Len(rows) # 0 PROVE rows[1].mut = "none" /\ rows # <<>>
    BY <2>2, <2>3, RowsGrow, EmptySeq
  <2>4. ASSUME Len(rows) = 0 PROVE FALSE
    <3>1. PICK m \in Muts : CommitAppend(m)
      BY <2>2, <2>4, MoveFacts, TurnFacts, CrashFacts, RelabelFacts DEF Next, Tick, vars
    <3>2. rows'[1].mut = m
      BY <2>4, <3>1, AppendFacts
    <3> QED
      BY <3>2, AuditConstants
  <2> QED
    BY <2>3, <2>4
<1>2. /\ rows = <<OldRow>> /\ primary = NoKey /\ issued = {}
      /\ \A p \in Procs : cache[p].key = NoKey
      /\ \A m \in Muts : mut[m].pc \in Harmless
      /\ \A t \in Rotators : rot[t].pc = "idle"
  BY <1>1 DEF Stranded
<1>3. HasPrimaryRows
  BY <1>2 DEF HasPrimaryRows, OldRow
<1>4. ASSUME NEW m \in Muts, Mutate(m)
      PROVE  /\ rows' = rows /\ primary' = primary /\ issued' = issued
             /\ \A p \in Procs : cache'[p].key = NoKey
             /\ mut'[m].pc \in Harmless
  <2>1. mut[m].pc \in Harmless /\ Home[m] \in Procs /\ cache[Home[m]].key = NoKey
    BY <1>2, AuditConstants
  <2>2. CASE Enter(m)
    BY <1>2, <2>2 DEF Enter, TypeOK, MutLocals
  <2>3. CASE CheckKey(m)
    BY <1>2, <2>1, <2>3 DEF CheckKey, NoLogger, TypeOK, MutLocals, Caches
  <2>4. CASE Open(m)
    BY <1>2, <2>4 DEF Open, TypeOK, MutLocals
  <2>5. CASE FirstUseKey(m)
    BY <1>2, <1>3, <2>5 DEF FirstUseKey, GiveUp, TypeOK, MutLocals
  <2>6. CASE AuditFails(m)
    BY <1>2, <2>6 DEF AuditFails, GiveUp, NoLogger, TypeOK, MutLocals, Caches
  <2> QED
    BY <1>4, <2>1, <2>2, <2>3, <2>4, <2>5, <2>6
       DEF Mutate, CreateKeyOnce, FullVerify, UseLogger, BeginAppend, CommitAppend, Issue
<1>5. ASSUME NEW t \in Rotators, Rotate(t) \/ CrashRotation(t) PROVE FALSE
  BY <1>2, <1>5, TurnFacts DEF RotateRead, CrashRotation, Rotating
<1>6. ASSUME NEW p \in Procs, Crash(p)
      PROVE  \A q \in Procs : cache'[q].key = NoKey
  BY <1>2, <1>6 DEF Crash, NoLogger, TypeOK, Caches
<1>7. CASE \E m \in Muts : Mutate(m)
  BY <1>2, <1>4, <1>7, MoveFacts
<1>8. CASE \E p \in Procs : Crash(p)
  BY <1>2, <1>6, <1>8, CrashFacts
<1>9. CASE Tick \/ UNCHANGED vars
  BY <1>2, <1>9 DEF Tick, vars
<1> QED
  BY <1>5, <1>7, <1>8, <1>9 DEF Next

\* The invariant holds at first.
LEMMA ChainInit == Init => ChainInv
<1> SUFFICES ASSUME Init PROVE ChainInv
  OBVIOUS
<1>1. CASE rows = <<>>
  <2>1. Len(rows) = 0
    BY <1>1
  <2> QED
    BY <1>1, <2>1 DEF Init, ChainInv, NoFork, TrailCoversIssued, Appender, Covered, Stranded
<1>2. CASE rows = <<OldRow>>
  <2>1. Len(rows) = 1 /\ rows[1] = OldRow
    BY <1>2
  <2>2. OldRow.prev = 0 /\ OldRow.kind = "sent"
    BY DEF OldRow
  <2>3. NoFork /\ TrailCoversIssued
    BY <2>1, <2>2 DEF Init, NoFork, TrailCoversIssued
  <2>4. Appender /\ Covered
    BY DEF Init, Appender, Covered
  <2>5. Stranded
    BY <1>2 DEF Init, Stranded, NoLogger
  <2> QED
    BY <2>3, <2>4, <2>5 DEF ChainInv
<1> QED
  BY <1>1, <1>2 DEF Init

\* Every step keeps it.
LEMMA ChainStep == TypeOK /\ ChainInv /\ [Next]_vars => ChainInv'
  BY AppenderStep, NoForkStep, CoveredStep, TrailStep, StrandedStep DEF ChainInv

\* The write lock has one holder who knows the last row, whoever is past the
\* write-ahead has its row, and a log without its key strands every opener.
THEOREM AuditInvariance == Spec => []ChainInv
  BY AuditTypeInit, AuditTypeStep, ChainInit, ChainStep, PTL DEF Spec

----------------------------------------------------------------------------
(* What the log promises.                                                  *)

\* Whoever races for the first key, the write lock or a restored log, rows
\* follow one another and nobody starts a second chain on rows whose key is gone.
THEOREM AuditOneChain == Spec => []LogIsOneChain
<1>1. TypeOK /\ ChainInv => LogIsOneChain
  <2>1. OldRow.mut = "none"
    BY DEF OldRow
  <2> QED
    BY <2>1 DEF ChainInv, Stranded, NoForgedStart, LogIsOneChain
<1> QED
  BY <1>1, AuditTypes, AuditInvariance, PTL

\* A request that left a process has its "sent" row, and outcome rows come after
\* the "sent" rows they answer, crashes and rotations included.
THEOREM AuditTrailComplete == Spec => []TrailCoversIssued
<1>1. ChainInv => TrailCoversIssued
  BY DEF ChainInv
<1> QED
  BY <1>1, AuditInvariance, PTL

----------------------------------------------------------------------------
(* Keys: what a step does to those who hold one.                           *)

\* `trouble` is a history: nothing in it is forgotten.
LEMMA TroubleGrows == ASSUME TypeOK, [Next]_vars PROVE trouble \subseteq trouble'
<1>1. ASSUME NEW m \in Muts, Mutate(m) PROVE trouble \subseteq trouble'
  BY <1>1 DEF Mutate, Enter, CheckKey, Open, FirstUseKey, CreateKeyOnce, FullVerify, UseLogger,
              BeginAppend, CommitAppend, AuditFails, Issue
<1>2. ASSUME NEW t \in Rotators, Rotate(t) \/ CrashRotation(t) PROVE trouble \subseteq trouble'
  BY <1>2 DEF Rotate, RotateRead, RotateBegin, Archive, ReplacePrimary, ReplaceFails,
              ReplaceUnsynced, CommitRotation, CommitFails, RestorePrimary, UndoRetired,
              CrashRotation
<1>3. CASE Tick \/ (\E p \in Procs : Crash(p)) \/ UNCHANGED vars
  BY <1>3 DEF Tick, Crash, vars
<1> QED
  BY <1>1, <1>2, <1>3 DEF Next

\* A mutation gets its keys from disk, publishes one only where there is none,
\* and changes the logger of its own process alone.
LEMMA KeyMove ==
    ASSUME TypeOK, NEW m \in Muts, Mutate(m)
    PROVE  /\ retired' = retired
           /\ minted' \in Nat /\ minted <= minted'
           /\ \/ primary' = primary
              \/ /\ mut[m].pc = "create" /\ primary = NoKey /\ rows' = rows
                 /\ primary' = minted + 1 /\ minted' = minted + 1
           /\ \A q \in Procs \ {Home[m]} : cache'[q] = cache[q]
           /\ \/ cache'[Home[m]] = cache[Home[m]]
              \/ cache'[Home[m]] = NoLogger /\ mut'[m].pc \notin Logging
              \/ FullVerify(m) /\ cache'[Home[m]].key = mut[m].key
           /\ mut'[m].key = mut[m].key \/ (mut'[m].key = primary' /\ primary' # NoKey)
           /\ mut'[m].pc = "verify" =>
                 mut[m].pc \in Section /\ mut'[m].key = primary' /\ primary' # NoKey
           /\ mut'[m].pc \in Logging =>
                 /\ primary' = primary /\ mut[m].pc \in Section
                 /\ \/ mut[m].pc \in Logging /\ cache' = cache
                    \/ FullVerify(m)
                    \/ /\ mut[m].pc = "key" /\ cache' = cache
                       /\ cache[Home[m]].key = primary /\ primary # NoKey
           /\ mut'[m].pc \in Section => mut[m].pc \in Section \/ Enter(m)
<1>0. /\ mut[m] \in MutLocals /\ mut \in [Muts -> MutLocals]
      /\ Home[m] \in Procs /\ cache \in [Procs -> Caches] /\ minted \in Nat
      /\ primary \in Nat /\ cache[Home[m]] \in Caches
      /\ \A k \in Nat, b \in BOOLEAN : [key |-> k, bad |-> b] \in Caches
  BY AuditConstants DEF TypeOK, Caches
<1>s. minted + 1 \in Nat /\ minted <= minted + 1 /\ minted <= minted /\ minted + 1 # 0
  BY <1>0
<1>1. CASE Enter(m)
  BY <1>0, <1>1, <1>s DEF Enter, MutLocals, Logging, Section
<1>2. CASE CheckKey(m)
  BY <1>0, <1>2, <1>s DEF CheckKey, MutLocals, Logging, Section
<1>3. CASE Open(m)
  BY <1>0, <1>3, <1>s DEF Open, MutLocals, Logging, Section
<1>4. CASE FirstUseKey(m)
  BY <1>0, <1>4, <1>s DEF FirstUseKey, GiveUp, MutLocals, Logging, Section
<1>5. CASE CreateKeyOnce(m)
  <2>1. /\ mut'[m].pc = "verify" /\ mut'[m].key = primary' /\ mut[m].pc = "create"
        /\ \/ primary' = primary /\ primary # NoKey /\ minted' = minted
           \/ primary = NoKey /\ primary' = minted + 1 /\ minted' = minted + 1
    <3>1. CASE primary = NoKey
      BY <1>0, <1>5, <1>s, <3>1 DEF CreateKeyOnce, MutLocals
    <3>2. CASE primary # NoKey
      BY <1>0, <1>5, <3>2 DEF CreateKeyOnce, MutLocals
    <3> QED
      BY <3>1, <3>2
  <2>2. cache' = cache /\ retired' = retired /\ rows' = rows /\ primary' # NoKey
    BY <1>5, <1>s, <2>1 DEF CreateKeyOnce, NoKey
  <2> QED
    BY <1>s, <1>0, <2>1, <2>2 DEF Logging, Section
<1>6. CASE FullVerify(m)
  <2>1. (~ChainVerifiesWith(mut[m].key)) \in BOOLEAN
    BY DEF ChainVerifiesWith
  <2>2. PICK b \in BOOLEAN : cache' = [cache EXCEPT ![Home[m]] = [key |-> mut[m].key, bad |-> b]]
    BY <1>6, <2>1 DEF FullVerify
  <2>3. /\ cache'[Home[m]].key = mut[m].key
        /\ \A q \in Procs \ {Home[m]} : cache'[q] = cache[q]
    BY <1>0, <2>2
  <2>4. mut'[m].pc = "use" /\ mut'[m].key = mut[m].key /\ mut[m].pc = "verify"
    BY <1>0, <1>6 DEF FullVerify, MutLocals
  <2> QED
    BY <1>6, <1>s, <2>3, <2>4, <1>0 DEF FullVerify, Logging, Section
<1>7. CASE UseLogger(m)
  BY <1>0, <1>7, <1>s DEF UseLogger, MutLocals, Logging, Section
<1>8. CASE BeginAppend(m)
  BY <1>0, <1>8, <1>s DEF BeginAppend, MutLocals, Logging, Section
<1>9. CASE CommitAppend(m)
  BY <1>0, <1>9, <1>s DEF CommitAppend, MutLocals, Logging, Section
<1>10. CASE AuditFails(m)
  BY <1>0, <1>10, <1>s DEF AuditFails, GiveUp, MutLocals, Logging, Section
<1>11. CASE Issue(m)
  BY <1>0, <1>11, <1>s DEF Issue, MutLocals, Logging, Section
<1> QED
  BY <1>1, <1>2, <1>3, <1>4, <1>5, <1>6, <1>7, <1>8, <1>9, <1>10, <1>11 DEF Mutate

\* A rotation goes on from one point to another with what it has read.
Goes(t, from, to) ==
    /\ rot[t].pc = from /\ rot'[t].pc = to
    /\ rot'[t].old = rot[t].old /\ rot'[t].id = rot[t].id

\* The steps of a rotation, by what they do to the two key files and the rows.
LEMMA TurnMoves ==
    ASSUME TypeOK, NEW t \in Rotators, Rotate(t) \/ CrashRotation(t)
    PROVE  \/ /\ RotateRead(t) /\ rot[t].pc = "idle" /\ rot'[t].pc = "begin"
              /\ rot'[t].old = primary /\ rot'[t].id = now /\ primary # NoKey
              /\ primary' = primary /\ retired' = retired /\ minted' = minted /\ rows' = rows
           \/ /\ \/ Goes(t, "begin", "archive") \/ Goes(t, "begin", "failed")
                 \/ Goes(t, "archive", "failed")
                 \/ Goes(t, "commit", "restore") /\ "commit" \in trouble'
                 \/ \E from \in Rotating : Goes(t, from, "dead") /\ "killed" \in trouble'
              /\ primary' = primary /\ retired' = retired /\ minted' = minted /\ rows' = rows
           \/ /\ Goes(t, "archive", "replace") /\ retired[rot[t].id] = NoKey
              /\ retired' = [retired EXCEPT ![rot[t].id] = rot[t].old]
              /\ primary' = primary /\ minted' = minted /\ rows' = rows
           \/ /\ Goes(t, "replace", "commit") /\ primary' = minted + 1 /\ minted' = minted + 1
              /\ retired' = retired /\ rows' = rows
           \/ /\ Goes(t, "replace", "failed")
              /\ retired' = [retired EXCEPT ![rot[t].id] = NoKey]
              /\ \/ primary' = primary /\ minted' = minted
                 \/ /\ "lost" \in trouble' /\ primary' = minted + 1 /\ minted' = minted + 1
              /\ rows' = rows
           \/ /\ CommitRotation(t) /\ Goes(t, "commit", "rotated")
              /\ primary' = primary /\ retired' = retired /\ minted' = minted
           \/ /\ Goes(t, "restore", "undo")
              /\ primary' = rot[t].old \/ (primary' = primary /\ "lost" \in trouble')
              /\ retired' = retired /\ minted' = minted /\ rows' = rows
           \/ /\ Goes(t, "undo", "failed")
              /\ retired' = [retired EXCEPT ![rot[t].id] = NoKey]
              /\ primary' = primary /\ minted' = minted /\ rows' = rows
<1>0. rot \in [Rotators -> RotLocals] /\ rot[t] \in RotLocals
  BY DEF TypeOK
<1>1. CASE RotateRead(t)
  BY <1>0, <1>1 DEF RotateRead, RotLocals
<1>2. CASE RotateBegin(t)
  BY <1>0, <1>2 DEF RotateBegin, RotLocals, Goes
<1>3. CASE Archive(t)
  BY <1>0, <1>3 DEF Archive, RotLocals, Goes
<1>4. CASE ReplacePrimary(t)
  BY <1>0, <1>4 DEF ReplacePrimary, RotLocals, Goes
<1>5. CASE ReplaceFails(t)
  BY <1>0, <1>5 DEF ReplaceFails, RotLocals, Goes
<1>6. CASE ReplaceUnsynced(t)
  BY <1>0, <1>6 DEF ReplaceUnsynced, RotLocals, Goes
<1>7. CASE CommitRotation(t)
  <2>1. Goes(t, "commit", "rotated")
    BY <1>0, <1>7 DEF CommitRotation, RotLocals, Goes
  <2> QED
    BY <1>7, <2>1 DEF CommitRotation
<1>8. CASE CommitFails(t)
  BY <1>0, <1>8 DEF CommitFails, RotLocals, Goes
<1>9. CASE RestorePrimary(t)
  BY <1>0, <1>9 DEF RestorePrimary, RotLocals, Goes
<1>10. CASE UndoRetired(t)
  BY <1>0, <1>10 DEF UndoRetired, RotLocals, Goes
<1>11. CASE CrashRotation(t)
  BY <1>0, <1>11 DEF CrashRotation, RotLocals, Goes
<1> QED
  BY <1>1, <1>2, <1>3, <1>4, <1>5, <1>6, <1>7, <1>8, <1>9, <1>10, <1>11 DEF Rotate

\* A process that is killed leaves nobody in its section and no logger; what is
\* on disk stays.
LEMMA KeyCrash ==
    ASSUME TypeOK, NEW p \in Procs, Crash(p)
    PROVE  /\ \A m \in Muts :
                 /\ mut'[m].key = mut[m].key
                 /\ mut'[m].pc = mut[m].pc \/ mut'[m].pc = "dead"
                 /\ mut'[m].pc \in Section => mut'[m].pc = mut[m].pc /\ Home[m] # p
           /\ \A q \in Procs : cache'[q] = IF q = p THEN NoLogger ELSE cache[q]
           /\ retired' = retired /\ minted' = minted /\ primary' = primary
           /\ rows' = rows /\ rot' = rot /\ trouble' = trouble
<1>1. \A q \in Procs : cache'[q] = IF q = p THEN NoLogger ELSE cache[q]
  BY DEF Crash, TypeOK
<1>2. \A m \in Muts :
          /\ mut'[m].key = mut[m].key
          /\ mut'[m].pc = mut[m].pc \/ mut'[m].pc = "dead"
          /\ mut'[m].pc \in Section => mut'[m].pc = mut[m].pc /\ Home[m] # p
  BY DEF Crash, TypeOK, MutLocals, Section
<1> QED
  BY <1>1, <1>2 DEF Crash

\* The rows that an append and a rotation's commit leave, with key and label.
LEMMA SignedFacts ==
    /\ \A m \in Muts : TypeOK /\ CommitAppend(m) =>
          /\ rows'[Len(rows) + 1].signer = cache[Home[m]].key
          /\ rows'[Len(rows) + 1].label = PrimaryId
    /\ \A t \in Rotators : TypeOK /\ CommitRotation(t) =>
          \A i \in 1..Len(rows) :
              /\ rows'[i].signer = rows[i].signer
              /\ rows'[i].label = IF rows[i].label = PrimaryId THEN rot[t].id ELSE rows[i].label
<1>1. ASSUME NEW m \in Muts, TypeOK, CommitAppend(m)
      PROVE  /\ rows'[Len(rows) + 1].signer = cache[Home[m]].key
             /\ rows'[Len(rows) + 1].label = PrimaryId
  <2> DEFINE row == [signer |-> cache[Home[m]].key, label |-> PrimaryId,
                     prev |-> mut[m].prev, mut |-> m, kind |-> mut[m].kind]
  <2>1. row \in Rows
    BY <1>1, AuditConstants DEF TypeOK, Rows, Caches, MutLocals
  <2>2. rows \in Seq(Rows) /\ rows' = Append(rows, row)
    BY <1>1 DEF CommitAppend, TypeOK
  <2>3. row.signer = cache[Home[m]].key /\ row.label = PrimaryId
    OBVIOUS
  <2> HIDE DEF row
  <2> QED
    BY <2>1, <2>2, <2>3, AppendProperties, LenProperties
<1>2. ASSUME NEW t \in Rotators, TypeOK, CommitRotation(t), NEW i \in 1..Len(rows)
      PROVE  /\ rows'[i].signer = rows[i].signer
             /\ rows'[i].label = IF rows[i].label = PrimaryId THEN rot[t].id ELSE rows[i].label
  <2>1. rows[i] \in Rows
    BY <1>2, ElementOfSeq DEF TypeOK
  <2>2. rows'[i] = IF rows[i].label = PrimaryId THEN [rows[i] EXCEPT !.label = rot[t].id]
                   ELSE rows[i]
    BY <1>2 DEF CommitRotation
  <2> QED
    BY <2>1, <2>2 DEF Rows
<1> QED
  BY <1>1, <1>2

----------------------------------------------------------------------------
(* The inductive invariant of LogVerifies.                                 *)

\* A row keeps its signer, and a new one is signed by the logger of its process.
LEMMA Signers ==
    ASSUME TypeOK, [Next]_vars, NEW i \in 1..Len(rows')
    PROVE  \/ i \in 1..Len(rows) /\ rows'[i].signer = rows[i].signer
           \/ \E m \in Muts :
                 /\ CommitAppend(m) /\ i = Len(rows) + 1
                 /\ rows'[i].signer = cache[Home[m]].key
<1>0. Len(rows) \in Nat
  BY LenProperties DEF TypeOK
<1>1. ASSUME NEW m \in Muts, CommitAppend(m)
      PROVE  \/ i \in 1..Len(rows) /\ rows'[i].signer = rows[i].signer
             \/ /\ CommitAppend(m) /\ i = Len(rows) + 1
                /\ rows'[i].signer = cache[Home[m]].key
  <2>1. /\ Len(rows') = Len(rows) + 1 /\ \A j \in 1..Len(rows) : rows'[j] = rows[j]
        /\ rows'[Len(rows) + 1].signer = cache[Home[m]].key
    BY <1>1, AppendFacts, SignedFacts
  <2> QED
    BY <1>0, <1>1, <2>1
<1>2. ASSUME NEW t \in Rotators, CommitRotation(t)
      PROVE  i \in 1..Len(rows) /\ rows'[i].signer = rows[i].signer
  BY <1>2, RelabelFacts, SignedFacts
<1>3. \/ rows' = rows \/ \E m \in Muts : CommitAppend(m)
      \/ \E t \in Rotators : CommitRotation(t)
  BY MoveFacts, TurnFacts, CrashFacts DEF Next, Tick, vars
<1> QED
  BY <1>1, <1>2, <1>3

\* The mutex: a mutation enters where nobody of its process is.
LEMMA ExclusiveStep == ASSUME TypeOK, Exclusive, [Next]_vars PROVE Exclusive'
<1>1. ASSUME NEW m \in Muts, Mutate(m) PROVE Exclusive'
  <2>1. mut'[m].pc \in Section => mut[m].pc \in Section \/ Enter(m)
    BY <1>1, KeyMove
  <2>2. \A n \in Muts \ {m} : mut'[n] = mut[n]
    BY <1>1, MoveFacts
  <2>3. Enter(m) => \A n \in Muts : mut[n].pc \in Section => Home[n] # Home[m]
    BY DEF Enter, Busy
  <2> QED
    BY <2>1, <2>2, <2>3 DEF Exclusive
<1>2. ASSUME NEW p \in Procs, Crash(p) PROVE Exclusive'
  BY <1>2, KeyCrash DEF Exclusive
<1>3. CASE mut' = mut
  BY <1>3 DEF Exclusive
<1> QED
  BY <1>1, <1>2, <1>3, TurnFacts DEF Next, Tick, vars

\* A mutation outside the section changes neither logger, nor key, nor rows.
LEMMA Outside ==
    ASSUME NEW m \in Muts, Mutate(m), mut[m].pc \notin Section
    PROVE  /\ cache' = cache /\ primary' = primary /\ rows' = rows /\ minted' = minted
           /\ Enter(m) \/ Issue(m)
  BY DEF Mutate, Enter, CheckKey, Open, FirstUseKey, CreateKeyOnce, FullVerify, UseLogger,
         BeginAppend, CommitAppend, AuditFails, Issue, Section

\* Inside it, a mutation's logger is changed by itself alone.
LEMMA OtherCache ==
    ASSUME TypeOK, Exclusive, NEW m \in Muts, Mutate(m), NEW n \in Muts \ {m},
           mut[n].pc \in Section
    PROVE  cache'[Home[n]] = cache[Home[n]]
<1>1. CASE Home[n] # Home[m]
  BY <1>1, AuditConstants, KeyMove
<1>2. CASE Home[n] = Home[m]
  <2>1. mut[m].pc \notin Section
    BY <1>2 DEF Exclusive
  <2> QED
    BY <2>1, Outside
<1> QED
  BY <1>1, <1>2

\* Keys are there from the first one on.
LEMMA KeyedStep == ASSUME TypeOK, Exclusive, Keyed, [Next]_vars PROVE Keyed'
<1>0. /\ \A m \in Muts : Home[m] \in Procs /\ mut[m] \in MutLocals
      /\ minted \in Nat /\ now \in Ids /\ Len(rows) \in Nat
  BY AuditConstants, LenProperties DEF TypeOK
<1>1. \A i \in 1..Len(rows') : rows'[i].signer # NoKey
  <2> SUFFICES ASSUME NEW i \in 1..Len(rows') PROVE rows'[i].signer # NoKey
    OBVIOUS
  <2>1. ASSUME NEW m \in Muts, CommitAppend(m) PROVE cache[Home[m]].key # NoKey
    BY <2>1 DEF CommitAppend, Keyed, Logging
  <2> QED
    BY <2>1, Signers DEF Keyed
<1>2. primary # NoKey => primary' # NoKey
  <2>1. ASSUME NEW t \in Rotators, Rotate(t) \/ CrashRotation(t), primary # NoKey
        PROVE  primary' # NoKey
    <3>1. minted + 1 # NoKey
      BY <1>0 DEF NoKey
    <3>2. rot[t].pc # "idle" => rot[t].old # NoKey
      BY DEF Keyed
    <3> QED
      BY <2>1, <3>1, <3>2, TurnMoves DEF Goes
  <2>2. ASSUME NEW m \in Muts, Mutate(m), primary # NoKey PROVE primary' # NoKey
    BY <2>2, KeyMove
  <2> QED
    BY <2>1, <2>2, CrashFacts DEF Next, Tick, vars
<1>3. \A t \in Rotators : rot'[t].pc # "idle" => rot'[t].old # NoKey /\ rot'[t].id \in Ids
  <2>1. ASSUME NEW t \in Rotators, Rotate(t) \/ CrashRotation(t)
        PROVE  rot'[t].old # NoKey /\ rot'[t].id \in Ids
    <3>1. rot[t].pc # "idle" => rot[t].old # NoKey /\ rot[t].id \in Ids
      BY DEF Keyed
    <3> QED
      BY <1>0, <2>1, <3>1, TurnMoves DEF Goes, Rotating
  <2>2. \/ rot' = rot
        \/ \E t \in Rotators : (Rotate(t) \/ CrashRotation(t))
                               /\ \A u \in Rotators \ {t} : rot'[u] = rot[u]
    BY MoveFacts, CrashFacts, TurnFacts DEF Next, Tick, vars
  <2> QED
    BY <2>1, <2>2 DEF Keyed
<1>4. ASSUME NEW n \in Muts
      PROVE  /\ mut'[n].pc = "verify" => mut'[n].key # NoKey
             /\ mut'[n].pc \in Logging => cache'[Home[n]].key # NoKey
  <2>0. /\ mut[n].pc = "verify" => mut[n].key # NoKey
        /\ mut[n].pc \in Logging => cache[Home[n]].key # NoKey
    BY DEF Keyed
  <2>1. ASSUME NEW m \in Muts, Mutate(m), n = m
        PROVE  /\ mut'[n].pc = "verify" => mut'[n].key # NoKey
               /\ mut'[n].pc \in Logging => cache'[Home[n]].key # NoKey
    <3>1. FullVerify(n) => mut[n].pc = "verify"
      BY DEF FullVerify
    <3>2. FullVerify(n) => cache'[Home[n]].key = mut[n].key
      <4> SUFFICES ASSUME FullVerify(n) PROVE cache'[Home[n]].key = mut[n].key
        OBVIOUS
      <4>1. mut[n].pc = "verify" /\ cache' = [cache EXCEPT ![Home[n]] =
                 [key |-> mut[n].key, bad |-> ~ChainVerifiesWith(mut[n].key)]]
        BY DEF FullVerify
      <4> QED
        BY <1>0, <4>1 DEF TypeOK
    <3> QED
      BY <2>0, <2>1, <3>1, <3>2, KeyMove
  <2>2. ASSUME NEW m \in Muts, Mutate(m), n # m
        PROVE  /\ mut'[n].pc = "verify" => mut'[n].key # NoKey
               /\ mut'[n].pc \in Logging => cache'[Home[n]].key # NoKey
    <3>1. mut'[n] = mut[n]
      BY <2>2, MoveFacts
    <3>2. CASE mut[n].pc \in Logging
      <4>1. mut[n].pc \in Section
        BY <3>2 DEF Logging, Section
      <4>2. cache'[Home[n]] = cache[Home[n]]
        BY <2>2, <4>1, OtherCache
      <4> QED
        BY <2>0, <3>1, <3>2, <4>2
    <3> QED
      BY <2>0, <3>1, <3>2
  <2>3. ASSUME NEW p \in Procs, Crash(p)
        PROVE  /\ mut'[n].pc = "verify" => mut'[n].key # NoKey
               /\ mut'[n].pc \in Logging => cache'[Home[n]].key # NoKey
    <3>1. Logging \subseteq Section /\ "verify" \in Section
      BY DEF Logging, Section
    <3> QED
      BY <1>0, <2>0, <2>3, <3>1, KeyCrash
  <2>4. CASE mut' = mut /\ cache' = cache
    BY <2>0, <2>4
  <2> QED
    BY <2>1, <2>2, <2>3, <2>4, TurnFacts DEF Next, Tick, vars
<1>5. ASSUME primary' = NoKey
      PROVE  /\ rows' = <<>> \/ rows'[1].mut = "none"
             /\ \A p \in Procs : cache'[p].key = NoKey
             /\ \A m \in Muts : mut'[m].pc \notin Logging \cup {"verify"}
             /\ \A t \in Rotators : rot'[t].pc = "idle"
  <2>1. /\ primary = NoKey
        /\ rows = <<>> \/ rows[1].mut = "none"
        /\ \A p \in Procs : cache[p].key = NoKey
        /\ \A m \in Muts : mut[m].pc \notin Logging \cup {"verify"}
        /\ \A t \in Rotators : rot[t].pc = "idle"
    BY <1>2, <1>5 DEF Keyed
  <2>2. ASSUME NEW t \in Rotators, Rotate(t) \/ CrashRotation(t) PROVE FALSE
    BY <2>1, <2>2, TurnFacts DEF RotateRead, CrashRotation, Rotating
  <2>3. ASSUME NEW m \in Muts, Mutate(m)
        PROVE  /\ rows' = rows /\ rot' = rot
               /\ \A p \in Procs : cache'[p].key = NoKey
               /\ \A n \in Muts : mut'[n].pc \notin Logging \cup {"verify"}
    <3>1. ~CommitAppend(m) /\ ~FullVerify(m)
      BY <2>1 DEF CommitAppend, FullVerify, Logging
    <3>2. NoLogger.key = NoKey
      BY DEF NoLogger
    <3>3. rows' = rows /\ rot' = rot /\ \A n \in Muts \ {m} : mut'[n] = mut[n]
      BY <2>3, <3>1, MoveFacts
    <3>4. \A p \in Procs : cache'[p].key = NoKey
      BY <1>0, <2>1, <2>3, <3>1, <3>2, KeyMove
    <3>5. mut'[m].pc \notin Logging \cup {"verify"}
      BY <1>5, <2>1, <2>3, <3>1, KeyMove
    <3> QED
      BY <2>1, <3>3, <3>4, <3>5
  <2>4. ASSUME NEW p \in Procs, Crash(p)
        PROVE  /\ rows' = rows /\ rot' = rot
               /\ \A q \in Procs : cache'[q].key = NoKey
               /\ \A n \in Muts : mut'[n].pc \notin Logging \cup {"verify"}
    <3>1. NoLogger.key = NoKey /\ "dead" \notin Logging \cup {"verify"}
      BY DEF NoLogger, Logging
    <3> QED
      BY <2>1, <2>4, <3>1, KeyCrash
  <2> QED
    BY <2>1, <2>2, <2>3, <2>4 DEF Next, Tick, vars
<1> QED
  BY <1>1, <1>3, <1>4, <1>5 DEF Keyed

\* Every key was published.
LEMMA PublishedStep == ASSUME TypeOK, Published, [Next]_vars PROVE Published'
<1>0. /\ \A m \in Muts : Home[m] \in Procs /\ mut[m].key \in Nat
      /\ \A p \in Procs : cache[p].key \in Nat
      /\ \A t \in Rotators : rot[t].old \in Nat
      /\ minted \in Nat /\ primary \in Nat /\ Len(rows) \in Nat
      /\ NoLogger.key = 0
  BY AuditConstants, LenProperties DEF TypeOK, MutLocals, Caches, RotLocals, NoLogger, NoKey
<1>1. /\ primary' <= minted' /\ minted <= minted' /\ minted' \in Nat
      /\ \A t \in Rotators : rot'[t].old <= minted'
  <2>0. primary <= minted /\ \A t \in Rotators : rot[t].old <= minted
    BY DEF Published
  <2>1. ASSUME NEW t \in Rotators, Rotate(t) \/ CrashRotation(t)
        PROVE  /\ primary' <= minted' /\ minted <= minted' /\ minted' \in Nat
               /\ rot'[t].old <= minted' /\ \A u \in Rotators \ {t} : rot'[u].old <= minted'
    <3>1. /\ primary' <= minted' /\ minted <= minted' /\ minted' \in Nat
          /\ rot'[t].old \in {rot[t].old, primary}
      BY <1>0, <2>0, <2>1, TurnMoves DEF Goes
    <3> QED
      BY <1>0, <2>0, <2>1, <3>1, TurnFacts
  <2>2. ASSUME NEW m \in Muts, Mutate(m)
        PROVE  primary' <= minted' /\ minted <= minted' /\ minted' \in Nat /\ rot' = rot
    <3>1. /\ minted' \in Nat /\ minted <= minted' /\ rot' = rot
          /\ primary' = primary \/ (primary' = minted + 1 /\ minted' = minted + 1)
      BY <2>2, KeyMove, MoveFacts
    <3> QED
      BY <1>0, <2>0, <3>1
  <2>3. CASE minted' = minted /\ primary' = primary /\ rot' = rot
    BY <1>0, <2>0, <2>3
  <2>4. ASSUME NEW m \in Muts, Mutate(m), NEW t \in Rotators PROVE rot'[t].old <= minted'
    BY <1>0, <2>0, <2>2, <2>4
  <2> QED
    BY <2>1, <2>2, <2>3, <2>4, KeyCrash DEF Next, Tick, vars
<1>2. ASSUME NEW m \in Muts PROVE mut'[m].key <= minted' /\ mut'[m].key \in Nat
  <2>1. ASSUME NEW n \in Muts, Mutate(n) PROVE mut'[m].key \in {mut[m].key, primary'}
    <3>1. m # n => mut'[m] = mut[m]
      BY <2>1, MoveFacts
    <3>2. mut'[n].key \in {mut[n].key, primary'}
      BY <2>1, KeyMove
    <3> QED
      BY <3>1, <3>2
  <2>2. mut'[m].key \in {mut[m].key, primary'}
    BY <2>1, TurnFacts, KeyCrash DEF Next, Tick, vars
  <2>3. mut[m].key <= minted /\ primary' \in Nat
    BY AuditTypeStep DEF Published, TypeOK
  <2> QED
    BY <1>0, <1>1, <2>2, <2>3
<1>3. ASSUME NEW p \in Procs PROVE cache'[p].key <= minted'
  <2>1. cache'[p].key \in {cache[p].key, 0} \cup {mut[m].key : m \in Muts}
    <3>1. ASSUME NEW m \in Muts, Mutate(m)
          PROVE  cache'[p].key \in {cache[p].key, 0, mut[m].key}
      <4>1. CASE p = Home[m]
        BY <1>0, <3>1, <4>1, KeyMove
      <4>2. CASE p # Home[m]
        BY <3>1, <4>2, KeyMove
      <4> QED
        BY <4>1, <4>2
    <3> QED
      BY <1>0, <3>1, TurnFacts, KeyCrash DEF Next, Tick, vars
  <2>2. cache[p].key <= minted /\ \A m \in Muts : mut[m].key <= minted
    BY DEF Published
  <2> QED
    BY <1>0, <1>1, <2>1, <2>2
<1>4. ASSUME NEW i \in 1..Len(rows') PROVE rows'[i].signer <= minted'
  <2>1. CASE i \in 1..Len(rows) /\ rows'[i].signer = rows[i].signer
    <3>1. rows[i].signer <= minted /\ rows[i].signer \in Nat
      <4>1. rows \in Seq(Rows) /\ i \in 1..Len(rows)
        BY <2>1 DEF TypeOK
      <4>2. rows[i] \in Rows
        BY <4>1, ElementOfSeq
      <4> QED
        BY <4>1, <4>2 DEF Published, Rows
    <3> QED
      BY <1>0, <1>1, <2>1, <3>1
  <2>2. CASE \E m \in Muts : rows'[i].signer = cache[Home[m]].key
    <3>1. PICK m \in Muts : rows'[i].signer = cache[Home[m]].key
      BY <2>2
    <3>2. cache[Home[m]].key <= minted /\ cache[Home[m]].key \in Nat
      BY <1>0 DEF Published
    <3> QED
      BY <1>0, <1>1, <3>1, <3>2
  <2> QED
    BY <2>1, <2>2, Signers
<1> QED
  BY <1>1, <1>2, <1>3, <1>4 DEF Published

\* Whoever meets a rotation is recorded.
LEMMA ApartStep == ASSUME TypeOK, Apart, [Next]_vars PROVE Apart'
<1>0. trouble \subseteq trouble' /\ "dead" \notin Section
  BY TroubleGrows DEF Section
<1>h. \A m \in Muts : Home[m] \in Procs
  BY AuditConstants
<1>1. ASSUME NEW m \in Muts, Mutate(m) PROVE Apart'
  <2>1. /\ rot' = rot /\ \A n \in Muts \ {m} : mut'[n] = mut[n]
        /\ mut'[m].pc \in Section => mut[m].pc \in Section \/ Enter(m)
    BY <1>1, MoveFacts, KeyMove
  <2>2. ASSUME Enter(m), NEW t \in Rotators, rot[t].pc \in Active PROVE "append" \in trouble'
    BY <2>2 DEF Enter, Met, RotationActive, Active
  <2> QED
    BY <1>0, <2>1, <2>2 DEF Apart
<1>2. ASSUME NEW t \in Rotators, Rotate(t) \/ CrashRotation(t) PROVE Apart'
  <2>1. mut' = mut /\ \A u \in Rotators \ {t} : rot'[u] = rot[u]
    BY <1>2, TurnFacts
  <2>2. rot'[t].pc \in Active => rot[t].pc \in Active \/ RotateRead(t)
    BY <1>2, TurnMoves DEF Goes, Active, Rotating
  <2>3. ASSUME RotateRead(t), NEW u \in Rotators, rot[u].pc \in Active
        PROVE  "rotation" \in trouble'
    BY <2>3 DEF RotateRead, Met, RotationActive, Active
  <2>4. ASSUME RotateRead(t), NEW m \in Muts, mut[m].pc \in Section
        PROVE  "append" \in trouble'
    <3>1. \E p \in Procs : Busy(p)
      BY <1>h, <2>4 DEF Busy
    <3> QED
      BY <2>4, <3>1 DEF RotateRead, Met
  <2>5. ASSUME "rotation" \notin trouble', NEW u \in Rotators, NEW v \in Rotators,
               rot'[u].pc \in Active, rot'[v].pc \in Active
        PROVE  u = v
    <3>1. ASSUME NEW x \in Rotators, NEW y \in Rotators, rot[x].pc \in Active, rot[y].pc \in Active
          PROVE  x = y
      BY <1>0, <2>5, <3>1 DEF Apart
    <3>2. CASE RotateRead(t)
      <4>1. ASSUME NEW x \in Rotators PROVE rot[x].pc \notin Active
        BY <2>3, <2>5, <3>2, <4>1
      <4> QED
        BY <2>1, <2>5, <4>1
    <3>3. CASE ~RotateRead(t)
      BY <2>1, <2>2, <2>5, <3>1, <3>3
    <3> QED
      BY <3>2, <3>3
  <2>6. ASSUME "append" \notin trouble', NEW u \in Rotators, NEW m \in Muts, rot'[u].pc \in Active
        PROVE  mut'[m].pc \notin Section
    <3>1. CASE RotateRead(t)
      BY <2>1, <2>4, <2>6, <3>1
    <3>2. CASE ~RotateRead(t)
      BY <1>0, <2>1, <2>2, <2>6, <3>2 DEF Apart
    <3> QED
      BY <3>1, <3>2
  <2> QED
    BY <2>5, <2>6 DEF Apart
<1>3. ASSUME NEW p \in Procs, Crash(p) PROVE Apart'
  BY <1>0, <1>3, KeyCrash DEF Apart
<1>4. CASE Tick \/ UNCHANGED vars
  BY <1>4 DEF Tick, vars, Apart
<1> QED
  BY <1>1, <1>2, <1>3, <1>4 DEF Next

\* Where rotations do not meet, the one that moves is the one that is active.
LEMMA LoneTurn ==
    ASSUME TypeOK, Apart, [Next]_vars, "rotation" \notin trouble',
           NEW t \in Rotators, NEW u \in Rotators, Rotate(u) \/ CrashRotation(u),
           rot[t].pc \in Active \/ rot'[t].pc \in Active
    PROVE  t = u
<1> SUFFICES ASSUME t # u PROVE FALSE
  OBVIOUS
<1>1. rot'[t] = rot[t]
  BY TurnFacts
<1>2. rot[u].pc \in Active \/ rot'[u].pc \in Active
  BY TurnMoves DEF Goes, Active, Rotating
<1>3. CASE rot[u].pc \in Active
  BY <1>1, <1>3, TroubleGrows DEF Apart
<1>4. CASE rot'[u].pc \in Active
  BY <1>1, <1>4, ApartStep DEF Apart
<1> QED
  BY <1>2, <1>3, <1>4

\* The key files are where the rotation's progress says.
LEMMA TurningStep == ASSUME TypeOK, Keyed, Apart, Turning, [Next]_vars PROVE Turning'
<1> SUFFICES ASSUME trouble' \cap {"rotation", "lost"} = {}, NEW t \in Rotators
             PROVE  /\ rot'[t].pc \in {"begin", "archive", "replace", "undo"} =>
                          primary' = rot'[t].old
                    /\ rot'[t].pc \in {"replace", "commit", "restore", "undo"} =>
                          retired'[rot'[t].id] = rot'[t].old
                    /\ rot'[t].pc \in {"restore", "undo"} => "commit" \in trouble'
  BY DEF Turning
<1>0. /\ trouble \subseteq trouble' /\ retired \in [Ids -> Nat]
      /\ rot[t].pc # "idle" => rot[t].id \in Ids
  BY TroubleGrows DEF Keyed, TypeOK
<1>1. /\ rot[t].pc \in {"begin", "archive", "replace", "undo"} => primary = rot[t].old
      /\ rot[t].pc \in {"replace", "commit", "restore", "undo"} => retired[rot[t].id] = rot[t].old
      /\ rot[t].pc \in {"restore", "undo"} => "commit" \in trouble
  BY <1>0 DEF Turning
<1>2. ASSUME NEW u \in Rotators, Rotate(u) \/ CrashRotation(u), t # u
      PROVE  rot'[t].pc \notin Active
  BY <1>2, LoneTurn
<1>3. ASSUME Rotate(t) \/ CrashRotation(t)
      PROVE  /\ rot'[t].pc \in {"begin", "archive", "replace", "undo"} => primary' = rot'[t].old
             /\ rot'[t].pc \in {"replace", "commit", "restore", "undo"} =>
                   retired'[rot'[t].id] = rot'[t].old
             /\ rot'[t].pc \in {"restore", "undo"} => "commit" \in trouble'
  BY <1>0, <1>1, <1>3, TurnMoves DEF Goes, Rotating
<1>4. ASSUME NEW m \in Muts, Mutate(m)
      PROVE  rot' = rot /\ retired' = retired /\ (primary' = primary \/ rot[t].pc = "idle")
  BY <1>4, MoveFacts, KeyMove DEF Keyed
<1>5. \/ \E u \in Rotators : Rotate(u) \/ CrashRotation(u)
      \/ rot' = rot /\ retired' = retired /\ (primary' = primary \/ rot[t].pc = "idle")
  BY <1>4, KeyCrash DEF Next, Tick, vars
<1> QED
  BY <1>0, <1>1, <1>2, <1>3, <1>5 DEF Active, Rotating

\* Nobody has seen a fresh key while its rotation may still be undone.
LEMMA FreshStep ==
    ASSUME TypeOK, Keyed, Published, Apart, Fresh, [Next]_vars
    PROVE  Fresh'
<1> SUFFICES ASSUME trouble' \cap {"rotation", "lost", "append"} = {}, NEW t \in Rotators,
                    rot'[t].pc \in {"commit", "restore"}
             PROVE  /\ \A p \in Procs : cache'[p].key # primary'
                    /\ \A i \in 1..Len(rows') : rows'[i].signer # primary'
  BY DEF Fresh
<1>0. /\ trouble \subseteq trouble' /\ rot'[t].pc \in Active
      /\ minted \in Nat /\ \A p \in Procs : cache[p].key \in Nat
      /\ \A i \in 1..Len(rows) : rows[i].signer \in Nat
  <2>1. \A i \in 1..Len(rows) : rows[i] \in Rows
    BY ElementOfSeq DEF TypeOK
  <2> QED
    BY <2>1, TroubleGrows DEF Active, Rotating, TypeOK, Caches, Rows
<1>1. ASSUME rot[t].pc \in {"commit", "restore"}
      PROVE  /\ \A p \in Procs : cache[p].key # primary
             /\ \A i \in 1..Len(rows) : rows[i].signer # primary
             /\ primary # NoKey
  BY <1>0, <1>1 DEF Fresh, Keyed
<1>2. ASSUME NEW u \in Rotators, Rotate(u) \/ CrashRotation(u)
      PROVE  /\ \A p \in Procs : cache'[p].key # primary'
             /\ \A i \in 1..Len(rows') : rows'[i].signer # primary'
  <2>1. t = u
    BY <1>0, <1>2, LoneTurn
  <2>2. cache' = cache /\ (Goes(t, "commit", "restore") \/ Goes(t, "replace", "commit"))
        /\ rows' = rows
    BY <1>2, <2>1, TurnFacts, TurnMoves DEF Goes
  <2>3. CASE Goes(t, "commit", "restore")
    <3>1. primary' = primary
      BY <1>2, <2>1, <2>3, TurnMoves DEF Goes
    <3> QED
      BY <1>1, <2>2, <2>3, <3>1 DEF Goes
  <2>4. CASE Goes(t, "replace", "commit")
    <3>1. primary' = minted + 1
      BY <1>2, <2>1, <2>4, TurnMoves DEF Goes
    <3> QED
      BY <1>0, <2>2, <3>1 DEF Published
  <2> QED
    BY <2>2, <2>3, <2>4
<1>3. ASSUME NEW m \in Muts, Mutate(m)
      PROVE  cache' = cache /\ rows' = rows /\ primary' = primary /\ rot' = rot
  <2>1. rot' = rot
    BY <1>3, MoveFacts
  <2>2. mut[m].pc \notin Section
    BY <1>0, <2>1 DEF Apart
  <2> QED
    BY <1>3, <2>1, <2>2, Outside
<1>4. ASSUME NEW p \in Procs, Crash(p)
      PROVE  /\ \A q \in Procs : cache'[q].key # primary'
             /\ \A i \in 1..Len(rows') : rows'[i].signer # primary'
  <2>1. NoLogger.key = NoKey
    BY DEF NoLogger
  <2> QED
    BY <1>1, <1>4, <2>1, KeyCrash
<1>5. CASE cache' = cache /\ rows' = rows /\ primary' = primary /\ rot' = rot
  BY <1>1, <1>5
<1> QED
  BY <1>2, <1>3, <1>4, <1>5 DEF Next, Tick, vars

\* A mutation that meets no rotation has the key on disk.
LEMMA CurrentStep ==
    ASSUME TypeOK, Exclusive, Keyed, Apart, Current, [Next]_vars
    PROVE  Current'
<1> SUFFICES ASSUME "append" \notin trouble', NEW n \in Muts
             PROVE  /\ mut'[n].pc = "verify" => mut'[n].key = primary'
                    /\ mut'[n].pc \in Logging => cache'[Home[n]].key = primary'
  BY DEF Current
<1>0. /\ trouble \subseteq trouble' /\ Home[n] \in Procs
      /\ "verify" \in Section /\ Logging \subseteq Section
      /\ mut[n].pc = "verify" => mut[n].key = primary
      /\ mut[n].pc \in Logging => cache[Home[n]].key = primary
  BY TroubleGrows, AuditConstants DEF Current, Section, Logging
<1>1. ASSUME Mutate(n)
      PROVE  /\ mut'[n].pc = "verify" => mut'[n].key = primary'
             /\ mut'[n].pc \in Logging => cache'[Home[n]].key = primary'
  <2>1. FullVerify(n) => mut[n].pc = "verify"
    BY DEF FullVerify
  <2>2. FullVerify(n) => cache'[Home[n]].key = mut[n].key
    <3> SUFFICES ASSUME FullVerify(n) PROVE cache'[Home[n]].key = mut[n].key
      OBVIOUS
    <3>1. cache' = [cache EXCEPT ![Home[n]] =
               [key |-> mut[n].key, bad |-> ~ChainVerifiesWith(mut[n].key)]]
      BY DEF FullVerify
    <3> QED
      BY <1>0, <3>1 DEF TypeOK
  <2> QED
    BY <1>0, <1>1, <2>1, <2>2, KeyMove
<1>2. ASSUME NEW m \in Muts, Mutate(m), m # n
      PROVE  /\ mut'[n].pc = "verify" => mut'[n].key = primary'
             /\ mut'[n].pc \in Logging => cache'[Home[n]].key = primary'
  <2>1. mut'[n] = mut[n]
    BY <1>2, MoveFacts
  <2>2. mut[n].pc \in Section => cache'[Home[n]] = cache[Home[n]]
    BY <1>2, OtherCache
  <2>3. mut[n].pc \in Logging \cup {"verify"} => primary' = primary
    BY <1>2, KeyMove DEF Keyed
  <2> QED
    BY <1>0, <2>1, <2>2, <2>3
<1>3. ASSUME NEW u \in Rotators, Rotate(u) \/ CrashRotation(u)
      PROVE  mut'[n].pc \notin Section
  <2>1. rot[u].pc \in Active \/ rot'[u].pc \in Active
    BY <1>3, TurnMoves DEF Goes, Active, Rotating
  <2>2. mut' = mut
    BY <1>3, TurnFacts
  <2> QED
    BY <1>0, <2>1, <2>2, ApartStep DEF Apart
<1>4. ASSUME NEW p \in Procs, Crash(p)
      PROVE  /\ mut'[n].pc = "verify" => mut'[n].key = primary'
             /\ mut'[n].pc \in Logging => cache'[Home[n]].key = primary'
  BY <1>0, <1>4, KeyCrash
<1>5. CASE Tick \/ UNCHANGED vars
  BY <1>0, <1>5 DEF Tick, vars
<1> QED
  BY <1>0, <1>1, <1>2, <1>3, <1>4, <1>5 DEF Next

\* Where a key can be had before a rotation's step, it can be had after it, unless
\* it is a fresh key that the step withdraws.
LEMMA KeptTurn ==
    ASSUME TypeOK, Keyed, Apart, Turning, [Next]_vars, NEW t \in Rotators,
           Rotate(t) \/ CrashRotation(t), trouble' \cap {"rotation", "lost"} = {},
           NEW k, k # NoKey, Kept(k), k = primary => rot[t].pc # "restore"
    PROVE  Kept(k)'
<1>0. /\ rot[t].pc # "idle" => rot[t].id \in Ids
      /\ retired \in [Ids -> Nat] /\ trouble \subseteq trouble'
  BY TroubleGrows DEF Keyed, TypeOK
<1>1. /\ rot[t].pc \in {"begin", "archive", "replace", "undo"} => primary = rot[t].old
      /\ rot[t].pc \in {"replace", "commit", "restore", "undo"} => retired[rot[t].id] = rot[t].old
  BY <1>0 DEF Turning
<1>2. k = primary \/ \E id \in Ids : k = retired[id]
  BY DEF Kept
<1>3. k = primary' \/ \E id \in Ids : k = retired'[id]
  <2>1. CASE primary' = primary /\ retired' = retired
    BY <1>2, <2>1
  <2>2. CASE Goes(t, "archive", "replace")
    <3>1. /\ primary' = primary /\ retired[rot[t].id] = NoKey
          /\ retired' = [retired EXCEPT ![rot[t].id] = rot[t].old]
      BY <2>2, TurnMoves DEF Goes
    <3> QED
      BY <1>0, <1>2, <3>1
  <2>3. CASE Goes(t, "replace", "commit")
    <3>1. retired' = retired /\ primary = retired[rot[t].id] /\ rot[t].id \in Ids
      BY <1>0, <1>1, <2>3, TurnMoves DEF Goes
    <3> QED
      BY <1>2, <3>1
  <2>4. CASE Goes(t, "replace", "failed") \/ Goes(t, "undo", "failed")
    <3>1. /\ primary' = primary /\ primary = retired[rot[t].id] /\ rot[t].id \in Ids
          /\ retired' = [retired EXCEPT ![rot[t].id] = NoKey]
      BY <1>0, <1>1, <2>4, TurnMoves DEF Goes
    <3> QED
      BY <1>0, <1>2, <3>1
  <2>5. CASE Goes(t, "restore", "undo")
    <3>1. retired' = retired /\ k # primary
      BY <2>5, TurnMoves DEF Goes
    <3> QED
      BY <1>2, <3>1
  <2> QED
    BY <2>1, <2>2, <2>3, <2>4, <2>5, TurnMoves
<1> QED
  BY <1>3 DEF Kept

\* Keys that have signed or may sign stay on disk.
LEMMA KeysKeptStep ==
    ASSUME TypeOK, Stranded, Keyed, Apart, Turning, Fresh, KeysKept, [Next]_vars
    PROVE  KeysKept'
<1> DEFINE Kept2(k) == k = primary' \/ \E id \in Ids : k = retired'[id]
<1> SUFFICES ASSUME KeysSafe', primary' # NoKey
             PROVE  /\ \A i \in 1..Len(rows') : Kept2(rows'[i].signer)
                    /\ \A p \in Procs : cache'[p].key # NoKey => Kept2(cache'[p].key)
                    /\ \A m \in Muts : mut'[m].pc = "verify" => Kept2(mut'[m].key)
  BY DEF KeysKept, Kept
<1>0. /\ trouble \subseteq trouble' /\ trouble' \cap {"rotation", "lost"} = {} /\ KeysSafe
      /\ \A m \in Muts : Home[m] \in Procs
      /\ NoLogger.key = NoKey /\ "verify" \in Section
  BY TroubleGrows, AuditConstants DEF KeysSafe, NoLogger, Section
<1>1. ASSUME primary # NoKey
      PROVE  /\ \A i \in 1..Len(rows) : Kept(rows[i].signer)
             /\ \A p \in Procs : cache[p].key # NoKey => Kept(cache[p].key)
             /\ \A m \in Muts : mut[m].pc = "verify" => Kept(mut[m].key)
  BY <1>0, <1>1 DEF KeysKept
<1>2. ASSUME NEW t \in Rotators, Rotate(t) \/ CrashRotation(t)
      PROVE  /\ \A i \in 1..Len(rows') : Kept2(rows'[i].signer)
             /\ \A p \in Procs : cache'[p].key # NoKey => Kept2(cache'[p].key)
             /\ \A m \in Muts : mut'[m].pc = "verify" => Kept2(mut'[m].key)
  <2>1. primary # NoKey
    BY <1>2, TurnMoves DEF Keyed, Goes, Rotating
  <2>2. mut' = mut /\ cache' = cache
    BY <1>2, TurnFacts
  <2>3. ASSUME rot[t].pc = "restore"
        PROVE  /\ \A p \in Procs : cache[p].key # primary
               /\ \A i \in 1..Len(rows) : rows[i].signer # primary
               /\ \A m \in Muts : mut[m].pc # "verify"
    <3>1. "commit" \in trouble
      BY <1>0, <2>3 DEF Turning
    <3>2. "append" \notin trouble
      BY <1>0, <3>1 DEF KeysSafe
    <3>3. trouble \cap {"rotation", "lost", "append"} = {} /\ rot[t].pc \in Active
      BY <1>0, <2>3, <3>2 DEF Active, Rotating
    <3>4. \A m \in Muts : mut[m].pc # "verify"
      BY <1>0, <3>2, <3>3 DEF Apart
    <3> QED
      BY <2>3, <3>3, <3>4 DEF Fresh
  <2>4. ASSUME NEW k, k # NoKey, Kept(k), k = primary => rot[t].pc # "restore" PROVE Kept2(k)
    BY <1>0, <1>2, <2>4, KeptTurn DEF Kept
  <2>5. ASSUME NEW i \in 1..Len(rows') PROVE Kept2(rows'[i].signer)
    <3>1. i \in 1..Len(rows) /\ rows'[i].signer = rows[i].signer
      <4>1. ASSUME NEW m \in Muts, CommitAppend(m) PROVE FALSE
        <5>1. mut[m].pc = "insert" /\ mut'[m].pc # "insert"
          BY <4>1 DEF CommitAppend, TypeOK, MutLocals
        <5> QED
          BY <2>2, <5>1
      <4> QED
        BY <4>1, Signers
    <3>2. rows[i].signer # NoKey /\ Kept(rows[i].signer)
      BY <1>1, <2>1, <3>1 DEF Keyed
    <3> QED
      BY <2>3, <2>4, <3>1, <3>2
  <2>6. ASSUME NEW p \in Procs, cache[p].key # NoKey PROVE Kept2(cache[p].key)
    BY <1>1, <2>1, <2>3, <2>4, <2>6
  <2>7. ASSUME NEW m \in Muts, mut[m].pc = "verify" PROVE Kept2(mut[m].key)
    <3>1. mut[m].key # NoKey /\ Kept(mut[m].key)
      BY <1>1, <2>1, <2>7 DEF Keyed
    <3> QED
      BY <2>3, <2>4, <2>7, <3>1
  <2> QED
    BY <2>2, <2>5, <2>6, <2>7
<1>3. ASSUME NEW m \in Muts, Mutate(m), primary # NoKey
      PROVE  /\ \A i \in 1..Len(rows') : Kept2(rows'[i].signer)
             /\ \A p \in Procs : cache'[p].key # NoKey => Kept2(cache'[p].key)
             /\ \A n \in Muts : mut'[n].pc = "verify" => Kept2(mut'[n].key)
  <2>1. primary' = primary /\ retired' = retired
    BY <1>3, KeyMove
  <2>2. \A k : Kept(k) => Kept2(k)
    BY <2>1 DEF Kept
  <2>3. ASSUME NEW n \in Muts, CommitAppend(n) PROVE Kept2(cache[Home[n]].key)
    <3>1. cache[Home[n]].key # NoKey
      BY <2>3 DEF CommitAppend, Keyed, Logging
    <3> QED
      BY <1>0, <1>1, <1>3, <2>2, <3>1
  <2>4. \A i \in 1..Len(rows') : Kept2(rows'[i].signer)
    <3> SUFFICES ASSUME NEW i \in 1..Len(rows') PROVE Kept2(rows'[i].signer)
      OBVIOUS
    <3>1. CASE i \in 1..Len(rows) /\ rows'[i].signer = rows[i].signer
      BY <1>1, <1>3, <2>2, <3>1
    <3>2. CASE \E n \in Muts : CommitAppend(n) /\ rows'[i].signer = cache[Home[n]].key
      BY <2>3, <3>2
    <3> QED
      BY <3>1, <3>2, Signers
  <2>5. ASSUME NEW p \in Procs, cache'[p].key # NoKey PROVE Kept2(cache'[p].key)
    <3>1. \/ cache'[p] = cache[p] \/ cache'[p] = NoLogger
          \/ mut[m].pc = "verify" /\ cache'[p].key = mut[m].key
      <4>1. FullVerify(m) => mut[m].pc = "verify"
        BY DEF FullVerify
      <4>2. CASE p = Home[m]
        BY <1>3, <4>1, <4>2, KeyMove
      <4>3. CASE p # Home[m]
        BY <1>3, <4>3, KeyMove
      <4> QED
        BY <4>2, <4>3
    <3> QED
      BY <1>0, <1>1, <1>3, <2>2, <2>5, <3>1
  <2>6. ASSUME NEW n \in Muts, mut'[n].pc = "verify" PROVE Kept2(mut'[n].key)
    <3>1. CASE n = m
      BY <1>3, <2>6, <3>1, KeyMove
    <3>2. CASE n # m
      <4>1. mut'[n] = mut[n]
        BY <1>3, <3>2, MoveFacts
      <4> QED
        BY <1>1, <1>3, <2>2, <2>6, <4>1
    <3> QED
      BY <3>1, <3>2
  <2> QED
    BY <2>4, <2>5, <2>6
<1>4. ASSUME NEW m \in Muts, Mutate(m), primary = NoKey
      PROVE  /\ \A i \in 1..Len(rows') : Kept2(rows'[i].signer)
             /\ \A p \in Procs : cache'[p].key # NoKey => Kept2(cache'[p].key)
             /\ \A n \in Muts : mut'[n].pc = "verify" => Kept2(mut'[n].key)
  <2>1. mut[m].pc = "create" /\ rows' = rows
    BY <1>4, KeyMove
  <2>2. rows = <<>>
    BY <1>4, <2>1 DEF Keyed, Stranded
  <2>3. ~FullVerify(m)
    BY <2>1 DEF FullVerify
  <2>4. ASSUME NEW p \in Procs PROVE cache'[p].key = NoKey
    <3>1. cache[p].key = NoKey
      BY <1>4 DEF Keyed
    <3>2. cache'[p] = cache[p] \/ cache'[p] = NoLogger
      BY <1>4, <2>3, KeyMove
    <3> QED
      BY <1>0, <3>1, <3>2
  <2>5. ASSUME NEW n \in Muts, mut'[n].pc = "verify" PROVE mut'[n].key = primary'
    <3>1. n # m => mut'[n] = mut[n] /\ mut[n].pc # "verify"
      BY <1>4, MoveFacts DEF Keyed
    <3> QED
      BY <1>4, <2>5, <3>1, KeyMove
  <2>6. Len(rows') = 0
    BY <2>1, <2>2
  <2> QED
    BY <2>4, <2>5, <2>6
<1>5. ASSUME NEW p \in Procs, Crash(p)
      PROVE  /\ \A i \in 1..Len(rows') : Kept2(rows'[i].signer)
             /\ \A q \in Procs : cache'[q].key # NoKey => Kept2(cache'[q].key)
             /\ \A n \in Muts : mut'[n].pc = "verify" => Kept2(mut'[n].key)
  <2>1. primary' = primary /\ retired' = retired /\ rows' = rows
    BY <1>5, KeyCrash
  <2>2. \A k : Kept(k) => Kept2(k)
    BY <2>1 DEF Kept
  <2>3. \A q \in Procs : cache'[q].key # NoKey => cache'[q] = cache[q]
    BY <1>0, <1>5, KeyCrash
  <2>4. \A n \in Muts : mut'[n].pc = "verify" => mut[n].pc = "verify" /\ mut'[n].key = mut[n].key
    BY <1>0, <1>5, KeyCrash
  <2> HIDE DEF Kept2
  <2> QED
    BY <1>1, <2>1, <2>2, <2>3, <2>4
<1>6. CASE Tick \/ UNCHANGED vars
  <2>1. /\ primary' = primary /\ retired' = retired /\ rows' = rows /\ cache' = cache
        /\ mut' = mut
    BY <1>6 DEF Tick, vars
  <2>2. \A k : Kept(k) => Kept2(k)
    BY <2>1 DEF Kept
  <2> HIDE DEF Kept2
  <2> QED
    BY <1>1, <2>1, <2>2
<1> QED
  BY <1>2, <1>3, <1>4, <1>5, <1>6 DEF Next

\* A row whose label is good, given the keys and how far rotations have come.
GoodLabel(row, k, old, rs) ==
    /\ IF row.label = PrimaryId
       THEN row.signer = k \/ \E t \in Rotators : rs[t].pc \in {"commit", "restore"}
       ELSE /\ row.signer = old[row.label]
            /\ \A t \in Rotators : rs[t].pc \in Rotating \ {"archive"} => row.label # rs[t].id
    /\ \A t \in Rotators :
          rs[t].pc \in {"commit", "restore"} /\ row.label = PrimaryId => row.signer = rs[t].old

\* Labelled, row by row.
LEMMA LabelledByRow ==
    Labelled <=> (trouble \subseteq {"commit"} /\ primary # NoKey =>
                    \A i \in 1..Len(rows) : GoodLabel(rows[i], primary, retired, rot))
  BY DEF Labelled, GoodLabel

\* What a rotation's step does to the label of a row.
LEMMA LabelTurn ==
    ASSUME TypeOK, Keyed, Apart, Turning, [Next]_vars, NEW t \in Rotators,
           Rotate(t) \/ CrashRotation(t), trouble' \subseteq {"commit"},
           NEW i \in 1..Len(rows), GoodLabel(rows[i], primary, retired, rot)
    PROVE  GoodLabel(rows'[i], primary', retired', rot')
<1>0. /\ rot[t].pc # "idle" => rot[t].id \in Ids /\ rot[t].old # NoKey
      /\ retired \in [Ids -> Nat] /\ trouble \subseteq trouble'
      /\ "rotation" \notin trouble' /\ "lost" \notin trouble' /\ "killed" \notin trouble'
      /\ rows[i].signer # NoKey
      /\ PrimaryId \notin Ids
  BY TroubleGrows DEF Keyed, TypeOK, PrimaryId, Ids
<1>1. /\ rot[t].pc \in {"begin", "archive", "replace", "undo"} => primary = rot[t].old
      /\ rot[t].pc \in {"replace", "commit", "restore", "undo"} => retired[rot[t].id] = rot[t].old
  BY <1>0 DEF Turning
<1>2. ASSUME NEW u \in Rotators, u # t
      PROVE  rot[u].pc \notin Active /\ rot'[u].pc \notin Active
  BY <1>0, <1>2, LoneTurn
<1>3. {"commit", "restore"} \subseteq Active /\ Rotating \ {"archive"} \subseteq Active
  BY DEF Active, Rotating
<1>4. rows[i].label \in {PrimaryId} \cup Ids
  <2>1. rows \in Seq(Rows)
    BY DEF TypeOK
  <2>2. rows[i] \in Rows
    BY <2>1, ElementOfSeq
  <2> QED
    BY <2>2 DEF Rows
<1> DEFINE row == rows[i]
<1>5. /\ row.label = PrimaryId =>
            /\ rot[t].pc \in {"commit", "restore"} => row.signer = rot[t].old
            /\ rot[t].pc \notin {"commit", "restore"} => row.signer = primary
      /\ row.label # PrimaryId =>
            /\ row.signer = retired[row.label]
            /\ rot[t].pc \in Rotating \ {"archive"} => row.label # rot[t].id
  BY <1>2, <1>3 DEF GoodLabel
<1>6. SUFFICES
        /\ rows'[i].label = PrimaryId =>
            /\ rot'[t].pc \in {"commit", "restore"} => rows'[i].signer = rot'[t].old
            /\ rot'[t].pc \notin {"commit", "restore"} => rows'[i].signer = primary'
        /\ rows'[i].label # PrimaryId =>
            /\ rows'[i].signer = retired'[rows'[i].label]
            /\ rot'[t].pc \in Rotating \ {"archive"} => rows'[i].label # rot'[t].id
  BY <1>2, <1>3 DEF GoodLabel
<1>7. CASE CommitRotation(t)
  <2>1. /\ rows'[i].signer = row.signer
        /\ rows'[i].label = IF row.label = PrimaryId THEN rot[t].id ELSE row.label
    BY <1>7, SignedFacts
  <2>2. /\ Goes(t, "commit", "rotated") /\ retired' = retired
    <3>1. rot[t].pc = "commit" /\ rot'[t].pc = "rotated" /\ retired' = retired
      BY <1>7 DEF CommitRotation, TypeOK, RotLocals
    <3> QED
      BY <3>1, TurnMoves DEF Goes
  <2> HIDE DEF row
  <2> QED
    BY <1>0, <1>1, <1>4, <1>5, <2>1, <2>2 DEF Goes, Rotating, row
<1>8. CASE rows' = rows
  <2>1. rows'[i] = row
    BY <1>8
  <2>2. CASE Goes(t, "archive", "replace")
    <3>1. /\ primary' = primary /\ retired[rot[t].id] = NoKey
          /\ retired' = [retired EXCEPT ![rot[t].id] = rot[t].old]
      BY <2>2, TurnMoves DEF Goes
    <3> QED
      BY <1>0, <1>4, <1>5, <2>1, <2>2, <3>1 DEF Goes, Rotating
  <2>3. CASE Goes(t, "replace", "commit")
    <3>1. retired' = retired
      BY <2>3, TurnMoves DEF Goes
    <3> QED
      BY <1>0, <1>1, <1>5, <2>1, <2>3, <3>1 DEF Goes, Rotating
  <2>4. CASE Goes(t, "replace", "failed") \/ Goes(t, "undo", "failed")
    <3>1. primary' = primary /\ retired' = [retired EXCEPT ![rot[t].id] = NoKey]
      BY <1>0, <2>4, TurnMoves DEF Goes
    <3> QED
      BY <1>0, <1>4, <1>5, <2>1, <2>4, <3>1 DEF Goes, Rotating
  <2>5. CASE Goes(t, "restore", "undo")
    <3>1. retired' = retired /\ primary' = rot[t].old
      BY <1>0, <2>5, TurnMoves DEF Goes
    <3> QED
      BY <1>5, <2>1, <2>5, <3>1 DEF Goes, Rotating
  <2>6. CASE Goes(t, "commit", "restore")
    <3>1. retired' = retired
      BY <2>6, TurnMoves DEF Goes
    <3> QED
      BY <1>5, <2>1, <2>6, <3>1 DEF Goes, Rotating
  <2>7. CASE /\ primary' = primary /\ retired' = retired
             /\ rot'[t].pc \in {"begin", "archive", "failed"}
             /\ rot[t].pc \in {"idle", "begin", "archive"}
    BY <1>5, <2>1, <2>7 DEF Rotating
  <2>8. \/ Goes(t, "archive", "replace") \/ Goes(t, "replace", "commit")
        \/ Goes(t, "replace", "failed") \/ Goes(t, "undo", "failed")
        \/ Goes(t, "restore", "undo") \/ Goes(t, "commit", "restore")
        \/ /\ primary' = primary /\ retired' = retired
           /\ rot'[t].pc \in {"begin", "archive", "failed"}
           /\ rot[t].pc \in {"idle", "begin", "archive"}
        \/ CommitRotation(t)
    BY <1>0, TurnMoves DEF Goes
  <2> QED
    BY <1>7, <2>2, <2>3, <2>4, <2>5, <2>6, <2>7, <2>8
<1> QED
  BY <1>7, <1>8, TurnFacts

\* Labels stay good.
LEMMA LabelledStep ==
    ASSUME TypeOK, Stranded, Keyed, Apart, Turning, Current, Labelled, [Next]_vars
    PROVE  Labelled'
<1> DEFINE Good2(i) == GoodLabel(rows'[i], primary', retired', rot')
<1> SUFFICES ASSUME trouble' \subseteq {"commit"}, primary' # NoKey, NEW i \in 1..Len(rows')
             PROVE  Good2(i)
  BY DEF Labelled, GoodLabel
<1>0. trouble \subseteq trouble' /\ Len(rows) \in Nat /\ "append" \notin trouble
  BY TroubleGrows, LenProperties DEF TypeOK
<1>1. ASSUME primary # NoKey, NEW j \in 1..Len(rows)
      PROVE  GoodLabel(rows[j], primary, retired, rot)
  BY <1>0, <1>1, LabelledByRow
<1>2. ASSUME NEW t \in Rotators, Rotate(t) \/ CrashRotation(t) PROVE Good2(i)
  <2>1. primary # NoKey
    BY <1>2, TurnMoves DEF Keyed, Goes, Rotating
  <2>2. i \in 1..Len(rows)
    BY <1>2, TurnFacts, RelabelFacts
  <2> QED
    BY <1>1, <1>2, <2>1, <2>2, LabelTurn
<1>3. ASSUME NEW m \in Muts, Mutate(m), primary = NoKey PROVE FALSE
  <2>1. mut[m].pc = "create" /\ rows' = rows
    BY <1>3, KeyMove
  <2>2. rows = <<>>
    BY <1>3, <2>1 DEF Keyed, Stranded
  <2>3. Len(rows') = 0
    BY <2>1, <2>2
  <2> QED
    BY <2>3
<1>4. ASSUME NEW m \in Muts, CommitAppend(m), primary # NoKey PROVE Good2(i)
  <2>1. /\ Len(rows') = Len(rows) + 1 /\ \A j \in 1..Len(rows) : rows'[j] = rows[j]
        /\ rows'[Len(rows) + 1].signer = cache[Home[m]].key
        /\ rows'[Len(rows) + 1].label = PrimaryId
    BY <1>4, AppendFacts, SignedFacts
  <2>2. primary' = primary /\ retired' = retired /\ rot' = rot /\ mut[m].pc = "insert"
    BY <1>4 DEF CommitAppend
  <2>3. cache[Home[m]].key = primary
    BY <1>0, <2>2 DEF Current, Logging
  <2>4. \A t \in Rotators : rot[t].pc \notin Active
    BY <1>0, <2>2 DEF Apart, Section
  <2>5. CASE i = Len(rows) + 1
    BY <2>1, <2>2, <2>3, <2>4, <2>5 DEF GoodLabel, Active, Rotating
  <2>6. CASE i \in 1..Len(rows)
    <3>1. rows'[i] = rows[i]
      BY <2>1, <2>6
    <3> QED
      BY <1>1, <1>4, <2>2, <2>6, <3>1
  <2> QED
    BY <1>0, <2>1, <2>5, <2>6
<1>5. CASE primary' = primary /\ retired' = retired /\ rot' = rot /\ rows' = rows
  BY <1>1, <1>5
<1>6. ASSUME NEW m \in Muts, Mutate(m), primary # NoKey, ~CommitAppend(m)
      PROVE  primary' = primary /\ retired' = retired /\ rot' = rot /\ rows' = rows
  BY <1>6, KeyMove, MoveFacts
<1> HIDE DEF Good2
<1>7. CASE \E m \in Muts : Mutate(m)
  BY <1>3, <1>4, <1>5, <1>6, <1>7
<1>8. CASE Tick \/ (\E p \in Procs : Crash(p)) \/ UNCHANGED vars
  BY <1>5, <1>8, KeyCrash DEF Tick, vars
<1> QED
  BY <1>2, <1>7, <1>8 DEF Next

\* Between rotations that kept to themselves, the whole log verifies.
LEMMA VerifiesQuiet ==
    ASSUME TypeOK, NoFork, Labelled, trouble \subseteq {"commit"}, primary # NoKey,
           \A t \in Rotators : rot[t].pc \notin Rotating
    PROVE  ChainVerifiesWith(primary)
<1>1. \A t \in Rotators : rot[t].pc \notin {"commit", "restore"}
  BY DEF Rotating
<1>2. ASSUME NEW i \in 1..Len(rows) PROVE RowVerifies(i, primary)
  <2>1. GoodLabel(rows[i], primary, retired, rot)
    BY <1>2, LabelledByRow
  <2> QED
    BY <1>1, <1>2, <2>1 DEF GoodLabel, RowVerifies, KeyFor, NoFork
<1> QED
  BY <1>2 DEF ChainVerifiesWith

\* A logger that is opened while no rotation is about finds the log in order.
LEMMA CleanStep ==
    ASSUME TypeOK, NoFork, Keyed, Apart, Current, Labelled, Clean, [Next]_vars
    PROVE  Clean'
<1> SUFFICES ASSUME trouble' \subseteq {"commit"}, NEW p \in Procs PROVE ~cache'[p].bad
  BY DEF Clean
<1>0. /\ trouble \subseteq {"commit"} /\ ~cache[p].bad /\ ~NoLogger.bad
      /\ \A m \in Muts : Home[m] \in Procs
  BY TroubleGrows, AuditConstants DEF Clean, NoLogger
<1>1. ASSUME NEW m \in Muts, FullVerify(m) PROVE ~cache'[p].bad
  <2>1. mut[m].pc = "verify" /\ "append" \notin trouble
    BY <1>0, <1>1 DEF FullVerify
  <2>2. mut[m].key = primary /\ primary # NoKey
    BY <2>1 DEF Current, Keyed
  <2>3. \A t \in Rotators : rot[t].pc \notin Rotating
    BY <2>1 DEF Apart, Active, Section
  <2>4. ChainVerifiesWith(primary)
    BY <1>0, <2>2, <2>3, VerifiesQuiet
  <2>5. cache' = [cache EXCEPT ![Home[m]] = [key |-> primary, bad |-> FALSE]]
    BY <1>1, <2>2, <2>4 DEF FullVerify
  <2> QED
    BY <1>0, <2>5 DEF TypeOK
<1>2. ASSUME NEW m \in Muts, Mutate(m), ~FullVerify(m) PROVE ~cache'[p].bad
  <2>1. CASE p = Home[m]
    BY <1>0, <1>2, <2>1, KeyMove
  <2>2. CASE p # Home[m]
    BY <1>0, <1>2, <2>2, KeyMove
  <2> QED
    BY <2>1, <2>2
<1>3. ASSUME NEW q \in Procs, Crash(q) PROVE ~cache'[p].bad
  BY <1>0, <1>3, KeyCrash
<1>4. CASE cache' = cache
  BY <1>0, <1>4
<1> QED
  BY <1>1, <1>2, <1>3, <1>4, TurnFacts DEF Next, Tick, vars

\* The invariant of the keys holds at first.
LEMMA KeyInit == Init => KeyInv
<1> SUFFICES ASSUME Init PROVE KeyInv
  OBVIOUS
<1>0. /\ \A m \in Muts : mut[m].pc = "idle" /\ mut[m].key = 0 /\ Home[m] \in Procs
      /\ \A t \in Rotators : rot[t].pc = "idle" /\ rot[t].old = 0
      /\ \A p \in Procs : cache[p].key = 0 /\ ~cache[p].bad
      /\ primary = NoKey /\ NoKey = 0 /\ minted = Len(rows) /\ trouble = {}
  BY AuditConstants DEF Init, NoLogger, NoKey
<1>1. /\ Len(rows) \in Nat /\ (rows = <<>> \/ rows[1].mut = "none")
      /\ \A i \in 1..Len(rows) : rows[i].signer # NoKey /\ rows[i].signer <= minted
  <2>1. CASE rows = <<>>
    <3>1. Len(rows) = 0
      BY <2>1
    <3> QED
      BY <2>1, <3>1
  <2>2. CASE rows = <<OldRow>>
    <3>1. Len(rows) = 1 /\ rows[1] = OldRow
      BY <2>2
    <3>2. OldRow.mut = "none" /\ OldRow.signer = 1
      BY DEF OldRow
    <3> QED
      BY <1>0, <3>1, <3>2
  <2> QED
    BY <2>1, <2>2 DEF Init
<1>2. Exclusive /\ Keyed /\ Apart
  BY <1>0, <1>1 DEF Exclusive, Keyed, Apart, Section, Logging, Active, Rotating
<1>3. Published
  BY <1>0, <1>1 DEF Published
<1>4. Turning /\ Fresh /\ KeysKept /\ Current
  BY <1>0 DEF Turning, Fresh, KeysKept, Current, Logging
<1>5. Labelled /\ Clean
  BY <1>0 DEF Labelled, Clean
<1> QED
  BY <1>2, <1>3, <1>4, <1>5 DEF KeyInv

\* Every step keeps it.
LEMMA KeyStep == TypeOK /\ ChainInv /\ KeyInv /\ [Next]_vars => KeyInv'
<1> SUFFICES ASSUME TypeOK, ChainInv, KeyInv, [Next]_vars PROVE KeyInv'
  OBVIOUS
<1>1. /\ NoFork /\ Stranded /\ Exclusive /\ Keyed /\ Published /\ Apart /\ Turning /\ Fresh
      /\ KeysKept /\ Current /\ Labelled /\ Clean
  BY DEF ChainInv, KeyInv
<1>2. Exclusive' /\ Keyed' /\ Published' /\ Apart'
  BY <1>1, ExclusiveStep, KeyedStep, PublishedStep, ApartStep
<1>3. Turning' /\ Fresh' /\ KeysKept'
  BY <1>1, TurningStep, FreshStep, KeysKeptStep
<1>4. Current' /\ Labelled' /\ Clean'
  BY <1>1, CurrentStep, LabelledStep, CleanStep
<1> QED
  BY <1>2, <1>3, <1>4 DEF KeyInv

\* Who holds which key: appends and rotations that keep apart hand the log from
\* one key to the next, and a rotation that fails or is killed leaves both.
THEOREM AuditKeys == Spec => []KeyInv
  BY AuditTypeInit, AuditTypeStep, ChainInit, ChainStep, KeyInit, KeyStep, PTL DEF Spec

\* The log can be trusted after rotations: between them it verifies, no key that
\* signed is lost, and no process refuses a log that verifies, under exactly the
\* conditions on `trouble` that the property names.
THEOREM AuditVerifies == Spec => []LogVerifies
<1>1. TypeOK /\ ChainInv /\ KeyInv => LogVerifies
  <2> SUFFICES ASSUME TypeOK, NoFork, KeyInv PROVE LogVerifies
    BY DEF ChainInv
  <2>1. SigningKeysKept
    BY DEF SigningKeysKept, KeyInv, KeysKept, Quiet
  <2>2. ChainVerifies
    BY VerifiesQuiet DEF ChainVerifies, Quiet, KeyInv
  <2>3. RefusalsHaveCause
    BY DEF RefusalsHaveCause, KeyInv, Clean
  <2> QED
    BY <2>1, <2>2, <2>3 DEF LogVerifies
<1> QED
  BY <1>1, AuditTypes, AuditInvariance, AuditKeys, PTL
=============================================================================
