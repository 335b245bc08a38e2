--------------------------- MODULE OpQueueProofs ---------------------------
(***************************************************************************)
(* Machine-checked proofs about OpQueue, for any number of operations,     *)
(* sessions, presses, database errors and approvers.                       *)
(***************************************************************************)
EXTENDS OpQueue, FiniteSetTheorems, WellFoundedInduction, TLAPS

Rows == [Ops -> Statuses]

\* Writing one status over part of a queue.
LEMMA WithFacts ==
    ASSUME NEW q \in Rows, NEW S, NEW s \in Statuses
    PROVE  /\ With(q, S, s) \in Rows
           /\ \A o \in Ops : With(q, S, s)[o] = IF o \in S THEN s ELSE q[o]
  BY DEF With, Rows

\* The empty queue and the empty snapshots.
LEMMA EmptyFacts ==
    /\ Nothing \in Rows /\ \A o \in Ops : Nothing[o] = "absent"
    /\ NoSnapshot \in Snapshots /\ NoWriteAhead \in WriteAheads
    /\ NoSnapshot.seq = 0 /\ NoSnapshot.rows = Nothing
    /\ NoWriteAhead.rows = Nothing /\ NoWriteAhead.ops = {}
  BY DEF Nothing, NoSnapshot, NoWriteAhead, Snapshots, WriteAheads, Rows, Statuses, Errors

\* What to_persisted and from_persisted keep of a row.
LEMMA CopyFacts ==
    ASSUME NEW q \in Rows
    PROVE  /\ Persisted(q) \in Rows /\ Restored(q) \in Rows
           /\ \A o \in Ops : Persisted(q)[o] \in {q[o], "absent"}
           /\ \A o \in Ops : Restored(q)[o] = IF q[o] = "Running" THEN "Interrupted" ELSE q[o]
  BY DEF Persisted, Restored, Rows, Statuses, Errors

\* The sweep only removes entries.
LEMMA SweepFacts ==
    ASSUME NEW q \in Rows
    PROVE  /\ garbage_collect(q) \in Rows
           /\ \A o \in Ops : garbage_collect(q)[o] \in {q[o], "absent"}
<1> DEFINE Drops(f, g) == g \in Rows /\ \A o \in Ops : g[o] \in {f[o], "absent"}
<1>0. "absent" \in Statuses
  BY DEF Statuses
<1>1. ASSUME NEW f \in Rows, NEW S PROVE Drops(f, With(f, S, "absent"))
  BY <1>0, <1>1, WithFacts
<1>2. Drops(q, DropStaleSuccess(q))
  BY <1>1 DEF DropStaleSuccess
<1>3. Drops(DropStaleSuccess(q), CapErrors(DropStaleSuccess(q)))
  BY <1>1, <1>2 DEF CapErrors
<1>4. Drops(CapErrors(DropStaleSuccess(q)), CapRest(CapErrors(DropStaleSuccess(q))))
  BY <1>1, <1>3 DEF CapRest
<1>5. Drops(CapRest(CapErrors(DropStaleSuccess(q))), garbage_collect(q))
  BY <1>1, <1>4 DEF CapAll, garbage_collect
<1> QED
  BY <1>2, <1>3, <1>4, <1>5

----------------------------------------------------------------------------
(* Type correctness.                                                       *)

\* The first state is well typed.
LEMMA TypeInit == Init => TypeOK
<1> SUFFICES ASSUME Init PROVE TypeOK
  OBVIOUS
<1>1. op_queue \in [Ops -> Statuses] /\ disk \in [Ops -> Statuses]
  BY EmptyFacts DEF Init, Rows
<1>2. watch \in Snapshots /\ writing \in Snapshots /\ saving \in WriteAheads
  BY EmptyFacts DEF Init
<1> QED
  BY <1>1, <1>2
     DEF Init, TypeOK, LoopTypes, StoreTypes, TaskTypes, HitlTypes, WorldTypes,
         Phases, Stages, Messages, Verdicts

\* The copies of the current queue and of the disk.
LEMMA CopiesTyped ==
    ASSUME TypeOK
    PROVE  /\ \A q \in [Ops -> Statuses] : Persisted(q) \in [Ops -> Statuses]
           /\ \A S : \A s \in Statuses : With(op_queue, S, s) \in [Ops -> Statuses]
           /\ garbage_collect(op_queue) \in [Ops -> Statuses]
           /\ Restored(disk) \in [Ops -> Statuses]
           /\ Nothing \in [Ops -> Statuses]
<1>1. op_queue \in Rows /\ disk \in Rows
  BY DEF TypeOK, LoopTypes, StoreTypes, Rows
<1> QED
  BY <1>1, CopyFacts, EmptyFacts, WithFacts, SweepFacts DEF Rows

\* Every step keeps the types.
LEMMA TypeStep == TypeOK /\ [Next]_vars => TypeOK'
<1> SUFFICES ASSUME TypeOK, [Next]_vars PROVE TypeOK'
  OBVIOUS
<1> USE DEF TypeOK, LoopTypes, StoreTypes, TaskTypes, HitlTypes, WorldTypes,
            loopVars, storeVars, taskVars, hitlVars, pveVars, ghostVars, budgets
<1>1. CASE Start
  <2>1. LoopTypes'
    BY <1>1, CopiesTyped DEF Start, OpenQueue, Phases
  <2>2. StoreTypes'
    BY <1>1
       DEF Start, OpenQueue, Surviving, Phases, Stages, Messages, Verdicts
  <2>3. TaskTypes'
    BY <1>1
       DEF Start, OpenQueue, Surviving, Phases, Stages, Messages, Verdicts
  <2>4. HitlTypes'
    BY <1>1
       DEF Start, OpenQueue, Surviving, Phases, Stages, Messages, Verdicts
  <2>5. WorldTypes'
    BY <1>1
       DEF Start, OpenQueue, Surviving, Phases, Stages, Messages, Verdicts
  <2> QED
    BY <2>1, <2>2, <2>3, <2>4, <2>5
<1>2. CASE Crash
  BY <1>2, EmptyFacts
     DEF Crash, ProcessGone, Statuses, Errors, Phases, Stages, Messages, Verdicts,
         Snapshots, WriteAheads
<1>3. CASE Quit
  BY <1>3
     DEF Quit, Statuses, Errors, Phases, Stages, Messages, Verdicts, Snapshots, WriteAheads
<1>4. CASE Exit
  BY <1>4, EmptyFacts
     DEF Exit, ProcessGone, Statuses, Errors, Phases, Stages, Messages, Verdicts, Snapshots,
         WriteAheads
<1>5. CASE Return
  <2>1. LoopTypes'
    BY <1>5, CopiesTyped DEF Return, OpenQueue, ForceLeft, Phases
  <2>2. StoreTypes'
    BY <1>5
       DEF Return, OpenQueue, Surviving, ForceLeft, Phases, Stages, Messages, Verdicts
  <2>3. TaskTypes'
    BY <1>5
       DEF Return, OpenQueue, Surviving, ForceLeft, Phases, Stages, Messages, Verdicts
  <2>4. HitlTypes'
    BY <1>5
       DEF Return, OpenQueue, Surviving, ForceLeft, Phases, Stages, Messages, Verdicts
  <2>5. WorldTypes'
    BY <1>5
       DEF Return, OpenQueue, Surviving, ForceLeft, Phases, Stages, Messages, Verdicts
  <2> QED
    BY <2>1, <2>2, <2>3, <2>4, <2>5
<1>6. CASE Flush
  <2>1. LoopTypes'
    BY <1>6
       DEF Flush, Phases, Stages, Messages, Verdicts
  <2>2. StoreTypes'
    BY <1>6, CopiesTyped DEF Flush, Snapshots
  <2>3. TaskTypes'
    BY <1>6
       DEF Flush, Phases, Stages, Messages, Verdicts
  <2>4. HitlTypes'
    BY <1>6
       DEF Flush, Phases, Stages, Messages, Verdicts
  <2>5. WorldTypes'
    BY <1>6
       DEF Flush, Phases, Stages, Messages, Verdicts
  <2> QED
    BY <2>1, <2>2, <2>3, <2>4, <2>5
<1>7. CASE GarbageCollect
  <2>1. LoopTypes'
    BY <1>7, CopiesTyped DEF GarbageCollect
  <2>2. StoreTypes'
    BY <1>7
       DEF GarbageCollect, Idle, Phases, Stages, Messages, Verdicts
  <2>3. TaskTypes'
    BY <1>7
       DEF GarbageCollect, Idle, Phases, Stages, Messages, Verdicts
  <2>4. HitlTypes'
    BY <1>7
       DEF GarbageCollect, Idle, Phases, Stages, Messages, Verdicts
  <2>5. WorldTypes'
    BY <1>7
       DEF GarbageCollect, Idle, Phases, Stages, Messages, Verdicts
  <2> QED
    BY <2>1, <2>2, <2>3, <2>4, <2>5
<1>8. CASE ExecuteQueue
  <2>1. LoopTypes'
    BY <1>8, CopiesTyped DEF ExecuteQueue, BeginWriteAhead, Phases, Statuses
  <2>2. StoreTypes'
    <3>1. op_queue' \in [Ops -> Statuses] /\ Executable \in SUBSET Ops
      BY <1>8, CopiesTyped DEF ExecuteQueue, Executable, Statuses
    <3>2. Persisted(op_queue') \in [Ops -> Statuses]
      BY <3>1, CopiesTyped
    <3> QED
      BY <1>8, <3>1, <3>2 DEF ExecuteQueue, BeginWriteAhead, WriteAheads
  <2>3. TaskTypes'
    BY <1>8
       DEF ExecuteQueue, BeginWriteAhead, Idle, Executable, Phases, Stages, Messages,
           Verdicts
  <2>4. HitlTypes'
    BY <1>8
       DEF ExecuteQueue, BeginWriteAhead, Idle, Executable, Phases, Stages, Messages,
           Verdicts
  <2>5. WorldTypes'
    BY <1>8
       DEF ExecuteQueue, BeginWriteAhead, Idle, Executable, Phases, Stages, Messages,
           Verdicts
  <2> QED
    BY <2>1, <2>2, <2>3, <2>4, <2>5
<1>9. ASSUME NEW S \in SUBSET Ops, NEW force \in BOOLEAN, Enqueue(S, force) PROVE TypeOK'
  <2>1. LoopTypes'
    BY <1>9, CopiesTyped DEF Enqueue, NewOps, Statuses
  <2>2. StoreTypes'
    BY <1>9
       DEF Enqueue, NewOps, Idle, Phases, Stages, Messages, Verdicts
  <2>3. TaskTypes'
    BY <1>9
       DEF Enqueue, NewOps, Idle, Phases, Stages, Messages, Verdicts
  <2>4. HitlTypes'
    BY <1>9
       DEF Enqueue, NewOps, Idle, Phases, Stages, Messages, Verdicts
  <2>5. WorldTypes'
    BY <1>9
       DEF Enqueue, NewOps, Idle, Phases, Stages, Messages, Verdicts
  <2> QED
    BY <2>1, <2>2, <2>3, <2>4, <2>5
<1>10. ASSUME NEW o \in Ops, Dequeue(o) PROVE TypeOK'
  <2>1. LoopTypes'
    BY <1>10 DEF Dequeue, Statuses
  <2>2. StoreTypes'
    BY <1>10
       DEF Dequeue, Idle, Phases, Stages, Messages, Verdicts
  <2>3. TaskTypes'
    BY <1>10
       DEF Dequeue, Idle, Phases, Stages, Messages, Verdicts
  <2>4. HitlTypes'
    BY <1>10
       DEF Dequeue, Idle, Phases, Stages, Messages, Verdicts
  <2>5. WorldTypes'
    BY <1>10
       DEF Dequeue, Idle, Phases, Stages, Messages, Verdicts
  <2> QED
    BY <2>1, <2>2, <2>3, <2>4, <2>5
<1>11. ASSUME NEW o \in Ops, ApprovalReceived(o) PROVE TypeOK'
  <2>1. LoopTypes'
    BY <1>11
       DEF ApprovalReceived, BeginWriteAhead, Idle, Phases, Stages, Messages, Verdicts
  <2>2. StoreTypes'
    BY <1>11, CopiesTyped DEF ApprovalReceived, BeginWriteAhead, WriteAheads
  <2>3. TaskTypes'
    BY <1>11
       DEF ApprovalReceived, BeginWriteAhead, Idle, Phases, Stages, Messages, Verdicts
  <2>4. HitlTypes'
    BY <1>11
       DEF ApprovalReceived, BeginWriteAhead, Idle, Phases, Stages, Messages, Verdicts
  <2>5. WorldTypes'
    BY <1>11
       DEF ApprovalReceived, BeginWriteAhead, Idle, Phases, Stages, Messages, Verdicts
  <2> QED
    BY <2>1, <2>2, <2>3, <2>4, <2>5
<1>12. ASSUME NEW o \in Ops, QueueOpStatusChanged(o) PROVE TypeOK'
  <2>1. LoopTypes'
    <3>1. msg[o] \in Statuses
      BY <1>12 DEF QueueOpStatusChanged, Messages, Statuses, Errors
    <3> QED
      BY <1>12, <3>1 DEF QueueOpStatusChanged
  <2>2. StoreTypes'
    BY <1>12
       DEF QueueOpStatusChanged, Idle, Phases, Stages, Messages, Verdicts
  <2>3. TaskTypes'
    BY <1>12
       DEF QueueOpStatusChanged, Idle, Phases, Stages, Messages, Verdicts
  <2>4. HitlTypes'
    BY <1>12
       DEF QueueOpStatusChanged, Idle, Phases, Stages, Messages, Verdicts
  <2>5. WorldTypes'
    BY <1>12
       DEF QueueOpStatusChanged, Idle, Phases, Stages, Messages, Verdicts
  <2> QED
    BY <2>1, <2>2, <2>3, <2>4, <2>5
<1>13. CASE WriterTakes
  BY <1>13, EmptyFacts
     DEF WriterTakes, Statuses, Errors, Phases, Stages, Messages, Verdicts, Snapshots,
         WriteAheads
<1>14. CASE WriterSaves
  BY <1>14, EmptyFacts
     DEF WriterSaves, Save, SaveFails, Statuses, Errors, Phases, Stages, Messages, Verdicts,
         Snapshots, WriteAheads
<1>15. CASE WriteAheadSaved
  BY <1>15, EmptyFacts
     DEF WriteAheadSaved, Save, Gated, Statuses, Errors, Phases, Stages, Messages, Verdicts,
         Snapshots, WriteAheads
<1>16. CASE WriteAheadFails
  BY <1>16, EmptyFacts
     DEF WriteAheadFails, SaveFails, Statuses, Errors, Phases, Stages, Messages, Verdicts,
         Snapshots, WriteAheads
<1>17. ASSUME NEW o \in Ops, Register(o) PROVE TypeOK'
  BY <1>17, BoundsAssumption
     DEF Register, Statuses, Errors, Phases, Stages, Messages, Verdicts, Snapshots,
         WriteAheads
<1>18. ASSUME NEW o \in Ops, RequestFails(o) PROVE TypeOK'
  BY <1>18
     DEF RequestFails, Finish, Remove, Statuses, Errors, Phases, Stages, Messages, Verdicts,
         Snapshots, WriteAheads
<1>19. ASSUME NEW o \in Ops, RequestSent(o) PROVE TypeOK'
  BY <1>19, BoundsAssumption
     DEF RequestSent, Statuses, Errors, Phases, Stages, Messages, Verdicts, Snapshots,
         WriteAheads
<1>20. ASSUME NEW o \in Ops, NEW a \in Approvers, NEW approve \in BOOLEAN,
              Callback(o, a, approve) PROVE TypeOK'
  BY <1>20
     DEF Callback, ApplyApprove, ApplyDeny, Send, Remove, Statuses, Errors, Phases, Stages,
         Messages, Verdicts, Snapshots, WriteAheads
<1>21. ASSUME NEW o \in Ops, VerdictReceived(o) PROVE TypeOK'
  BY <1>21
     DEF VerdictReceived, Finish, Statuses, Errors, Phases, Stages, Messages, Verdicts,
         Snapshots, WriteAheads
<1>22. ASSUME NEW o \in Ops, TimesOut(o) PROVE TypeOK'
  BY <1>22
     DEF TimesOut, Statuses, Errors, Phases, Stages, Messages, Verdicts, Snapshots,
         WriteAheads
<1>23. ASSUME NEW o \in Ops, Unregister(o) PROVE TypeOK'
  BY <1>23
     DEF Unregister, Finish, Remove, Statuses, Errors, Phases, Stages, Messages, Verdicts,
         Snapshots, WriteAheads
<1>24. ASSUME NEW o \in Ops, RefuseOp(o) PROVE TypeOK'
  BY <1>24
     DEF RefuseOp, Finish, MyTurn, Statuses, Errors, Phases, Stages, Messages, Verdicts,
         Snapshots, WriteAheads
<1>25. ASSUME NEW o \in Ops, CallProxmox(o) PROVE TypeOK'
  BY <1>25
     DEF CallProxmox, MyTurn, Statuses, Errors, Phases, Stages, Messages, Verdicts,
         Snapshots, WriteAheads
<1>26. ASSUME NEW o \in Ops, NEW ok \in BOOLEAN, CallReturns(o, ok) PROVE TypeOK'
  BY <1>26
     DEF CallReturns, Finish, Statuses, Errors, Phases, Stages, Messages, Verdicts,
         Snapshots, WriteAheads
<1>27. CASE Tick
  <2>1. LoopTypes'
    BY <1>27, BoundsAssumption DEF Tick
  <2>2. StoreTypes'
    BY <1>27
       DEF Tick, Down, Phases, Stages, Messages, Verdicts
  <2>3. TaskTypes'
    BY <1>27
       DEF Tick, Down, Phases, Stages, Messages, Verdicts
  <2>4. HitlTypes'
    BY <1>27 DEF Tick, Down
  <2>5. WorldTypes'
    BY <1>27
       DEF Tick, Down, Phases, Stages, Messages, Verdicts
  <2> QED
    BY <2>1, <2>2, <2>3, <2>4, <2>5
<1>28. CASE UNCHANGED vars
  BY <1>28
     DEF vars
<1> QED
  BY <1>1, <1>2, <1>3, <1>4, <1>5, <1>6, <1>7, <1>8, <1>9, <1>10, <1>11, <1>12, <1>13,
     <1>14, <1>15, <1>16, <1>17, <1>18, <1>19, <1>20, <1>21, <1>22, <1>23, <1>24, <1>25,
     <1>26, <1>27, <1>28
     DEF Next, TaskStep

----------------------------------------------------------------------------
(* The inductive invariant.                                                *)

\* The rows of every copy of the queue, entry by entry.
LEMMA RowFacts ==
    ASSUME TypeOK
    PROVE  /\ \A o \in Ops : Persisted(op_queue)[o] \in {op_queue[o], "absent"}
           /\ \A o \in Ops :
                Restored(disk)[o] = IF disk[o] = "Running" THEN "Interrupted" ELSE disk[o]
           /\ \A o \in Ops : garbage_collect(op_queue)[o] \in {op_queue[o], "absent"}
           /\ \A S : \A o \in Ops :
                /\ With(op_queue, S, "Pending")[o] = IF o \in S THEN "Pending" ELSE op_queue[o]
                /\ With(op_queue, S, "Running")[o] = IF o \in S THEN "Running" ELSE op_queue[o]
<1>1. op_queue \in Rows /\ disk \in Rows
  BY DEF TypeOK, LoopTypes, StoreTypes, Rows
<1> QED
  BY <1>1, CopyFacts, WithFacts, SweepFacts DEF Statuses

\* The invariant holds before the first session.
LEMMA InvInit == Init => QueueInv
<1> SUFFICES ASSUME Init PROVE QueueInv
  OBVIOUS
<1> USE EmptyFacts DEF Init
<1>1. SeqInv
  BY DEF SeqInv
<1>2. TaskInv /\ PendingInv /\ TruthInv /\ FreshInv
  BY DEF TaskInv, InOnePlace, PendingInv, SafelyPending, TruthInv, FreshInv,
         Tells, Untouched
<1>3. GateInv
  <2>1. \A o \in Ops : Cardinality(pressed[o]) = 0 /\ IsFiniteSet(pressed[o])
    BY FS_EmptySet
  <2> QED
    BY <2>1 DEF GateInv, PastGate
<1> QED
  BY <1>1, <1>2, <1>3 DEF QueueInv

\* Every step keeps the invariant.
LEMMA InvStep == TypeOK /\ TypeOK' /\ QueueInv /\ [Next]_vars => QueueInv'
<1> SUFFICES ASSUME TypeOK, TypeOK', QueueInv, [Next]_vars PROVE QueueInv'
  OBVIOUS
<1> USE DEF QueueInv, Untouched, Tells, Snapshots, WriteAheads,
            TypeOK, LoopTypes, StoreTypes, TaskTypes, HitlTypes, WorldTypes,
            loopVars, storeVars, taskVars, hitlVars, pveVars, ghostVars, budgets
<1>1. CASE Start
  <2>1. SeqInv'
    BY <1>1, EmptyFacts, RowFacts
       DEF Start, OpenQueue, Surviving, SeqInv
  <2>2. TaskInv'
    BY <1>1, EmptyFacts, RowFacts
       DEF Start, OpenQueue, Surviving, TaskInv, InOnePlace, SeqInv
  <2>3. PendingInv'
    BY <1>1, EmptyFacts, RowFacts
       DEF Start, OpenQueue, Surviving, PendingInv, SafelyPending, InOnePlace, SeqInv,
           TaskInv, FreshInv
  <2>4. TruthInv'
    BY <1>1, EmptyFacts, RowFacts
       DEF Start, OpenQueue, Surviving, TruthInv, SafelyPending, InOnePlace, PendingInv,
           TaskInv, SeqInv, FreshInv
  <2>5. FreshInv'
    BY <1>1, EmptyFacts, RowFacts
       DEF Start, OpenQueue, Surviving, FreshInv
  <2>6. GateInv'
    <3>1. \A p \in Ops : pressed'[p] \in {pressed[p], {}} /\ approvers[p] = {} /\ ~PastGate(p)
      BY <1>1 DEF Start, OpenQueue, GateInv
    <3>2. \A p \in Ops : IsFiniteSet(pressed'[p])
      BY <3>1, FS_EmptySet DEF GateInv
    <3>3. UNCHANGED <<approvers, verdict, msg, stage, saving>> /\ phase' = "run"
      BY <1>1 DEF Start, OpenQueue
    <3> QED
      BY <3>1, <3>2, <3>3 DEF GateInv, PastGate
  <2>7. (forced \subseteq glass)'
    BY <1>1, EmptyFacts, RowFacts
       DEF Start, OpenQueue, Surviving
  <2> QED
    BY <2>1, <2>2, <2>3, <2>4, <2>5, <2>6, <2>7
<1>2. CASE Crash
  BY <1>2, EmptyFacts
     DEF Crash, ProcessGone, SeqInv, TaskInv, InOnePlace, PendingInv, SafelyPending,
         FreshInv, TruthInv, GateInv, PastGate, Approved
<1>3. CASE Quit
  BY <1>3
     DEF Quit, SeqInv, TaskInv, InOnePlace, PendingInv, SafelyPending, FreshInv, TruthInv,
         GateInv, PastGate, Approved
<1>4. CASE Exit
  BY <1>4, EmptyFacts
     DEF Exit, ProcessGone, SeqInv, TaskInv, InOnePlace, PendingInv, SafelyPending,
         FreshInv, TruthInv, GateInv, PastGate, Approved
<1>5. CASE Return
  <2>1. SeqInv'
    BY <1>5, EmptyFacts, RowFacts
       DEF Return, OpenQueue, Surviving, ForceLeft, SeqInv
  <2>2. TaskInv'
    BY <1>5, EmptyFacts, RowFacts
       DEF Return, OpenQueue, Surviving, ForceLeft, TaskInv, InOnePlace, SeqInv
  <2>3. PendingInv'
    <3>1. watch' = NoSnapshot /\ writing' = NoSnapshot /\ saving' = NoWriteAhead
      BY <1>5 DEF Return, WriterDone, SeqInv
    <3>2. ASSUME NEW p \in Ops, disk[p] = "Pending" PROVE Untouched(p)'
      BY <1>5, <3>2 DEF Return, OpenQueue, Surviving, PendingInv, SafelyPending
    <3>3. ASSUME NEW p \in Ops PROVE op_queue'[p] = "Pending" => disk[p] = "Pending"
      BY <1>5, RowFacts, EmptyFacts DEF Return, OpenQueue
    <3>4. UNCHANGED disk
      BY <1>5 DEF Return, OpenQueue
    <3> HIDE DEF Untouched
    <3> QED
      BY <3>1, <3>2, <3>3, <3>4, EmptyFacts DEF PendingInv, SafelyPending
  <2>4. TruthInv'
    BY <1>5, EmptyFacts, RowFacts
       DEF Return, OpenQueue, Surviving, ForceLeft, TruthInv, SafelyPending, InOnePlace,
           PendingInv, TaskInv, SeqInv, FreshInv
  <2>5. FreshInv'
    BY <1>5, EmptyFacts, RowFacts
       DEF Return, OpenQueue, Surviving, ForceLeft, FreshInv
  <2>6. GateInv'
    <3>1. \A p \in Ops : pressed'[p] = IF p \in Surviving THEN pressed[p] ELSE {}
      BY <1>5 DEF Return, OpenQueue
    <3>2. \A p \in Ops : IsFiniteSet(pressed'[p]) /\ approvers'[p] = {}
      BY <1>5, <3>1, FS_EmptySet DEF Return, GateInv
    <3>3. saving' = NoWriteAhead /\ phase' = "run"
      BY <1>5 DEF Return, OpenQueue, SeqInv
    <3>4. ASSUME NEW p \in Ops, PastGate(p)' PROVE p \in Surviving /\ PastGate(p)
      BY <1>5, <3>3, <3>4, EmptyFacts DEF Return, PastGate, Surviving
    <3> QED
      BY <3>1, <3>2, <3>3, <3>4 DEF GateInv, Approved
  <2>7. (forced \subseteq glass)'
    BY <1>5, EmptyFacts, RowFacts
       DEF Return, OpenQueue, Surviving, ForceLeft
  <2> QED
    BY <2>1, <2>2, <2>3, <2>4, <2>5, <2>6, <2>7
<1>6. CASE Flush
  <2>1. SeqInv'
    BY <1>6, EmptyFacts, RowFacts
       DEF Flush, SeqInv
  <2>2. TaskInv'
    BY <1>6, EmptyFacts, RowFacts
       DEF Flush, TaskInv, InOnePlace, SeqInv
  <2>3. PendingInv'
    BY <1>6, EmptyFacts, RowFacts
       DEF Flush, PendingInv, SafelyPending, InOnePlace, SeqInv, TaskInv, FreshInv
  <2>4. TruthInv'
    BY <1>6, EmptyFacts, RowFacts
       DEF Flush, TruthInv, SafelyPending, InOnePlace, PendingInv, TaskInv, SeqInv, FreshInv
  <2>5. FreshInv'
    BY <1>6, EmptyFacts, RowFacts
       DEF Flush, FreshInv
  <2>6. GateInv'
    BY <1>6, EmptyFacts, RowFacts
       DEF Flush, GateInv, PastGate, Approved, SeqInv
  <2>7. (forced \subseteq glass)'
    BY <1>6, EmptyFacts, RowFacts
       DEF Flush
  <2> QED
    BY <2>1, <2>2, <2>3, <2>4, <2>5, <2>6, <2>7
<1>7. CASE GarbageCollect
  BY <1>7, EmptyFacts, RowFacts
     DEF GarbageCollect, Idle, SeqInv, TaskInv, InOnePlace, PendingInv, SafelyPending,
         FreshInv, TruthInv, GateInv, PastGate, Approved
<1>8. CASE ExecuteQueue
  <2>0. \A p \in Ops :
          /\ op_queue'[p] = IF op_queue[p] = "Pending" THEN "Running" ELSE op_queue[p]
          /\ saving'.rows[p] \in {op_queue'[p], "absent"}
          /\ p \in saving'.ops <=> op_queue[p] = "Pending"
    <3>1. op_queue' \in Rows
      BY DEF Rows
    <3>2. \A p \in Ops : Persisted(op_queue')[p] \in {op_queue'[p], "absent"}
      BY <3>1, CopyFacts
    <3> QED
      BY <1>8, <3>2, RowFacts DEF ExecuteQueue, BeginWriteAhead, Executable
  <2>1. SeqInv'
    BY <1>8, EmptyFacts, RowFacts, <2>0
       DEF ExecuteQueue, BeginWriteAhead, Idle, Executable, SeqInv
  <2>2. TaskInv'
    <3>1. UNCHANGED <<sent, stage, msg, outcome>>
      BY <1>8 DEF ExecuteQueue
    <3> QED
      BY <2>0, <3>1 DEF TaskInv, InOnePlace, PendingInv, SafelyPending
  <2>3. PendingInv'
    <3>1. UNCHANGED <<sent, stage, msg, outcome, disk, watch, writing, written, fresh>>
      BY <1>8 DEF ExecuteQueue
    <3> QED
      BY <2>0, <3>1 DEF PendingInv, SafelyPending, SeqInv
  <2>4. TruthInv'
    <3>1. UNCHANGED <<sent, stage, msg, outcome, disk, watch, writing, written, fresh>>
      BY <1>8 DEF ExecuteQueue
    <3> QED
      BY <2>0, <3>1 DEF TruthInv, PendingInv, SafelyPending
  <2>5. FreshInv'
    <3>1. UNCHANGED <<sent, stage, msg, outcome, disk, watch, writing, written, fresh>>
      BY <1>8 DEF ExecuteQueue
    <3> QED
      BY <2>0, <3>1 DEF FreshInv
  <2>6. GateInv'
    BY <1>8, EmptyFacts, RowFacts, <2>0
       DEF ExecuteQueue, BeginWriteAhead, Idle, Executable, GateInv, PastGate, Approved,
           SeqInv
  <2>7. (forced \subseteq glass)'
    BY <1>8, EmptyFacts, RowFacts, <2>0
       DEF ExecuteQueue, BeginWriteAhead, Idle, Executable
  <2> QED
    BY <2>1, <2>2, <2>3, <2>4, <2>5, <2>6, <2>7
<1>9. ASSUME NEW S \in SUBSET Ops, NEW force \in BOOLEAN, Enqueue(S, force) PROVE QueueInv'
  <2>1. SeqInv'
    BY <1>9, EmptyFacts, RowFacts
       DEF Enqueue, NewOps, Idle, SeqInv
  <2>2. TaskInv'
    BY <1>9, EmptyFacts, RowFacts
       DEF Enqueue, NewOps, Idle, TaskInv, InOnePlace, SeqInv
  <2>3. PendingInv'
    BY <1>9, EmptyFacts, RowFacts
       DEF Enqueue, NewOps, Idle, PendingInv, SafelyPending, InOnePlace, SeqInv, TaskInv,
           FreshInv
  <2>4. TruthInv'
    BY <1>9, EmptyFacts, RowFacts
       DEF Enqueue, NewOps, Idle, TruthInv, SafelyPending, InOnePlace, PendingInv, TaskInv,
           SeqInv, FreshInv
  <2>5. FreshInv'
    BY <1>9, EmptyFacts, RowFacts
       DEF Enqueue, NewOps, Idle, FreshInv
  <2>6. GateInv'
    BY <1>9, EmptyFacts, RowFacts
       DEF Enqueue, NewOps, Idle, GateInv, PastGate, Approved, SeqInv
  <2>7. (forced \subseteq glass)'
    BY <1>9, EmptyFacts, RowFacts
       DEF Enqueue, NewOps, Idle
  <2> QED
    BY <2>1, <2>2, <2>3, <2>4, <2>5, <2>6, <2>7
<1>10. ASSUME NEW o \in Ops, Dequeue(o) PROVE QueueInv'
  BY <1>10
     DEF Dequeue, Idle, SeqInv, TaskInv, InOnePlace, PendingInv, SafelyPending, FreshInv,
         TruthInv, GateInv, PastGate, Approved
<1>11. ASSUME NEW o \in Ops, ApprovalReceived(o) PROVE QueueInv'
  BY <1>11, EmptyFacts, RowFacts
     DEF ApprovalReceived, BeginWriteAhead, Idle, SeqInv, TaskInv, InOnePlace, PendingInv,
         SafelyPending, FreshInv, TruthInv, GateInv, PastGate, Approved
<1>12. ASSUME NEW o \in Ops, QueueOpStatusChanged(o) PROVE QueueInv'
  <2>1. SeqInv'
    BY <1>12
       DEF QueueOpStatusChanged, Idle, SeqInv, Messages
  <2>2. TaskInv'
    BY <1>12
       DEF QueueOpStatusChanged, Idle, TaskInv, InOnePlace, SeqInv, Messages
  <2>3. PendingInv'
    BY <1>12
       DEF QueueOpStatusChanged, Idle, PendingInv, SafelyPending, InOnePlace, SeqInv,
           TaskInv, FreshInv, Messages
  <2>4. TruthInv'
    BY <1>12
       DEF QueueOpStatusChanged, Idle, TruthInv, SafelyPending, InOnePlace, PendingInv,
           TaskInv, SeqInv, FreshInv, Messages
  <2>5. FreshInv'
    BY <1>12
       DEF QueueOpStatusChanged, Idle, FreshInv, Messages
  <2>6. GateInv'
    BY <1>12
       DEF QueueOpStatusChanged, Idle, GateInv, PastGate, Approved, SeqInv, Messages
  <2>7. (forced \subseteq glass)'
    BY <1>12
       DEF QueueOpStatusChanged, Idle, Messages
  <2> QED
    BY <2>1, <2>2, <2>3, <2>4, <2>5, <2>6, <2>7
<1>13. CASE WriterTakes
  BY <1>13, EmptyFacts
     DEF WriterTakes, SeqInv, TaskInv, InOnePlace, PendingInv, SafelyPending, FreshInv,
         TruthInv, GateInv, PastGate, Approved
<1>14. CASE WriterSaves
  <2>1. SeqInv'
    BY <1>14, EmptyFacts
       DEF WriterSaves, Save, SaveFails, SeqInv
  <2>2. TaskInv'
    BY <1>14, EmptyFacts
       DEF WriterSaves, Save, SaveFails, TaskInv, InOnePlace, SeqInv
  <2>3. PendingInv'
    BY <1>14, EmptyFacts
       DEF WriterSaves, Save, SaveFails, PendingInv, SafelyPending, InOnePlace, SeqInv,
           TaskInv, FreshInv
  <2>4. TruthInv'
    BY <1>14, EmptyFacts
       DEF WriterSaves, Save, SaveFails, TruthInv, SafelyPending, InOnePlace, PendingInv,
           TaskInv, SeqInv, FreshInv
  <2>5. FreshInv'
    BY <1>14, EmptyFacts
       DEF WriterSaves, Save, SaveFails, FreshInv
  <2>6. GateInv'
    BY <1>14, EmptyFacts
       DEF WriterSaves, Save, SaveFails, GateInv, PastGate, Approved, SeqInv
  <2>7. (forced \subseteq glass)'
    BY <1>14, EmptyFacts
       DEF WriterSaves, Save, SaveFails
  <2> QED
    BY <2>1, <2>2, <2>3, <2>4, <2>5, <2>6, <2>7
<1>15. CASE WriteAheadSaved
  <2>1. SeqInv'
    BY <1>15, EmptyFacts
       DEF WriteAheadSaved, Save, Gated, SeqInv
  <2>2. TaskInv'
    BY <1>15, EmptyFacts
       DEF WriteAheadSaved, Save, Gated, TaskInv, InOnePlace, SeqInv
  <2>3. PendingInv'
    BY <1>15, EmptyFacts
       DEF WriteAheadSaved, Save, Gated, PendingInv, SafelyPending, InOnePlace, SeqInv,
           TaskInv, FreshInv
  <2>4. TruthInv'
    BY <1>15, EmptyFacts
       DEF WriteAheadSaved, Save, Gated, TruthInv, SafelyPending, InOnePlace, PendingInv,
           TaskInv, SeqInv, FreshInv
  <2>5. FreshInv'
    BY <1>15, EmptyFacts
       DEF WriteAheadSaved, Save, Gated, FreshInv
  <2>6. GateInv'
    <3>1. ASSUME NEW p \in Ops, PastGate(p)' PROVE PastGate(p) \/ Require[p] = 0
      BY <1>15, <3>1, EmptyFacts, KindsAssumption DEF WriteAheadSaved, PastGate, Gated
    <3>2. \A p \in Ops : Cardinality(pressed[p]) \in Nat
      BY FS_CardinalityType DEF GateInv
    <3>3. UNCHANGED <<pressed, approvers>> /\ phase' = "run"
      BY <1>15 DEF WriteAheadSaved
    <3> QED
      BY <3>1, <3>2, <3>3 DEF GateInv, Approved
  <2>7. (forced \subseteq glass)'
    BY <1>15, EmptyFacts
       DEF WriteAheadSaved, Save, Gated
  <2> QED
    BY <2>1, <2>2, <2>3, <2>4, <2>5, <2>6, <2>7
<1>16. CASE WriteAheadFails
  BY <1>16, EmptyFacts
     DEF WriteAheadFails, SaveFails, SeqInv, TaskInv, InOnePlace, PendingInv, SafelyPending,
         FreshInv, TruthInv, GateInv, PastGate, Approved
<1>17. ASSUME NEW o \in Ops, Register(o) PROVE QueueInv'
  BY <1>17
     DEF Register, SeqInv, TaskInv, InOnePlace, PendingInv, SafelyPending, FreshInv,
         TruthInv, GateInv, PastGate, Approved
<1>18. ASSUME NEW o \in Ops, RequestFails(o) PROVE QueueInv'
  BY <1>18
     DEF RequestFails, Finish, Remove, SeqInv, TaskInv, InOnePlace, PendingInv,
         SafelyPending, FreshInv, TruthInv, GateInv, PastGate, Approved
<1>19. ASSUME NEW o \in Ops, RequestSent(o) PROVE QueueInv'
  BY <1>19
     DEF RequestSent, SeqInv, TaskInv, InOnePlace, PendingInv, SafelyPending, FreshInv,
         TruthInv, GateInv, PastGate, Approved
<1>20. ASSUME NEW o \in Ops, NEW a \in Approvers, NEW approve \in BOOLEAN,
              Callback(o, a, approve) PROVE QueueInv'
  <2>1. SeqInv'
    BY <1>20
       DEF Callback, ApplyApprove, ApplyDeny, Send, Remove, SeqInv
  <2>2. TaskInv'
    BY <1>20
       DEF Callback, ApplyApprove, ApplyDeny, Send, Remove, TaskInv, InOnePlace, SeqInv
  <2>3. PendingInv'
    BY <1>20
       DEF Callback, ApplyApprove, ApplyDeny, Send, Remove, PendingInv, SafelyPending,
           InOnePlace, SeqInv, TaskInv, FreshInv
  <2>4. TruthInv'
    BY <1>20
       DEF Callback, ApplyApprove, ApplyDeny, Send, Remove, TruthInv, SafelyPending,
           InOnePlace, PendingInv, TaskInv, SeqInv, FreshInv
  <2>5. FreshInv'
    BY <1>20
       DEF Callback, ApplyApprove, ApplyDeny, Send, Remove, FreshInv
  <2>6. GateInv'
    <3>1. UNCHANGED <<msg, stage, saving, phase>> /\ phase # "down"
      BY <1>20 DEF Callback
    <3>2. \A p \in Ops : /\ pressed[p] \subseteq pressed'[p]
                         /\ pressed'[p] = pressed[p] \/ pressed'[p] = pressed[p] \cup {a}
      BY <1>20 DEF Callback
    <3>3. \A p \in Ops : IsFiniteSet(pressed'[p])
      <4>1. \A p \in Ops : IsFiniteSet(pressed[p])
        BY DEF GateInv
      <4>2. \A p \in Ops : IsFiniteSet(pressed[p] \cup {a})
        BY <4>1, FS_AddElement
      <4> QED
        BY <3>2, <4>1, <4>2
    <3>4. \A p \in Ops : approvers'[p] \subseteq pressed'[p]
      BY <1>20, <3>2 DEF Callback, ApplyApprove, ApplyDeny, Remove, GateInv
    <3>5. ASSUME NEW p \in Ops, Approved(p) PROVE Approved(p)'
      <4>1. /\ Cardinality(pressed[p]) \in Nat /\ Cardinality(pressed'[p]) \in Nat
            /\ Cardinality(pressed[p]) <= Cardinality(pressed'[p])
        BY <3>2, <3>3, FS_Subset, FS_CardinalityType DEF GateInv
      <4> QED
        BY <3>5, <4>1, KindsAssumption DEF Approved
    <3>6. ASSUME NEW p \in Ops, verdict'[p] = "yes", verdict[p] # "yes" PROVE Approved(p)'
      <4>1. /\ approve /\ p = o /\ pressed'[p] = pressed[p] \cup {a}
            /\ QuorumMet(o, approvers[o] \cup {a})
        BY <1>20, <3>6 DEF Callback, ApplyApprove, ApplyDeny, Send
      <4>2. approvers[o] \cup {a} \subseteq pressed'[o]
        BY <4>1 DEF GateInv
      <4>3. /\ Cardinality(approvers[o] \cup {a}) \in Nat /\ Cardinality(pressed'[o]) \in Nat
            /\ Cardinality(approvers[o] \cup {a}) <= Cardinality(pressed'[o])
        <5> DEFINE V == approvers[o] \cup {a}
        <5> HIDE DEF V
        <5>1. IsFiniteSet(pressed'[o]) /\ V \in SUBSET pressed'[o]
          BY <3>3, <4>2 DEF V
        <5>2. IsFiniteSet(V) /\ Cardinality(V) <= Cardinality(pressed'[o])
          BY <5>1, FS_Subset
        <5>3. Cardinality(V) \in Nat /\ Cardinality(pressed'[o]) \in Nat
          BY <5>1, <5>2, FS_CardinalityType
        <5> QED
          BY <5>2, <5>3 DEF V
      <4> QED
        BY <4>1, <4>3, KindsAssumption DEF QuorumMet, Approved
    <3>7. ASSUME NEW p \in Ops, PastGate(p)' PROVE Approved(p)'
      BY <3>1, <3>5, <3>6, <3>7 DEF PastGate, GateInv
    <3> QED
      BY <3>1, <3>3, <3>4, <3>7 DEF GateInv
  <2>7. (forced \subseteq glass)'
    BY <1>20
       DEF Callback, ApplyApprove, ApplyDeny, Send, Remove
  <2> QED
    BY <2>1, <2>2, <2>3, <2>4, <2>5, <2>6, <2>7
<1>21. ASSUME NEW o \in Ops, VerdictReceived(o) PROVE QueueInv'
  BY <1>21
     DEF VerdictReceived, Finish, SeqInv, TaskInv, InOnePlace, PendingInv, SafelyPending,
         FreshInv, TruthInv, GateInv, PastGate, Approved
<1>22. ASSUME NEW o \in Ops, TimesOut(o) PROVE QueueInv'
  BY <1>22
     DEF TimesOut, SeqInv, TaskInv, InOnePlace, PendingInv, SafelyPending, FreshInv,
         TruthInv, GateInv, PastGate, Approved
<1>23. ASSUME NEW o \in Ops, Unregister(o) PROVE QueueInv'
  BY <1>23
     DEF Unregister, Finish, Remove, SeqInv, TaskInv, InOnePlace, PendingInv, SafelyPending,
         FreshInv, TruthInv, GateInv, PastGate, Approved
<1>24. ASSUME NEW o \in Ops, RefuseOp(o) PROVE QueueInv'
  BY <1>24
     DEF RefuseOp, Finish, MyTurn, SeqInv, TaskInv, InOnePlace, PendingInv, SafelyPending,
         FreshInv, TruthInv, GateInv, PastGate, Approved
<1>25. ASSUME NEW o \in Ops, CallProxmox(o) PROVE QueueInv'
  <2>1. SeqInv'
    BY <1>25
       DEF CallProxmox, MyTurn, SeqInv
  <2>2. TaskInv'
    BY <1>25
       DEF CallProxmox, MyTurn, TaskInv, InOnePlace, SeqInv
  <2>3. PendingInv'
    BY <1>25
       DEF CallProxmox, MyTurn, PendingInv, SafelyPending, InOnePlace, SeqInv, TaskInv,
           FreshInv
  <2>4. TruthInv'
    BY <1>25
       DEF CallProxmox, MyTurn, TruthInv, SafelyPending, InOnePlace, PendingInv, TaskInv,
           SeqInv, FreshInv
  <2>5. FreshInv'
    BY <1>25
       DEF CallProxmox, MyTurn, FreshInv
  <2>6. GateInv'
    BY <1>25
       DEF CallProxmox, MyTurn, GateInv, PastGate, Approved, SeqInv
  <2>7. (forced \subseteq glass)'
    BY <1>25
       DEF CallProxmox, MyTurn
  <2> QED
    BY <2>1, <2>2, <2>3, <2>4, <2>5, <2>6, <2>7
<1>26. ASSUME NEW o \in Ops, NEW ok \in BOOLEAN, CallReturns(o, ok) PROVE QueueInv'
  <2>1. SeqInv'
    BY <1>26
       DEF CallReturns, Finish, SeqInv
  <2>2. TaskInv'
    BY <1>26
       DEF CallReturns, Finish, TaskInv, InOnePlace, SeqInv
  <2>3. PendingInv'
    BY <1>26
       DEF CallReturns, Finish, PendingInv, SafelyPending, InOnePlace, SeqInv, TaskInv,
           FreshInv
  <2>4. TruthInv'
    BY <1>26
       DEF CallReturns, Finish, TruthInv, SafelyPending, InOnePlace, PendingInv, TaskInv,
           SeqInv, FreshInv
  <2>5. FreshInv'
    BY <1>26
       DEF CallReturns, Finish, FreshInv
  <2>6. GateInv'
    BY <1>26
       DEF CallReturns, Finish, GateInv, PastGate, Approved, SeqInv
  <2>7. (forced \subseteq glass)'
    BY <1>26
       DEF CallReturns, Finish
  <2> QED
    BY <2>1, <2>2, <2>3, <2>4, <2>5, <2>6, <2>7
<1>27. CASE Tick
  BY <1>27
     DEF Tick, Down, SeqInv, TaskInv, InOnePlace, PendingInv, SafelyPending, FreshInv,
         TruthInv, GateInv, PastGate, Approved
<1>28. CASE UNCHANGED vars
  BY <1>28
     DEF vars, InOnePlace, SafelyPending, PastGate, Approved, SeqInv, TaskInv, PendingInv,
         TruthInv, FreshInv, GateInv
<1> QED
  BY <1>1, <1>2, <1>3, <1>4, <1>5, <1>6, <1>7, <1>8, <1>9, <1>10, <1>11, <1>12, <1>13,
     <1>14, <1>15, <1>16, <1>17, <1>18, <1>19, <1>20, <1>21, <1>22, <1>23, <1>24, <1>25,
     <1>26, <1>27, <1>28
     DEF Next, TaskStep

----------------------------------------------------------------------------
(* The approvers' deadline and the task's.                                 *)

\* Nobody has asked before the first session.
LEMMA AskInit == Init => AskInv
  BY EmptyFacts DEF Init, AskInv, Asked

\* The entry of the coordinator is gone before the task gives up waiting, and
\* an op that was approved is not asked about again.
LEMMA AskStep ==
    TypeOK /\ TypeOK' /\ QueueInv /\ AskInv /\ [Next]_vars => AskInv'
<1> SUFFICES ASSUME TypeOK, TypeOK', QueueInv, AskInv, [Next]_vars PROVE AskInv'
  OBVIOUS
<1> USE DEF AskInv, Asked, LoopTypes, StoreTypes, TaskTypes, HitlTypes, WorldTypes,
            loopVars, storeVars, taskVars, hitlVars, pveVars, ghostVars, budgets
<1>a. /\ LoopTypes /\ StoreTypes /\ TaskTypes /\ HitlTypes /\ WorldTypes
  BY DEF TypeOK
<1>b. SeqInv /\ TaskInv /\ PendingInv /\ FreshInv /\ GateInv
  BY DEF QueueInv
<1>1. CASE Start
  <2>1. Surviving = {}
    BY <1>1, <1>a, <1>b DEF Start, Surviving, GateInv, PastGate
  <2>2. told' = {} /\ UNCHANGED <<registered, stage, ttl, timer, verdict>>
    BY <1>1, <2>1 DEF Start, OpenQueue
  <2> QED
    BY <1>a, <2>2
<1>2. CASE Crash \/ Exit
  <2>1. /\ registered' = {} /\ UNCHANGED <<told, fresh>>
        /\ \A o \in Ops : stage'[o] = "idle" /\ op_queue'[o] = "absent" /\ verdict'[o] = "none"
        /\ saving'.ops = {}
    BY <1>2, EmptyFacts DEF Crash, Exit, ProcessGone
  <2> QED
    BY <1>a, <2>1
<1>3. CASE Quit \/ Flush
  BY <1>3, <1>a DEF Quit, Flush
<1>4. CASE Return
  <2>1. /\ registered' = {} /\ told' = told \cap Surviving
        /\ UNCHANGED <<fresh, saving>> /\ saving = NoWriteAhead
        /\ \A o \in Surviving : stage'[o] = stage[o]
        /\ \A o \in Ops : verdict'[o] = "none"
    BY <1>4, <1>a, <1>b DEF Return, OpenQueue, Surviving, SeqInv
  <2>2. \A o \in Surviving : stage[o] \in {"ready", "called"} /\ disk[o] # "Pending"
    BY <1>b DEF Surviving, PendingInv, SafelyPending, Untouched
  <2>3. \A o \in Surviving : op_queue'[o] # "Pending"
    BY <1>4, <2>2, RowFacts, EmptyFacts DEF Return, OpenQueue, Surviving
  <2> QED
    BY <1>a, <2>1, <2>2, <2>3, EmptyFacts DEF Surviving
<1>5. CASE GarbageCollect
  BY <1>5, <1>a, RowFacts DEF GarbageCollect
<1>6. CASE ExecuteQueue
  <2>1. /\ UNCHANGED <<stage, registered, ttl, timer, verdict, told, fresh>>
        /\ saving'.ops = Executable
        /\ \A o \in Ops : op_queue'[o] = IF o \in Executable THEN "Running" ELSE op_queue[o]
    BY <1>6, RowFacts DEF ExecuteQueue, BeginWriteAhead
  <2> QED
    BY <1>a, <2>1 DEF Executable
<1>7. ASSUME NEW S \in SUBSET Ops, NEW force \in BOOLEAN, Enqueue(S, force) PROVE AskInv'
  BY <1>7, <1>a, RowFacts DEF Enqueue, NewOps
<1>8. ASSUME NEW o \in Ops, Dequeue(o) \/ QueueOpStatusChanged(o) PROVE AskInv'
  BY <1>8, <1>a DEF Dequeue, QueueOpStatusChanged, Messages
<1>9. ASSUME NEW o \in Ops, ApprovalReceived(o) PROVE AskInv'
  BY <1>9, <1>a DEF ApprovalReceived, BeginWriteAhead
<1>10. CASE WriterTakes \/ WriterSaves
  BY <1>10, <1>a DEF WriterTakes, WriterSaves
<1>11. CASE WriteAheadSaved
  <2>1. ASSUME NEW o \in Ops, o \in saving.ops PROVE stage[o] = "idle" /\ o \notin registered
    BY <2>1, <1>b DEF TaskInv, InOnePlace, Untouched
  <2> QED
    BY <1>11, <1>a, <2>1, EmptyFacts DEF WriteAheadSaved, Gated
<1>12. CASE WriteAheadFails
  BY <1>12, <1>a, EmptyFacts DEF WriteAheadFails
<1>13. ASSUME NEW o \in Ops, Register(o) PROVE AskInv'
  BY <1>13, <1>a, BoundsAssumption DEF Register
<1>14. ASSUME NEW o \in Ops, RequestFails(o) \/ Unregister(o) PROVE AskInv'
  BY <1>14, <1>a DEF RequestFails, Unregister, Finish, Remove
<1>15. ASSUME NEW o \in Ops, RequestSent(o) PROVE AskInv'
  BY <1>15, <1>a, BoundsAssumption, WaitAssumption DEF RequestSent
<1>16. ASSUME NEW o \in Ops, NEW a \in Approvers, NEW approve \in BOOLEAN,
              Callback(o, a, approve) PROVE AskInv'
  <2>1. /\ o \in registered /\ stage[o] # "idle" /\ UNCHANGED <<stage, timer, saving, fresh, op_queue>>
        /\ op_queue[o] # "Pending" /\ o \notin fresh /\ o \notin saving.ops
    BY <1>16, <1>b DEF Callback, PendingInv, SafelyPending, FreshInv, TaskInv, InOnePlace, Untouched
  <2>2. \A p \in Ops : /\ p \in registered' => p \in registered /\ ttl'[p] = ttl[p]
                       /\ p # o => verdict'[p] = verdict[p] /\ (p \in told' => p \in told)
    BY <1>16, <1>a DEF Callback, ApplyApprove, ApplyDeny, Send, Remove
  <2>0. verdict'[o] # "none" => stage[o] \in {"sending", "waiting"} /\ o \notin registered'
    BY <1>16, <1>a, <2>1 DEF Callback, ApplyApprove, ApplyDeny, Send, Remove
  <2>3. o \in told' => ttl[o] # 0 /\ Send(o, "yes") /\ o \notin registered'
    BY <1>16, <1>a, <2>1 DEF Callback, ApplyApprove, ApplyDeny, Expired, Remove
  <2>4. Asked(o)'
    BY <1>a, <2>0, <2>1, <2>2, <2>3 DEF Send
  <2> QED
    BY <1>a, <2>1, <2>2, <2>4
<1>17. ASSUME NEW o \in Ops, VerdictReceived(o) PROVE AskInv'
  BY <1>17, <1>a DEF VerdictReceived, Finish
<1>18. ASSUME NEW o \in Ops, TimesOut(o) PROVE AskInv'
  <2>1. Asked(o)'
    BY <1>18, <1>a DEF TimesOut, WaitOver
  <2> QED
    BY <1>18, <1>a, <2>1 DEF TimesOut
<1>19. ASSUME NEW o \in Ops, RefuseOp(o) \/ CallProxmox(o) PROVE AskInv'
  BY <1>19, <1>a DEF RefuseOp, CallProxmox, MyTurn, Finish
<1>20. ASSUME NEW o \in Ops, NEW ok \in BOOLEAN, CallReturns(o, ok) PROVE AskInv'
  BY <1>20, <1>a DEF CallReturns, Finish
<1>21. CASE Tick
  BY <1>21, <1>a, BoundsAssumption DEF Tick, Down
<1>22. CASE UNCHANGED vars
  BY <1>22 DEF vars
<1> QED
  BY <1>1, <1>2, <1>3, <1>4, <1>5, <1>6, <1>7, <1>8, <1>9, <1>10, <1>11, <1>12, <1>13,
     <1>14, <1>15, <1>16, <1>17, <1>18, <1>19, <1>20, <1>21, <1>22 DEF Next, TaskStep

----------------------------------------------------------------------------
(* The newest snapshot and the queue it is of.                             *)

\* What to_persisted leaves out, and what a restart shows of what it keeps.
LEMMA KeptFacts ==
    ASSUME NEW q \in Rows
    PROVE  /\ Kept(Persisted(q))
           /\ Kept(q) => \A o \in Ops :
                AfterRestart(Persisted(Restored(q))[o]) = AfterRestart(q[o])
<1>1. Kept(Persisted(q))
  BY DEF Kept, Persisted
<1>2. ASSUME Kept(q), NEW o \in Ops
      PROVE  AfterRestart(Persisted(Restored(q))[o]) = AfterRestart(q[o])
  <2>1. Restored(q)[o] = AfterRestart(q[o])
    BY CopyFacts DEF AfterRestart
  <2>2. Persisted(Restored(q))[o] = IF o \in Persistable THEN AfterRestart(q[o]) ELSE "absent"
    BY <2>1 DEF Persisted
  <2> QED
    BY <1>2, <2>2 DEF Kept, AfterRestart
<1> QED
  BY <1>1, <1>2

\* Nothing is to be saved before the first session.
LEMMA SaveInit == Init => SaveInv
  BY EmptyFacts DEF Init, SaveInv, Kept

\* A clean queue stays in its newest snapshot until a write fails.
LEMMA SaveStep ==
    TypeOK /\ TypeOK' /\ SeqInv /\ SaveInv /\ [Next]_vars => SaveInv'
<1> SUFFICES ASSUME TypeOK, TypeOK', SeqInv, SaveInv, [Next]_vars PROVE SaveInv'
  OBVIOUS
<1> USE DEF loopVars, storeVars, taskVars, hitlVars, pveVars, ghostVars, budgets
<1>a. /\ op_queue \in Rows /\ disk \in Rows /\ queue_dirty \in BOOLEAN
      /\ seq \in Nat /\ written \in Nat /\ faults \in Nat
      /\ watch \in Snapshots /\ writing \in Snapshots /\ saving \in WriteAheads
  BY DEF TypeOK, LoopTypes, StoreTypes, WorldTypes, Rows
<1>b. watch.seq \in Nat /\ writing.seq \in Nat /\ saving.seq \in Nat
  BY <1>a DEF Snapshots, WriteAheads
<1>c. Kept(Nothing) /\ Kept(NoSnapshot.rows) /\ Kept(NoWriteAhead.rows)
  BY EmptyFacts DEF Kept
<1>1. ASSUME OpenQueue, watch = NoSnapshot, writing = NoSnapshot, UNCHANGED storeVars
      PROVE  SaveInv'
  <2>1. phase' = "run" /\ (faults' = 0 => op_queue' = Restored(disk))
    BY <1>1, <1>a DEF OpenQueue
  <2>2. Latest' = disk
    BY <1>1, <1>a, EmptyFacts DEF Latest
  <2> QED
    BY <1>1, <1>a, <2>1, <2>2, KeptFacts DEF SaveInv
<1>2. CASE Start
  BY <1>1, <1>2 DEF Start, SeqInv
<1>3. CASE Return
  BY <1>1, <1>3 DEF Return, OpenQueue, WriterDone
<1>4. CASE Crash \/ Exit
  BY <1>4, <1>c, EmptyFacts DEF Crash, Exit, ProcessGone, SaveInv
<1>5. CASE Quit
  BY <1>5 DEF Quit, SaveInv, Latest
<1>6. CASE Flush
  <2>1. watch'.seq = seq + 1 /\ watch'.rows = Persisted(op_queue) /\ watch' # NoSnapshot
    BY <1>6, <1>a, EmptyFacts DEF Flush
  <2>2. Latest' = Persisted(op_queue)
    BY <1>6, <1>a, <2>1 DEF Flush, Latest, SeqInv
  <2>3. Kept(Persisted(op_queue))
    BY <1>a, KeptFacts
  <2> QED
    BY <1>6, <1>a, <1>b, <2>1, <2>2, <2>3 DEF Flush, SaveInv, SeqInv
<1>7. CASE /\ UNCHANGED <<storeVars, phase, faults>> /\ phase = "run"
           /\ queue_dirty' \/ (UNCHANGED <<op_queue, queue_dirty>>)
  BY <1>7 DEF SaveInv, Latest
<1>8. CASE ExecuteQueue
  <2>1. /\ phase' = "saving" /\ UNCHANGED <<disk, watch, writing>>
        /\ saving'.rows = Persisted(op_queue')
    BY <1>8 DEF ExecuteQueue, BeginWriteAhead
  <2>2. op_queue' \in Rows
    BY DEF TypeOK, LoopTypes, Rows
  <2> QED
    BY <2>1, <2>2, KeptFacts DEF SaveInv
<1>9. ASSUME NEW o \in Ops, ApprovalReceived(o) PROVE SaveInv'
  <2>1. /\ phase' = "saving" /\ UNCHANGED <<op_queue, disk, watch, writing>>
        /\ saving'.rows = Persisted(op_queue)
    BY <1>9 DEF ApprovalReceived, BeginWriteAhead
  <2> QED
    BY <1>a, <2>1, KeptFacts DEF SaveInv
<1>10. CASE WriterTakes
  <2>1. Latest' = Latest
    BY <1>10, <1>a, <1>b, EmptyFacts DEF WriterTakes, Latest
  <2> QED
    BY <1>10, <1>a, <1>b, <1>c, <2>1, EmptyFacts DEF WriterTakes, SaveInv
<1>11. CASE WriterSaves
  <2>1. CASE faults' # 0
    BY <1>11, <1>a, <1>b, <1>c, <2>1, EmptyFacts
       DEF WriterSaves, Save, SaveFails, SaveInv, SeqInv
  <2>2. CASE faults' = 0
    <3>1. Save(writing) /\ writing' = NoSnapshot /\ UNCHANGED <<watch, faults>>
      BY <1>11, <1>a, <2>2 DEF WriterSaves, SaveFails
    <3>2. Latest' = Latest
      BY <1>a, <1>b, <3>1, EmptyFacts DEF Save, Latest, SaveInv
    <3> QED
      BY <1>11, <1>a, <1>b, <1>c, <3>1, <3>2, EmptyFacts DEF WriterSaves, Save, SaveInv
  <2> QED
    BY <2>1, <2>2
<1>12. CASE WriteAheadSaved
  <2>1. /\ disk' = saving.rows /\ written' = seq /\ saving' = NoWriteAhead
        /\ phase' = "run" /\ UNCHANGED <<op_queue, queue_dirty, watch, writing, faults>>
    BY <1>12, <1>a, <1>b DEF WriteAheadSaved, Save, SeqInv
  <2>2. Latest' = Persisted(op_queue)
    BY <1>12, <1>a, <1>b, <2>1 DEF WriteAheadSaved, Latest, SeqInv, SaveInv
  <2> QED
    BY <1>12, <1>c, <2>1, <2>2 DEF WriteAheadSaved, SaveInv
<1>13. CASE WriteAheadFails
  <2>1. /\ faults' # 0 /\ phase' = "run" /\ saving' = NoWriteAhead
        /\ UNCHANGED <<disk, watch, writing>>
    BY <1>13, <1>a DEF WriteAheadFails, SaveFails
  <2> QED
    BY <1>c, <2>1 DEF SaveInv
<1>14. CASE UNCHANGED <<loopVars, storeVars, faults>>
  BY <1>14 DEF SaveInv, Latest
<1>15. ASSUME NEW S \in SUBSET Ops, NEW force \in BOOLEAN, Enqueue(S, force) PROVE SaveInv'
  BY <1>7, <1>15 DEF Enqueue, Idle
<1>16. ASSUME NEW o \in Ops, Dequeue(o) \/ QueueOpStatusChanged(o) PROVE SaveInv'
  BY <1>7, <1>16 DEF Dequeue, QueueOpStatusChanged, Idle
<1>17. CASE GarbageCollect
  BY <1>7, <1>17 DEF GarbageCollect, Idle
<1>18. ASSUME NEW o \in Ops, TaskStep(o) PROVE SaveInv'
  BY <1>14, <1>18 DEF TaskStep, Register, RequestFails, RequestSent, VerdictReceived, TimesOut,
                      Unregister, RefuseOp, CallProxmox, CallReturns
<1>19. ASSUME NEW o \in Ops, NEW a \in Approvers, NEW approve \in BOOLEAN,
              Callback(o, a, approve) PROVE SaveInv'
  BY <1>14, <1>19 DEF Callback
<1>20. CASE Tick
  BY <1>20 DEF Tick, SaveInv, Latest
<1>21. CASE UNCHANGED vars
  BY <1>14, <1>21 DEF vars
<1> QED
  BY <1>2, <1>3, <1>4, <1>5, <1>6, <1>8, <1>9, <1>10, <1>11, <1>12, <1>13, <1>15, <1>16,
     <1>17, <1>18, <1>19, <1>20, <1>21 DEF Next

----------------------------------------------------------------------------
(* Counting, for the sweep.                                                *)

\* A nonempty set of numbers has a least one.
LEMMA LeastNumber ==
    ASSUME NEW T \in SUBSET Nat, T # {}
    PROVE  \E x \in T : \A y \in T : x <= y
<1> DEFINE R == {ss \in Nat \X Nat : ss[1] < ss[2]}
<1>1. IsWellFoundedOn(R, Nat)
  BY NatLessThanWellFounded, Zenon DEF OpToRel
<1>2. \A x, y \in Nat : <<y, x>> \in R <=> y < x
  OBVIOUS
<1> HIDE DEF R
<1>3. PICK x \in T : \A y \in T : ~(<<y, x>> \in R)
  BY <1>1, WFMin
<1>4. ASSUME NEW y \in T PROVE x <= y
  <2>1. x \in Nat /\ y \in Nat
    OBVIOUS
  <2>2. ~(y < x)
    BY <1>2, <1>3, <2>1, Zenon
  <2> QED
    BY <2>1, <2>2
<1> QED
  BY <1>4

\* The entries of S up to o.
Upto(S, o) == {p \in S : p <= o}

\* A later entry has more entries before it.
LEMMA UptoFacts ==
    ASSUME NEW S \in SUBSET Nat, IsFiniteSet(S), NEW o \in S
    PROVE  /\ IsFiniteSet(Upto(S, o)) /\ Cardinality(Upto(S, o)) \in 1..Cardinality(S)
           /\ \A p \in S : o < p => Cardinality(Upto(S, o)) < Cardinality(Upto(S, p))
<1>1. ASSUME NEW p \in S
      PROVE  /\ IsFiniteSet(Upto(S, p)) /\ Cardinality(Upto(S, p)) \in Nat
             /\ Cardinality(Upto(S, p)) <= Cardinality(S)
  <2>1. Upto(S, p) \in SUBSET S
    BY DEF Upto
  <2>2. IsFiniteSet(Upto(S, p)) /\ Cardinality(Upto(S, p)) <= Cardinality(S)
    BY <2>1, FS_Subset
  <2> QED
    BY <2>2, FS_CardinalityType
<1>2. Cardinality(Upto(S, o)) # 0
  <2>1. o \in Upto(S, o)
    BY DEF Upto
  <2> QED
    BY <1>1, <2>1, FS_EmptySet
<1>3. ASSUME NEW p \in S, o < p PROVE Cardinality(Upto(S, o)) < Cardinality(Upto(S, p))
  <2>0. p <= p /\ ~(p <= o) /\ \A x \in S : x <= o => x <= p
    BY <1>3
  <2>1. Upto(S, o) \in SUBSET Upto(S, p) /\ p \in Upto(S, p) /\ p \notin Upto(S, o)
    BY <2>0, Zenon DEF Upto
  <2>2. /\ Cardinality(Upto(S, o)) <= Cardinality(Upto(S, p))
        /\ Cardinality(Upto(S, p)) # Cardinality(Upto(S, o))
    BY <1>1, <2>1, FS_Subset
  <2> QED
    BY <1>1, <2>2
<1> QED
  BY <1>1, <1>2, <1>3, FS_CardinalityType

\* Oldest, in these terms.
LEMMA OldestDef == \A S, n : Oldest(S, n) = {o \in S : Cardinality(Upto(S, o)) <= n}
  BY DEF Oldest, Upto

\* Oldest takes a beginning of the set.
LEMMA OldestFirst ==
    ASSUME NEW S \in SUBSET Nat, IsFiniteSet(S), NEW n \in Int,
           NEW o \in Oldest(S, n), NEW p \in S \ Oldest(S, n)
    PROVE  o < p
<1>1. /\ o \in S /\ Cardinality(Upto(S, o)) <= n
      /\ ~(Cardinality(Upto(S, p)) <= n)
  BY OldestDef
<1>2. p # o /\ ~(p < o)
  BY <1>1, UptoFacts
<1> QED
  BY <1>1, <1>2

\* Oldest takes as many as it is asked for.
LEMMA OldestCount ==
    ASSUME NEW S \in SUBSET Nat, IsFiniteSet(S), NEW n \in 0..Cardinality(S)
    PROVE  Cardinality(Oldest(S, n)) = n
<1> DEFINE T == {k \in Nat : k <= Cardinality(S) /\ Cardinality(Oldest(S, k)) # k}
<1>0. Cardinality(S) \in Nat
  BY FS_CardinalityType
<1>1. SUFFICES ASSUME T # {} PROVE FALSE
  BY <1>0
<1>2. PICK k \in T : \A j \in T : k <= j
  BY <1>1, LeastNumber
<1>3. k \in Nat /\ k <= Cardinality(S) /\ Cardinality(Oldest(S, k)) # k
  OBVIOUS
<1>4. k # 0
  <2>1. Oldest(S, 0) = {}
    <3>1. \A o \in S : ~(Cardinality(Upto(S, o)) <= 0)
      BY <1>0, UptoFacts
    <3> QED
      BY <3>1, OldestDef, Zenon
  <2> QED
    BY <1>3, <2>1, FS_EmptySet
<1> DEFINE j == k - 1
<1>5. j \in Nat /\ Cardinality(Oldest(S, j)) = j /\ j < Cardinality(S)
  BY <1>0, <1>2, <1>3, <1>4
<1> HIDE DEF T, j
<1>6. Oldest(S, j) \in SUBSET S /\ IsFiniteSet(Oldest(S, j))
  <2>1. Oldest(S, j) \in SUBSET S
    BY DEF Oldest
  <2> QED
    BY <2>1, FS_Subset
<1>7. S \ Oldest(S, j) # {}
  BY <1>0, <1>5, <1>6
<1>8. PICK m \in S \ Oldest(S, j) : \A y \in S \ Oldest(S, j) : m <= y
  BY <1>7, LeastNumber
<1>9. Upto(S, m) = Oldest(S, j) \cup {m}
  <2>1. \A p \in Oldest(S, j) : p \in S /\ p < m
    BY <1>5, <1>6, OldestFirst
  <2>2. \A p \in S : p <= m => p \in Oldest(S, j) \/ p = m
    BY <1>8
  <2>3. m <= m /\ m \in S
    OBVIOUS
  <2>4. ASSUME NEW p \in Oldest(S, j) PROVE p \in S /\ p <= m
    <3>1. p \in Nat /\ m \in Nat /\ p < m
      BY <1>6, <2>1
    <3> QED
      BY <1>6, <3>1
  <2> QED
    BY <2>2, <2>3, <2>4, Zenon DEF Upto
<1>10. Cardinality(Upto(S, m)) = k
  <2> DEFINE O == Oldest(S, j)
  <2>1. IsFiniteSet(O) /\ m \notin O /\ Cardinality(O) = j
    BY <1>5, <1>6
  <2> HIDE DEF O
  <2>2. Cardinality(O \cup {m}) = j + 1
    BY <2>1, FS_AddElement
  <2> QED
    BY <1>3, <1>9, <2>2 DEF O, j
<1>11. Oldest(S, k) = Upto(S, m)
  <2>1. ASSUME NEW p \in S PROVE Cardinality(Upto(S, p)) <= k <=> p <= m
    <3>1. p < m => Cardinality(Upto(S, p)) < Cardinality(Upto(S, m))
      BY UptoFacts
    <3>2. m < p => Cardinality(Upto(S, m)) < Cardinality(Upto(S, p))
      BY UptoFacts
    <3>3. Cardinality(Upto(S, p)) \in Nat
      BY UptoFacts
    <3> QED
      BY <1>3, <1>10, <3>1, <3>2, <3>3
  <2> QED
    BY <2>1, OldestDef DEF Upto
<1> QED
  BY <1>3, <1>10, <1>11

\* Entries that are given up: how many are left, and in which order they go.
LEMMA DropFacts ==
    ASSUME NEW S \in SUBSET Nat, IsFiniteSet(S), NEW D \in SUBSET S, NEW h \in Nat
    PROVE  LET n == Cardinality(S) - h
               L == S \ Oldest(D, n)
           IN  /\ Cardinality(L) <= h \/ L \cap D = {}
               /\ D = S => Cardinality(L) <= h
               /\ Oldest(D, n) # {} => Cardinality(S) > h
<1> DEFINE n == Cardinality(S) - h
           L == S \ Oldest(D, n)
<1>1. IsFiniteSet(D) /\ Cardinality(D) \in Nat /\ Cardinality(S) \in Nat /\ Cardinality(D) <= Cardinality(S)
  BY FS_Subset, FS_CardinalityType
<1>2. Oldest(D, n) \in SUBSET D
  BY DEF Oldest
<1>3. IsFiniteSet(L) /\ Cardinality(L) \in Nat /\ Cardinality(L) <= Cardinality(S)
  <2>1. L \in SUBSET S
    OBVIOUS
  <2> QED
    BY <2>1, FS_Subset, FS_CardinalityType
<1> HIDE DEF L
<1>4. CASE n \in 0..Cardinality(D)
  <2>1. Cardinality(Oldest(D, n)) = n
    BY <1>1, <1>4, OldestCount
  <2>2. S \cap Oldest(D, n) = Oldest(D, n)
    BY <1>2
  <2>3. Cardinality(L) = Cardinality(S) - n
    <3> DEFINE O == Oldest(D, n)
    <3>1. Cardinality(S \cap O) = n /\ L = S \ O
      BY <2>1, <2>2 DEF L
    <3> HIDE DEF O
    <3>2. Cardinality(S \ O) = Cardinality(S) - Cardinality(S \cap O)
      BY FS_Difference
    <3> QED
      BY <3>1, <3>2
  <2>4. Cardinality(L) <= h
    BY <1>1, <2>3
  <2>5. Oldest(D, n) # {} => n > 0
    BY <1>4, <2>1, FS_EmptySet, <1>1, <1>2, FS_Subset
  <2> QED
    BY <1>1, <2>4, <2>5 DEF L
<1>5. CASE n < 0
  <2>1. Oldest(D, n) = {}
    <3>1. \A o \in D : Cardinality(Upto(D, o)) \in 1..Cardinality(D)
      BY <1>1, UptoFacts
    <3>2. \A o \in D : ~(Cardinality(Upto(D, o)) <= n)
      BY <1>1, <1>5, <3>1
    <3> QED
      BY <3>2, OldestDef, Zenon
  <2>2. Cardinality(L) <= h
    BY <1>1, <1>3, <1>5
  <2> QED
    BY <2>1, <2>2 DEF L
<1>6. CASE n > Cardinality(D)
  <2>1. \A o \in D : Cardinality(Upto(D, o)) \in 1..Cardinality(D)
    BY <1>1, UptoFacts
  <2>2. D \subseteq Oldest(D, n)
    BY <1>1, <1>6, <2>1, OldestDef
  <2>3. D # S
    BY <1>1, <1>6
  <2>4. L \cap D = {}
    BY <2>2 DEF L
  <2>5. Cardinality(S) > h
    BY <1>1, <1>6
  <2> QED
    BY <2>3, <2>4, <2>5 DEF L
<1> QED
  BY <1>1, <1>4, <1>5, <1>6 DEF L

\* The sweep leaves at most HardCap entries, and gives up a Pending one only
\* when nothing but younger Pending ones is left.
LEMMA SweepSpares ==
    ASSUME NEW q \in Rows
    PROVE  /\ Cardinality(Present(garbage_collect(q))) <= HardCap
           /\ \A o \in Ops : q[o] = "Pending" /\ garbage_collect(q)[o] = "absent" =>
                \A p \in Present(garbage_collect(q)) : q[p] = "Pending" /\ o < p
<1>0. HardCap \in Nat /\ Ops \in SUBSET Nat /\ "absent" \in Statuses
  BY BoundsAssumption, OpsAssumption DEF Statuses
<1>1. ASSUME NEW f \in Rows PROVE Present(f) \in SUBSET Nat /\ IsFiniteSet(Present(f))
  <2>1. Present(f) \in SUBSET Ops
    BY DEF Present
  <2> QED
    BY <1>0, <2>1, OpsAssumption, FS_Subset
<1>2. ASSUME NEW f \in Rows, NEW D \in SUBSET Present(f)
      PROVE  /\ With(f, D, "absent") \in Rows
             /\ Present(With(f, D, "absent")) = Present(f) \ D
             /\ \A o \in Ops \ D : With(f, D, "absent")[o] = f[o]
  <2>1. With(f, D, "absent") \in Rows /\ \A o \in Ops :
          With(f, D, "absent")[o] = IF o \in D THEN "absent" ELSE f[o]
    BY <1>0, WithFacts
  <2> QED
    BY <2>1 DEF Present
<1> DEFINE Same(f, g) == /\ g \in Rows
                         /\ \A o \in Ops : /\ g[o] \in {f[o], "absent"}
                                           /\ f[o] = "Pending" => g[o] = "Pending"
           q2 == CapErrors(DropStaleSuccess(q))
           q3 == CapRest(q2)
           q4 == garbage_collect(q)
<1>3. ASSUME NEW f \in Rows, NEW S, \A o \in S : f[o] # "Pending"
      PROVE  Same(f, With(f, S, "absent"))
  BY <1>0, <1>3, WithFacts
<1>4. Same(q, q2)
  <2>1. Same(q, DropStaleSuccess(q))
    BY <1>3 DEF DropStaleSuccess
  <2>2. Same(DropStaleSuccess(q), q2)
    BY <1>3, <2>1 DEF CapErrors, Oldest, Errors
  <2> QED
    BY <2>1, <2>2
<1> HIDE DEF q2
<1> DEFINE done == {o \in Present(q2) : q2[o] # "Pending"}
<1>5. /\ Same(q2, q3) /\ Present(q3) \subseteq Present(q2)
      /\ Cardinality(Present(q3)) <= HardCap \/ \A p \in Present(q3) : q2[p] = "Pending"
  <2> DEFINE D == Oldest(done, Cardinality(Present(q2)) - HardCap)
  <2>1. q3 = With(q2, D, "absent") /\ D \in SUBSET done /\ done \in SUBSET Present(q2)
    BY DEF CapRest, Oldest
  <2>2. Same(q2, q3)
    BY <1>3, <1>4, <2>1
  <2>3. Present(q3) = Present(q2) \ D
    BY <1>2, <1>4, <2>1
  <2>4. Cardinality(Present(q2) \ D) <= HardCap \/ (Present(q2) \ D) \cap done = {}
    BY <1>0, <1>1, <1>4, <2>1, DropFacts
  <2> QED
    BY <2>2, <2>3, <2>4
<1> HIDE DEF q3
<1>6. /\ q4 \in Rows /\ Cardinality(Present(q4)) <= HardCap
      /\ Present(q4) \subseteq Present(q3)
      /\ \A o \in Present(q3) : q4[o] = "absent" =>
           Cardinality(Present(q3)) > HardCap /\ \A p \in Present(q4) : o < p
  <2> DEFINE n == Cardinality(Present(q3)) - HardCap
             D == Oldest(Present(q3), n)
  <2>1. q4 = With(q3, D, "absent") /\ D \in SUBSET Present(q3)
    BY DEF garbage_collect, CapAll, Oldest, q3, q2
  <2>2. q4 \in Rows /\ Present(q4) = Present(q3) \ D
    BY <1>2, <1>5, <2>1
  <2>3. Cardinality(Present(q3) \ D) <= HardCap /\ (D # {} => Cardinality(Present(q3)) > HardCap)
    BY <1>0, <1>1, <1>5, DropFacts
  <2>4. n \in Int /\ Present(q3) \in SUBSET Nat /\ IsFiniteSet(Present(q3))
    BY <1>0, <1>1, <1>5, FS_CardinalityType
  <2>5. \A o \in D, p \in Present(q3) \ D : o < p
    BY <2>4, OldestFirst
  <2>6. \A o \in Present(q3) : q4[o] = "absent" => o \in D
    BY <2>2 DEF Present
  <2> QED
    BY <2>2, <2>3, <2>5, <2>6
<1> HIDE DEF q4
<1>7. ASSUME NEW o \in Ops, q[o] = "Pending", q4[o] = "absent", NEW p \in Present(q4)
      PROVE  q[p] = "Pending" /\ o < p
  <2>1. q3[o] = "Pending" /\ o \in Present(q3)
    BY <1>4, <1>5, <1>7 DEF Present
  <2>2. o < p /\ Cardinality(Present(q3)) > HardCap
    BY <1>6, <1>7, <2>1
  <2>3. q2[p] = "Pending" /\ p \in Ops
    BY <1>0, <1>1, <1>5, <1>6, <2>2, FS_CardinalityType DEF Present
  <2> QED
    BY <1>4, <2>2, <2>3
<1> QED
  BY <1>6, <1>7 DEF q4

----------------------------------------------------------------------------
(* What the invariant gives.                                               *)

\* Only the execute_queue task, at CallProxmox, sends anything.
LEMMA OnlyCallsSend ==
    ASSUME TypeOK, [Next]_vars, NEW o \in Ops, sent'[o] # sent[o]
    PROVE  CallProxmox(o)
<1> USE DEF pveVars, vars
<1>1. ASSUME NEW p \in Ops, CallProxmox(p) PROVE p = o
  BY <1>1 DEF CallProxmox, TypeOK, WorldTypes
<1>2. CASE Start \/ Crash \/ Quit \/ Exit \/ Return
  BY <1>2 DEF Start, Crash, Quit, Exit, Return, OpenQueue, ProcessGone
<1>3. CASE Flush \/ GarbageCollect \/ ExecuteQueue \/ Tick
  BY <1>3 DEF Flush, GarbageCollect, ExecuteQueue, Tick
<1>4. CASE WriterTakes \/ WriterSaves \/ WriteAheadSaved \/ WriteAheadFails
  BY <1>4 DEF WriterTakes, WriterSaves, WriteAheadSaved, WriteAheadFails
<1>5. CASE \E S \in SUBSET Ops, force \in BOOLEAN : Enqueue(S, force)
  BY <1>5 DEF Enqueue
<1>6. CASE \E p \in Ops : Dequeue(p) \/ ApprovalReceived(p) \/ QueueOpStatusChanged(p)
  BY <1>6 DEF Dequeue, ApprovalReceived, QueueOpStatusChanged
<1>7. CASE \E p \in Ops, a \in Approvers, approve \in BOOLEAN : Callback(p, a, approve)
  BY <1>7 DEF Callback
<1>8. ASSUME NEW p \in Ops, TaskStep(p), ~CallProxmox(p) PROVE FALSE
  BY <1>8 DEF TaskStep, Register, RequestFails, RequestSent, VerdictReceived, TimesOut,
              Unregister, RefuseOp, CallReturns
<1> QED
  BY <1>1, <1>2, <1>3, <1>4, <1>5, <1>6, <1>7, <1>8 DEF Next

\* Every reachable state of the queue, its snapshots, its tasks and the
\* coordinator is well typed.
THEOREM QueueTypes == Spec => []TypeOK
  BY TypeInit, TypeStep, PTL DEF Spec

\* The invariant of the queue holds in every reachable state, for every number
\* of operations, sessions, presses, approvers and database errors.
THEOREM QueueInvariance == Spec => []QueueInv
  BY QueueTypes, InvInit, InvStep, PTL DEF Spec

\* A queued operation reaches Proxmox at most once: neither a crash between the
\* write-ahead and the answer, nor an older snapshot saved late, nor another
\* press of C runs it again.
THEOREM QueueSendsOnce == Spec => []SentAtMostOnce
<1>1. QueueInv => SentAtMostOnce
  BY DEF QueueInv, TaskInv, InOnePlace, SentAtMostOnce
<1> QED
  BY <1>1, QueueInvariance, PTL

\* The statuses on screen and on disk agree with what Proxmox saw.
THEOREM QueueStatusTrue == Spec => []QueueTellsTruth
<1>1. QueueInv => QueueTellsTruth
  BY DEF QueueInv, PendingInv, SafelyPending, TruthInv, Tells, Untouched, QueueTellsTruth
<1> QED
  BY <1>1, QueueInvariance, PTL

\* The execute_queue task calls Proxmox for an op only after the approvers its
\* policy asks for pressed Approve.
THEOREM QueueCallsApproved == Spec => CallsAreApproved
<1>1. TypeOK /\ QueueInv /\ [Next]_vars
        => [\A o \in Ops : sent'[o] # sent[o] => Cardinality(pressed[o]) >= Require[o]]_vars
  <2> SUFFICES ASSUME TypeOK, QueueInv, [Next]_vars, NEW o \in Ops, sent'[o] # sent[o]
               PROVE  Cardinality(pressed[o]) >= Require[o]
    OBVIOUS
  <2>1. CallProxmox(o)
    BY OnlyCallsSend
  <2> QED
    BY <2>1 DEF CallProxmox, MyTurn, QueueInv, GateInv, PastGate, Approved
<1> QED
  BY <1>1, QueueTypes, QueueInvariance, PTL DEF Spec, CallsAreApproved

\* A guest with a Severe preflight risk is touched only when the user of the
\* running session forced the operation.
THEOREM QueueGlass == Spec => GlassBreaksOnce
<1>1. TypeOK /\ QueueInv /\ [Next]_vars
        => [\A o \in Severe : sent'[o] # sent[o] => o \in glass]_vars
  <2> SUFFICES ASSUME TypeOK, QueueInv, [Next]_vars, NEW o \in Severe, sent'[o] # sent[o]
               PROVE  o \in glass
    OBVIOUS
  <2>1. CallProxmox(o)
    BY OnlyCallsSend, KindsAssumption
  <2> QED
    BY <2>1 DEF CallProxmox, PreflightAllows, QueueInv
<1> QED
  BY <1>1, QueueTypes, QueueInvariance, PTL DEF Spec, GlassBreaksOnce

\* Whatever the queue sends is allowed: approved as its policy asks, and forced
\* by the user of this session where its preflight found a Severe risk.
THEOREM QueueCallsAllowed == Spec => CallsAreAllowed
  BY QueueCallsApproved, QueueGlass, PTL DEF CallsAreAllowed

\* While a task asks, its entry in the coordinator expires first; an op that was
\* approved is past asking.  It holds because the entry lives no longer than the
\* task waits (WaitAssumption).
THEOREM QueueAsks == Spec => []AskInv
  BY QueueTypes, QueueInvariance, AskInit, AskStep, PTL DEF Spec

\* Approvers who read "Approved" are never contradicted by the timeout of the
\* task that asked them.
THEOREM QueueNotTimedOut == Spec => []ApprovedIsNotTimedOut
<1>1. TypeOK /\ AskInv => ApprovedIsNotTimedOut
  BY DEF TypeOK, WorldTypes, AskInv, Asked, ApprovedIsNotTimedOut
<1> QED
  BY <1>1, QueueTypes, QueueAsks, PTL

\* As long as no write failed, a queue that is not dirty is what its newest
\* snapshot says, whichever of the writer and the write-ahead has it.
THEOREM QueueSaves == Spec => []SaveInv
<1>1. QueueInv => SeqInv
  BY DEF QueueInv
<1> QED
  BY <1>1, QueueTypes, QueueInvariance, SaveInit, SaveStep, PTL DEF Spec

\* A clean exit, or a return from another profile, finds on disk the queue the
\* session left.
THEOREM QueueExitSaves == Spec => CleanExitSaves
<1>1. TypeOK /\ SaveInv
        => [Exit \/ Return => faults > 0 \/ Restored(disk) = Restored(Persisted(op_queue))]_vars
  <2> SUFFICES ASSUME TypeOK, SaveInv, Exit \/ Return, ~(faults > 0)
               PROVE  Restored(disk) = Restored(Persisted(op_queue))
    OBVIOUS
  <2>1. faults = 0 /\ written \in Nat /\ disk \in Rows /\ op_queue \in Rows
    BY DEF TypeOK, WorldTypes, StoreTypes, LoopTypes, Rows
  <2>2. phase = "closing" /\ watch = NoSnapshot /\ writing = NoSnapshot
    BY DEF Exit, Return, WriterDone
  <2>3. Latest = disk
    BY <2>1, <2>2 DEF Latest, NoSnapshot
  <2>4. \A o \in Ops : AfterRestart(disk[o]) = AfterRestart(Persisted(op_queue)[o])
    BY <2>1, <2>2, <2>3 DEF SaveInv
  <2> QED
    BY <2>4 DEF Restored, AfterRestart
<1> QED
  BY <1>1, QueueTypes, QueueSaves, PTL DEF CleanExitSaves

\* The sweep of the queue leaves at most HardCap entries and gives up the oldest
\* Pending ones only when nothing else is left, for every queue and every cap.
THEOREM QueueSweeps == Spec => SweepSparesPending
<1>1. TypeOK
        => [GarbageCollect =>
              /\ Cardinality(Present(op_queue')) <= HardCap
              /\ \A o \in Executable : op_queue'[o] = "absent" =>
                    \A p \in Present(op_queue') : op_queue[p] = "Pending" /\ o < p]_vars
  <2> SUFFICES ASSUME TypeOK, GarbageCollect
               PROVE  /\ Cardinality(Present(op_queue')) <= HardCap
                      /\ \A o \in Executable : op_queue'[o] = "absent" =>
                           \A p \in Present(op_queue') : op_queue[p] = "Pending" /\ o < p
    OBVIOUS
  <2>1. op_queue \in Rows /\ op_queue' = garbage_collect(op_queue)
    BY DEF TypeOK, LoopTypes, Rows, GarbageCollect
  <2> QED
    BY <2>1, SweepSpares DEF Executable
<1> QED
  BY <1>1, QueueTypes, PTL DEF SweepSparesPending

\* No pending operation is lost by an exit, a profile switch or the sweep.
THEOREM QueuePendingKept == Spec => PendingIsKept
  BY QueueExitSaves, QueueSweeps, PTL DEF PendingIsKept
============================================================================
