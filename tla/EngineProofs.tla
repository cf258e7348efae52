---------------------------- MODULE EngineProofs ----------------------------
(* Types, the inductive invariant of Engine and what follows from it, for every *)
(* set of jobs and every bound. *)
EXTENDS Engine, FiniteSetTheorems, TLAPS

\* The rows the engine makes are rows.
LEMMA RowTypes ==
    /\ NoRow \in Row /\ NewRow \in Row /\ Idle \in Entry
    /\ \A row \in Row : /\ Struck(row) \in Row /\ Undispatched(row) \in Row
                        /\ RetryRow(row) \in Row /\ SameAttempt(row) \in Row
  BY DEF Row, NoRow, NewRow, Idle, Entry, Stages,
         Struck, Undispatched, RetryRow, SameAttempt

LEMMA InitType == Init => TypeOK
  BY ConstantsAssumption, RowTypes
  DEF Init, TypeOK, EmptyQueue, NoEntries, Errors, Phases

\* The pieces the actions are made of.
LEMMA CrashPhaseType ==
    ASSUME TypeOK, NEW u \in Uid, phase \in {"running", "crashing", "unwinding", "aborting"}
    PROVE  CrashPhase(u) \in {"crashing", "unwinding", "aborting"}
  BY DEF TypeOK, CrashPhase

LEMMA SpendType ==
    ASSUME TypeOK, NEW what \in Budgets, NEW n \in Nat, Spend(what, n)
    PROVE  left' \in [Budgets -> Nat]
  BY DEF TypeOK, Spend


DiskType ==
    /\ dq \in [Uid -> Row] /\ dsucc \subseteq Uid /\ dfail \in [Uid -> Errors]
    /\ owed \subseteq Uid

MemoryType ==
    /\ snap \in [Uid -> Row] /\ mq \in [Uid -> Row]
    /\ msucc \subseteq Uid /\ mfail \subseteq Uid /\ tskip \subseteq Uid
    /\ ent \in [Uid -> Entry]
    /\ casc \subseteq Uid \X {"crashing", "unwinding", "aborting"}

WorldType ==
    /\ phase \in Phases /\ stop \in {"none", "draining", "aborting"}
    /\ orphans \subseteq Uid /\ left \in [Budgets -> Nat]

LEMMA Types == TypeOK <=> DiskType /\ MemoryType /\ WorldType
  BY DEF TypeOK, DiskType, MemoryType, WorldType

LEMMA TypesNext == TypeOK' <=> DiskType' /\ MemoryType' /\ WorldType'
  BY DEF TypeOK, DiskType, MemoryType, WorldType

LEMMA EntryRows == ASSUME TypeOK, NEW u \in Uid PROVE ent[u].row \in Row
  BY DEF TypeOK, Entry

LEMMA CommitFailureType ==
    ASSUME TypeOK, NEW us, NEW why \in Errors, CommitFailure(us, why)
    PROVE  DiskType'
  BY RowTypes DEF TypeOK, DiskType, CommitFailure

LEMMA RequeueType ==
    ASSUME TypeOK, NEW u \in Uid, NEW row \in Row, Requeue(u, row)
    PROVE  MemoryType'
  BY RowTypes DEF TypeOK, MemoryType, Requeue

LEMMA MarkFailedType ==
    ASSUME TypeOK, NEW u \in Uid, NEW cascade, MarkFailed(u, cascade),
           cascade \subseteq Uid \X {"crashing", "unwinding", "aborting"}
    PROVE  MemoryType'
  BY RowTypes DEF TypeOK, MemoryType, MarkFailed

LEMMA RequeueAndCrashType ==
    ASSUME TypeOK, NEW u \in Uid, NEW row \in Row, RequeueAndCrash(u, row),
           phase \in {"running", "crashing", "unwinding", "aborting"}
    PROVE  DiskType' /\ MemoryType' /\ phase' \in Phases
  <1>1. MemoryType' BY RequeueType DEF RequeueAndCrash
  <1>2. DiskType' BY DEF RequeueAndCrash, disk, TypeOK, DiskType
  <1>3. phase' \in Phases BY CrashPhaseType DEF RequeueAndCrash, Phases
  <1> QED BY <1>1, <1>2, <1>3

LEMMA StrikeType ==
    ASSUME TypeOK, NEW u \in Uid, NEW row \in Row, NEW n \in Nat, Strike(u, row, n),
           phase \in {"running", "crashing", "unwinding", "aborting"}
    PROVE  DiskType' /\ MemoryType' /\ phase' \in Phases /\ left' \in [Budgets -> Nat]
  <1>1. left' \in [Budgets -> Nat] BY SpendType DEF Strike, Budgets
  <1>2. CASE RequeueAndCrash(u, Struck(row))
    BY <1>1, <1>2, RowTypes, RequeueAndCrashType
  <1>3. CASE CommitFailure({u}, "commit") /\ MarkFailed(u, {}) /\ UNCHANGED phase
    BY <1>1, <1>3, CommitFailureType, MarkFailedType DEF Errors, TypeOK
  <1> QED BY <1>2, <1>3 DEF Strike

LEMMA ArchiveType ==
    ASSUME TypeOK, NEW u \in Uid, NEW row \in Row, NEW why \in Errors,
           Archive(u, row, why),
           phase \in {"running", "crashing", "unwinding", "aborting"}
    PROVE  DiskType' /\ MemoryType' /\ phase' \in Phases /\ left' \in [Budgets -> Nat]
  <1>1. CASE Strike(u, row, 1) BY <1>1, StrikeType
  <1>2. CASE /\ CommitFailure({u}, why)
             /\ MarkFailed(u, {<<u, CrashPhase(u)>>})
             /\ UNCHANGED <<phase, left>>
    <2>1. {<<u, CrashPhase(u)>>} \subseteq Uid \X {"crashing", "unwinding", "aborting"}
      BY CrashPhaseType
    <2> QED BY <1>2, <2>1, CommitFailureType, MarkFailedType DEF TypeOK
  <1> QED BY <1>1, <1>2 DEF Archive

LEMMA BulkFailureType ==
    ASSUME TypeOK, NEW us \in SUBSET Uid, NEW why \in Errors, NEW crash \in Phases,
           BulkFailure(us, why, crash)
    PROVE  DiskType' /\ MemoryType' /\ phase' \in Phases /\ left' \in [Budgets -> Nat]
  <1>1. CASE BulkCommitted(us, why)
    <2>1. MemoryType' BY <1>1, RowTypes DEF BulkFailure, BulkCommitted, TypeOK, MemoryType
    <2> QED BY <1>1, <2>1, CommitFailureType DEF BulkCommitted, TypeOK
  <1> DEFINE due == {u \in us : mq[u].cf + 1 >= Threshold}
  <1>2. ASSUME NEW archived \in SUBSET due,
               Spend("fault", 1 + Cardinality(due \ archived)),
               CommitFailure(archived, "commit"),
               mq' = [u \in Uid |-> IF u \in archived THEN NoRow
                                    ELSE IF u \in us THEN Struck(mq[u]) ELSE mq[u]],
               msucc' = msucc \ archived,
               mfail' = mfail \cup archived,
               tskip' = tskip \ archived,
               phase' = IF us = archived THEN phase ELSE crash
        PROVE  DiskType' /\ MemoryType' /\ phase' \in Phases /\ left' \in [Budgets -> Nat]
    <2>0. archived \subseteq Uid /\ due \ archived \in SUBSET Uid OBVIOUS
    <2> HIDE DEF due
    <2>1. IsFiniteSet(due \ archived)
      BY <2>0, ConstantsAssumption, FS_Subset
    <2>2. 1 + Cardinality(due \ archived) \in Nat
      BY <2>1, FS_CardinalityType
    <2>3. left' \in [Budgets -> Nat]
      BY <1>2, <2>2, SpendType DEF Budgets
    <2>4. mq' \in [Uid -> Row] BY <1>2, RowTypes DEF TypeOK
    <2>5. MemoryType' BY <1>2, <2>0, <2>4 DEF BulkFailure, TypeOK, MemoryType
    <2> QED BY <1>2, <2>3, <2>5, CommitFailureType DEF Errors, TypeOK
  <1> QED BY <1>1, <1>2 DEF BulkFailure, BulkStruck

LEMMA GoDownType ==
    ASSUME TypeOK, GoDown
    PROVE  MemoryType' /\ phase' \in Phases /\ stop' \in {"none", "draining", "aborting"}
  BY RowTypes DEF GoDown, MemoryType, EmptyQueue, NoEntries, Phases

\* Facts about the sets of jobs the actions quantify over.
LEMMA DownstreamType == \A f, Q : Downstream(f, Q) \subseteq Q
  BY DEF Downstream

LEMMA CulpritsType == \A us \in Culprits : us \subseteq Uid
  BY DownstreamType DEF Culprits, Queued

LEMMA MergeType ==
    ASSUME NEW p \in [Uid -> Row], NEW q \in [Uid -> Row]
    PROVE  Merge(p, q) \in [Uid -> Row]
  BY DEF Merge

\* Each action keeps the types.
LEMMA TypeStep == TypeOK /\ [Next]_vars => TypeOK'
  <1> SUFFICES ASSUME TypeOK, [Next]_vars PROVE TypeOK'
    OBVIOUS
  <1> USE RowTypes
  <1>1. ASSUME NEW u \in Uid, Enqueue(u) PROVE TypeOK'
    <2>1. left' \in [Budgets -> Nat] BY <1>1, SpendType DEF Enqueue, Budgets
    <2> QED BY <1>1, <2>1 DEF Enqueue, TypeOK, memory
  <1>2. ASSUME Load PROVE TypeOK'
    BY <1>2 DEF Load, TypeOK, Phases, DFailed
  <1>3. ASSUME RepairQueue PROVE TypeOK'
    <2>1. left' \in [Budgets -> Nat]
      BY <1>3, SpendType DEF RepairQueue, Budgets, TypeOK
    <2>2. mq' \in [Uid -> Row]
      BY <1>3, MergeType DEF RepairQueue, TypeOK
    <2> QED BY <1>3, <2>1, <2>2 DEF RepairQueue, TypeOK, disk, Phases, EmptyQueue
  <1>4. ASSUME NEW u \in Uid, Dispatch(u) PROVE TypeOK'
    <2>1. PICK stage \in Stages : Pop(u, stage)
      BY <1>4 DEF Dispatch, PopDepFailed, PopSkip, PopRun, Stages
    <2> QED BY <2>1 DEF Pop, TypeOK, disk, Entry
  <1>5. ASSUME NEW u \in Uid, DispatchRaises(u) PROVE TypeOK'
    <2>1. left' \in [Budgets -> Nat] BY <1>5, SpendType DEF DispatchRaises, Budgets
    <2> QED BY <1>5, <2>1 DEF DispatchRaises, TypeOK, disk, memory, Phases
  <1>6. ASSUME NEW u \in Uid, Resolve(u) PROVE TypeOK'
    <2> DEFINE row == ent[u].row
    <2>0. row \in Row /\ Undispatched(row) \in Row BY EntryRows
    <2> HIDE DEF row
    <2>1. phase = "running" /\ UNCHANGED <<stop, orphans>>
      BY <1>6 DEF Resolve, Skip, RejectDepFailed, RejectNoHandler, Defer, RejectPayload,
                  DispatchFailure, Start, Opened
    <2>2. CASE Skip(u)
      <3>1. CASE Spend("fault", 1) /\ RequeueAndCrash(u, row)
        BY <2>0, <2>1, <3>1, SpendType, RequeueAndCrashType, TypesNext DEF Budgets, TypeOK, WorldType
      <3>2. CASE /\ CommitSkip(u)
                 /\ ent' = [ent EXCEPT ![u] = Idle]
                 /\ tskip' = tskip \cup {u}
                 /\ UNCHANGED <<snap, mq, msucc, mfail, casc, phase, left>>
        BY <2>1, <3>2 DEF CommitSkip, TypeOK
      <3> QED BY <2>2, <3>1, <3>2 DEF Skip, row
    <2>3. CASE \E why \in Errors : Archive(u, row, why)
      BY <2>0, <2>1, <2>3, ArchiveType, TypesNext DEF TypeOK, WorldType
    <2>4. CASE RejectDepFailed(u) \/ RejectNoHandler(u) \/ RejectPayload(u)
      BY <2>3, <2>4 DEF RejectDepFailed, RejectNoHandler, RejectPayload, row, Errors
    <2>5. CASE Defer(u)
      <3>1. left' \in [Budgets -> Nat] BY <2>5, SpendType DEF Defer, Budgets, TypeOK
      <3>2. MemoryType' BY <2>5, <2>0, RequeueType DEF Defer, row
      <3> QED BY <2>5, <3>1, <3>2 DEF Defer, TypeOK, MemoryType, disk
    <2>6. CASE DispatchFailure(u)
      <3>1. CASE Spend("fault", 1) /\ RequeueAndCrash(u, Undispatched(row))
        BY <2>0, <2>1, <3>1, SpendType, RequeueAndCrashType, TypesNext DEF Budgets, TypeOK, WorldType
      <3>2. CASE Strike(u, Undispatched(row), 2)
        BY <2>0, <2>1, <3>2, StrikeType, TypesNext DEF TypeOK, WorldType
      <3>3. CASE /\ Spend("fault", 1)
                 /\ CommitFailure({u}, "dispatch")
                 /\ MarkFailed(u, {<<u, CrashPhase(u)>>})
                 /\ UNCHANGED phase
        <4>1. DiskType' BY <3>3, CommitFailureType DEF Errors
        <4>2. {<<u, CrashPhase(u)>>} \subseteq Uid \X {"crashing", "unwinding", "aborting"}
          BY <2>1, CrashPhaseType
        <4>3. MemoryType' BY <3>3, <4>2, MarkFailedType
        <4>4. left' \in [Budgets -> Nat] BY <3>3, SpendType DEF Budgets
        <4> QED BY <2>1, <3>3, <4>1, <4>3, <4>4, TypesNext DEF TypeOK, WorldType
      <3> QED BY <2>6, <3>1, <3>2, <3>3 DEF DispatchFailure, row
    <2>7. CASE Start(u)
      BY <2>7 DEF Start, TypeOK, disk, Entry, Stages
    <2> QED BY <1>6, <2>2, <2>4, <2>5, <2>6, <2>7 DEF Resolve
  <1>7. ASSUME NEW u \in Uid, Settle(u) PROVE TypeOK'
    <2> DEFINE row == ent[u].row
    <2>0. /\ row \in Row /\ Struck(row) \in Row /\ RetryRow(row) \in Row
          /\ SameAttempt(row) \in Row
      BY EntryRows
    <2> HIDE DEF row
    <2>1. /\ phase \in {"running", "crashing", "unwinding", "aborting"}
          /\ UNCHANGED <<stop, orphans>>
      BY <1>7 DEF Settle, SettleSuccess, SettleFailure, SettleRetry, SettleTransient,
                  SettleRaises, Settling
    <2>2. CASE \E n \in Nat : Strike(u, row, n)
      BY <2>0, <2>1, <2>2, StrikeType, TypesNext DEF TypeOK, WorldType
    <2>3. CASE \E why \in Errors : Archive(u, row, why)
      BY <2>0, <2>1, <2>3, ArchiveType, TypesNext DEF TypeOK, WorldType
    <2>4. CASE \E next \in Row : RequeueCommitted(u, next) /\ left' \in [Budgets -> Nat]
      <3> PICK next \in Row : RequeueCommitted(u, next) BY <2>4
      <3>1. MemoryType' BY RequeueType DEF RequeueCommitted
      <3> QED BY <2>1, <2>4, <3>1, TypesNext
              DEF RequeueCommitted, CommitRetry, TypeOK, DiskType, WorldType
    <2>5. CASE SettleSuccess(u)
      <3>1. PICK kids \in SUBSET Spawns[u] :
               \/ \E n \in Nat : Strike(u, row, n)
               \/ /\ CommitSuccess(u, Fresh(kids))
                  /\ mq' = [v \in Uid |-> IF v \in Fresh(kids) THEN NewRow ELSE mq[v]]
                  /\ msucc' = msucc \cup {u}
                  /\ mfail' = mfail \ {u}
                  /\ tskip' = tskip \ (Fresh(kids) \cup {u})
                  /\ ent' = [ent EXCEPT ![u] = Idle]
                  /\ UNCHANGED <<snap, casc, phase, left>>
        BY <2>5 DEF SettleSuccess, row
      <3>2. Fresh(kids) \subseteq Uid BY ConstantsAssumption DEF Fresh
      <3>3. CASE ~ \E n \in Nat : Strike(u, row, n)
        <4>1. DiskType' BY <3>1, <3>2, <3>3 DEF CommitSuccess, DiskType, TypeOK, Errors
        <4>2. MemoryType' BY <3>1, <3>2, <3>3 DEF MemoryType, TypeOK
        <4> QED BY <2>1, <3>1, <3>3, <4>1, <4>2, TypesNext DEF TypeOK, WorldType
      <3> QED BY <2>2, <3>3
    <2>6. CASE SettleFailure(u) BY <2>3, <2>6 DEF SettleFailure, row, Errors
    <2>7. CASE SettleRetry(u)
      BY <2>0, <2>2, <2>3, <2>4, <2>7 DEF SettleRetry, row, Errors, TypeOK
    <2>8. CASE SettleTransient(u)
      BY <2>0, <2>2, <2>4, <2>8, SpendType DEF SettleTransient, row, Budgets
    <2>9. CASE SettleRaises(u)
      BY <2>0, <2>1, <2>9, SpendType, RequeueAndCrashType, TypesNext
      DEF SettleRaises, Budgets, TypeOK, WorldType, row
    <2> QED BY <1>7, <2>5, <2>6, <2>7, <2>8, <2>9 DEF Settle
  <1>8. ASSUME Cascade PROVE TypeOK'
    <2>1. PICK f \in Uid, crash \in Phases :
             BulkFailure(Downstream(f, Queued(mq) \ (msucc \cup mfail)), "dependency", crash)
      BY <1>8 DEF Cascade
    <2>2. Downstream(f, Queued(mq) \ (msucc \cup mfail)) \in SUBSET Uid
      BY DownstreamType DEF Queued
    <2> QED BY <1>8, <2>1, <2>2, BulkFailureType, TypesNext
            DEF Cascade, Errors, TypeOK, WorldType
  <1>9. ASSUME Arbitrate PROVE TypeOK'
    BY <1>9, CulpritsType, BulkFailureType, TypesNext
    DEF Arbitrate, Errors, Phases, TypeOK, WorldType
  <1>10. ASSUME NEW mode \in {"draining", "aborting"}, RequestStop(mode) PROVE TypeOK'
    <2>1. left' \in [Budgets -> Nat] BY <1>10, SpendType DEF RequestStop, Budgets
    <2> QED BY <1>10, <2>1 DEF RequestStop, TypeOK, disk, memory
  <1>11. ASSUME AbortInFlight PROVE TypeOK'
    BY <1>11, EntryRows DEF AbortInFlight, TypeOK, disk, Phases
  <1>12. ASSUME SaveQueue PROVE TypeOK'
    <2>1. dq' \in [Uid -> Row] BY <1>12, MergeType DEF SaveQueue, TypeOK
    <2>2. left' \in [Budgets -> Nat]
      BY <1>12, SpendType DEF SaveQueue, Budgets, TypeOK
    <2> QED BY <1>12, <2>1, <2>2, GoDownType, TypesNext
            DEF SaveQueue, TypeOK, DiskType, WorldType
  <1>13. ASSUME Finish PROVE TypeOK'
    BY <1>13, GoDownType, TypesNext DEF Finish, disk, TypeOK, DiskType, WorldType
  <1>14. ASSUME Kill PROVE TypeOK'
    <2>1. left' \in [Budgets -> Nat] BY <1>14, SpendType DEF Kill, Budgets
    <2>2. orphans' \subseteq Uid BY <1>14 DEF Kill, TypeOK, InFlight
    <2> QED BY <1>14, <2>1, <2>2, GoDownType, TypesNext
            DEF Kill, disk, TypeOK, DiskType, WorldType
  <1>15. ASSUME NEW u \in Uid, OrphanExits(u) PROVE TypeOK'
    BY <1>15 DEF OrphanExits, TypeOK, disk, memory
  <1>16. ASSUME Interrupt PROVE TypeOK'
    <2>1. left' \in [Budgets -> Nat] BY <1>16, SpendType DEF Interrupt, Interrupted, Budgets
    <2>2. phase' \in Phases BY <1>16 DEF Interrupt, TypeOK, Phases
    <2>3. mq' \in [Uid -> Row] /\ ent' \in [Uid -> Entry]
      BY <1>16, EntryRows DEF Interrupt, TypeOK
    <2> QED BY <1>16, <2>1, <2>2, <2>3 DEF Interrupt, TypeOK, disk
  <1>17. ASSUME NEW u \in Uid, CommitInterrupted(u) PROVE TypeOK'
    <2>1. left' \in [Budgets -> Nat]
      BY <1>17, SpendType DEF CommitInterrupted, Interrupted, Budgets
    <2>2. DiskType'
      <3>1. CASE \E why \in Errors : CommitFailure({u}, why)
        BY <3>1, CommitFailureType
      <3>2. CASE \E kids \in SUBSET Spawns[u] : CommitSuccess(u, Fresh(kids))
        <4>1. PICK kids \in SUBSET Spawns[u] : CommitSuccess(u, Fresh(kids)) BY <3>2
        <4>2. Fresh(kids) \subseteq Uid BY ConstantsAssumption DEF Fresh
        <4> QED BY <4>1, <4>2 DEF CommitSuccess, DiskType, TypeOK, Errors
      <3>3. CASE CommitRetry(u, RetryRow(ent[u].row)) \/ CommitSkip(u)
        BY <3>3, EntryRows DEF CommitRetry, CommitSkip, DiskType, TypeOK
      <3> QED BY <1>17, <3>1, <3>2, <3>3 DEF CommitInterrupted, Errors
    <2>3. MemoryType' /\ phase' \in Phases
      <3>1. CASE Settling(u) /\ Requeue(u, ent[u].row) /\ phase' = CrashPhase(u)
        BY <3>1, EntryRows, RequeueType, CrashPhaseType DEF Settling, Phases
      <3>2. CASE /\ ent' = [ent EXCEPT ![u] = Idle]
                 /\ phase' = "unwinding"
                 /\ UNCHANGED <<snap, mq, msucc, mfail, tskip, casc>>
        BY <3>2 DEF MemoryType, TypeOK, Phases
      <3> QED BY <1>17, <3>1, <3>2 DEF CommitInterrupted
    <2> QED BY <1>17, <2>1, <2>2, <2>3, TypesNext DEF CommitInterrupted, TypeOK, WorldType
  <1>18. ASSUME AbortInterrupted PROVE TypeOK'
    <2>1. left' \in [Budgets -> Nat]
      BY <1>18, SpendType DEF AbortInterrupted, Interrupted, Budgets
    <2>2. orphans' \subseteq Uid BY <1>18 DEF AbortInterrupted, TypeOK, InFlight
    <2> QED BY <1>18, <2>1, <2>2 DEF AbortInterrupted, TypeOK, disk, NoEntries, Phases
  <1>19. ASSUME UNCHANGED vars PROVE TypeOK'
    BY <1>19 DEF vars, disk, memory, TypeOK
  <1> QED BY <1>1, <1>2, <1>3, <1>4, <1>5, <1>6, <1>7, <1>8, <1>9, <1>10, <1>11, <1>12,
             <1>13, <1>14, <1>15, <1>16, <1>17, <1>18, <1>19 DEF Next

\* Type correctness.
THEOREM TypeCorrect == Spec => []TypeOK
  BY InitType, TypeStep, PTL DEF Spec
-----------------------------------------------------------------------------
(* The moves an engine step can make.  Every commit that returns False ends *)
(* in Requeued or in Archived, whichever counter it goes through.           *)

\* The job goes back to the memory queue at the same attempt; the disk was not
\* touched.
Requeued(u) ==
    \E row \in Row : /\ row.no = ent[u].row.no
                     /\ Requeue(u, row)
                     /\ phase' \in {phase, CrashPhase(u)}
                     /\ UNCHANGED disk

\* The job enters the failure archive, on disk and in memory.
Archived(u) ==
    \E why \in Errors \ {"none"}, cascade \in SUBSET (Uid \X Phases) :
        /\ CommitFailure({u}, why)
        /\ MarkFailed(u, cascade)
        /\ UNCHANGED phase

\* The job goes back to both queues, at this attempt or at the next.
Retried(u) ==
    \E row \in Row : /\ \/ row.no = ent[u].row.no
                        \/ row.no = ent[u].row.no + 1 /\ ent[u].row.no <= MaxRetries
                     /\ RequeueCommitted(u, row)

Skipped(u) ==
    /\ CommitSkip(u)
    /\ ent' = [ent EXCEPT ![u] = Idle]
    /\ tskip' = tskip \cup {u}
    /\ UNCHANGED <<snap, mq, msucc, mfail, casc, phase>>

Succeeded(u, kids) ==
    /\ CommitSuccess(u, kids)
    /\ mq' = [v \in Uid |-> IF v \in kids THEN NewRow ELSE mq[v]]
    /\ msucc' = msucc \cup {u}
    /\ mfail' = mfail \ {u}
    /\ tskip' = tskip \ (kids \cup {u})
    /\ ent' = [ent EXCEPT ![u] = Idle]
    /\ UNCHANGED <<snap, casc, phase>>

\* Of the queued jobs us, those in gone are archived and the rest stay.
BulkMove(us, gone, why, crash) ==
    /\ CommitFailure(gone, why)
    /\ \A u \in Uid : mq'[u].no = IF u \in gone THEN 0 ELSE mq[u].no
    /\ msucc' = msucc \ gone
    /\ mfail' = mfail \cup gone
    /\ tskip' = tskip \ gone
    /\ phase' \in {phase, crash}
    /\ casc' = {}
    /\ UNCHANGED <<snap, ent>>

LEMMA RowNumbers ==
    \A row \in Row : /\ Struck(row).no = row.no /\ Undispatched(row).no = row.no
                     /\ SameAttempt(row).no = row.no
                     /\ RetryRow(row).no = row.no + 1
                     /\ row.no \in Nat
  BY DEF Row, Struck, Undispatched, SameAttempt, RetryRow

LEMMA StrikeMove ==
    ASSUME TypeOK, NEW u \in Uid, NEW row \in Row, row.no = ent[u].row.no,
           NEW n, Strike(u, row, n)
    PROVE  Requeued(u) \/ Archived(u)
  <1>1. CASE RequeueAndCrash(u, Struck(row))
    BY <1>1, RowTypes, RowNumbers DEF RequeueAndCrash, Requeued
  <1>2. CASE CommitFailure({u}, "commit") /\ MarkFailed(u, {}) /\ UNCHANGED phase
    BY <1>2 DEF Archived, Errors
  <1> QED BY <1>1, <1>2 DEF Strike

LEMMA ArchiveMove ==
    ASSUME TypeOK, NEW u \in Uid, NEW row \in Row, row.no = ent[u].row.no,
           phase \in {"running", "crashing", "unwinding", "aborting"},
           NEW why \in Errors \ {"none"}, Archive(u, row, why)
    PROVE  Requeued(u) \/ Archived(u)
  <1>1. CASE Strike(u, row, 1) BY <1>1, StrikeMove
  <1>2. CASE /\ CommitFailure({u}, why)
             /\ MarkFailed(u, {<<u, CrashPhase(u)>>})
             /\ UNCHANGED phase
    <2>1. {<<u, CrashPhase(u)>>} \in SUBSET (Uid \X Phases) BY CrashPhaseType DEF Phases
    <2> QED BY <1>2, <2>1 DEF Archived
  <1> QED BY <1>1, <1>2 DEF Archive

LEMMA ResolveMove ==
    ASSUME TypeOK, NEW u \in Uid, Resolve(u)
    PROVE  /\ phase = "running" /\ u \in Popped /\ UNCHANGED <<stop, orphans>>
           /\ Skipped(u) \/ Requeued(u) \/ Archived(u) \/ Start(u)
  <1>1. ent[u].row \in Row BY EntryRows
  <1>2. phase = "running" /\ u \in Popped /\ UNCHANGED <<stop, orphans>>
    BY DEF Resolve, Skip, RejectDepFailed, RejectNoHandler, Defer, RejectPayload,
           DispatchFailure, Start, Opened, Popped
  <1>3. CASE Skip(u)
    BY <1>1, <1>2, <1>3 DEF Skip, Skipped, Requeued, RequeueAndCrash
  <1>4. CASE RejectDepFailed(u) \/ RejectNoHandler(u) \/ RejectPayload(u)
    BY <1>1, <1>2, <1>4, ArchiveMove
    DEF RejectDepFailed, RejectNoHandler, RejectPayload, Errors
  <1>5. CASE Defer(u)
    BY <1>1, <1>2, <1>5 DEF Defer, Requeued
  <1>6. CASE DispatchFailure(u)
    <2> DEFINE row == Undispatched(ent[u].row)
    <2>1. row \in Row /\ row.no = ent[u].row.no BY <1>1, RowTypes, RowNumbers
    <2> HIDE DEF row
    <2>2. CASE RequeueAndCrash(u, row) BY <1>2, <2>1, <2>2 DEF RequeueAndCrash, Requeued
    <2>3. CASE Strike(u, row, 2) BY <1>2, <2>1, <2>3, StrikeMove
    <2>4. CASE /\ CommitFailure({u}, "dispatch")
               /\ MarkFailed(u, {<<u, CrashPhase(u)>>})
               /\ UNCHANGED phase
      <3>1. {<<u, CrashPhase(u)>>} \in SUBSET (Uid \X Phases)
        BY <1>2, CrashPhaseType DEF Phases
      <3> QED BY <1>2, <2>4, <3>1 DEF Archived, Errors
    <2> QED BY <1>6, <2>2, <2>3, <2>4 DEF DispatchFailure, row
  <1> QED BY <1>2, <1>3, <1>4, <1>5, <1>6 DEF Resolve

LEMMA SettleMove ==
    ASSUME TypeOK, NEW u \in Uid, Settle(u)
    PROVE  /\ Settling(u) /\ UNCHANGED <<stop, orphans>>
           /\ \/ Requeued(u) \/ Archived(u) \/ Retried(u)
              \/ \E kids \in SUBSET (Uid \ Active) :
                    Succeeded(u, kids) /\ kids \cap Queued(dq) = {}
  <1>1. ent[u].row \in Row BY EntryRows
  <1>2. Settling(u) /\ UNCHANGED <<stop, orphans>>
    BY DEF Settle, SettleSuccess, SettleFailure, SettleRetry, SettleTransient, SettleRaises
  <1>3. phase \in {"running", "crashing", "unwinding", "aborting"} BY <1>2 DEF Settling
  <1>4. CASE \E n : Strike(u, ent[u].row, n) BY <1>1, <1>4, StrikeMove, <1>2
  <1>5. CASE \E why \in Errors \ {"none"} : Archive(u, ent[u].row, why)
    BY <1>1, <1>2, <1>3, <1>5, ArchiveMove
  <1>6. CASE SettleSuccess(u)
    <2>1. PICK kids \in SUBSET Spawns[u] :
             \/ \E n : Strike(u, ent[u].row, n)
             \/ Succeeded(u, Fresh(kids)) /\ Fresh(kids) \cap Queued(dq) = {}
      BY <1>6 DEF SettleSuccess, Succeeded
    <2>2. Fresh(kids) \in SUBSET (Uid \ Active) BY ConstantsAssumption DEF Fresh
    <2> QED BY <1>2, <1>4, <2>1, <2>2
  <1>7. CASE SettleFailure(u) BY <1>5, <1>7 DEF SettleFailure, Errors
  <1>8. CASE SettleRetry(u)
    <2>1. CASE ~ Exhausted(ent[u].row) /\ RequeueCommitted(u, RetryRow(ent[u].row))
      <3>1. ent[u].row.no <= MaxRetries
        BY <1>1, <2>1, RowNumbers, ConstantsAssumption DEF Exhausted
      <3> QED BY <1>1, <1>2, <2>1, <3>1, RowTypes, RowNumbers DEF Retried
    <2> QED BY <1>4, <1>5, <1>8, <2>1 DEF SettleRetry, Errors
  <1>9. CASE SettleTransient(u)
    BY <1>1, <1>2, <1>4, <1>9, RowTypes, RowNumbers DEF SettleTransient, Retried
  <1>10. CASE SettleRaises(u)
    BY <1>1, <1>2, <1>10 DEF SettleRaises, Requeued, RequeueAndCrash
  <1> QED BY <1>6, <1>7, <1>8, <1>9, <1>10 DEF Settle

LEMMA BulkFailureMove ==
    ASSUME TypeOK, NEW us \in SUBSET Queued(mq), NEW why \in Errors \ {"none"},
           NEW crash, BulkFailure(us, why, crash)
    PROVE  \E gone \in SUBSET us, err \in Errors \ {"none"} : BulkMove(us, gone, err, crash)
  <1>0. \A u \in Uid : mq[u] \in Row BY DEF TypeOK
  <1>1. CASE BulkCommitted(us, why)
    <2>1. BulkMove(us, us, why, crash) BY <1>1 DEF BulkFailure, BulkCommitted, BulkMove, NoRow
    <2> QED BY <2>1
  <1>2. ASSUME NEW gone \in SUBSET us,
               CommitFailure(gone, "commit"),
               mq' = [u \in Uid |-> IF u \in gone THEN NoRow
                                    ELSE IF u \in us THEN Struck(mq[u]) ELSE mq[u]],
               msucc' = msucc \ gone,
               mfail' = mfail \cup gone,
               tskip' = tskip \ gone,
               phase' = IF us = gone THEN phase ELSE crash
        PROVE  BulkMove(us, gone, "commit", crash)
    <2>1. \A u \in Uid : mq'[u].no = IF u \in gone THEN 0 ELSE mq[u].no
      BY <1>0, <1>2, RowNumbers DEF NoRow
    <2> QED BY <1>2, <2>1 DEF BulkFailure, BulkMove
  <1> QED BY <1>1, <1>2 DEF BulkFailure, BulkStruck, Errors

LEMMA CascadeMove ==
    ASSUME TypeOK, Cascade
    PROVE  /\ casc # {} /\ UNCHANGED <<stop, orphans>>
           /\ \E us \in SUBSET Queued(mq) : \E gone \in SUBSET us,
                 err \in Errors \ {"none"}, crash \in {"crashing", "unwinding", "aborting"} :
                 BulkMove(us, gone, err, crash)
  <1>1. PICK f \in Uid, crash \in Phases :
           /\ <<f, crash>> \in casc
           /\ BulkFailure(Downstream(f, Queued(mq) \ (msucc \cup mfail)), "dependency", crash)
    BY DEF Cascade
  <1> DEFINE us == Downstream(f, Queued(mq) \ (msucc \cup mfail))
  <1>2. us \in SUBSET Queued(mq) BY DownstreamType
  <1>3. crash \in {"crashing", "unwinding", "aborting"} BY <1>1 DEF TypeOK
  <1> HIDE DEF us
  <1>4. \E gone \in SUBSET us, err \in Errors \ {"none"} : BulkMove(us, gone, err, crash)
    BY <1>1, <1>2, BulkFailureMove DEF us, Errors
  <1> QED BY <1>1, <1>2, <1>3, <1>4 DEF Cascade

LEMMA ArbitrateMove ==
    ASSUME TypeOK, Arbitrate
    PROVE  /\ Free /\ UNCHANGED <<stop, orphans>>
           /\ \E us \in SUBSET Queued(mq) : \E gone \in SUBSET us, err \in Errors \ {"none"} :
                 BulkMove(us, gone, err, "unwinding")
  <1>1. PICK us \in Culprits : BulkFailure(us, "deadlock", "unwinding") BY DEF Arbitrate
  <1>2. us \in SUBSET Queued(mq) BY DownstreamType DEF Culprits
  <1>3. \E gone \in SUBSET us, err \in Errors \ {"none"} : BulkMove(us, gone, err, "unwinding")
    BY <1>1, <1>2, BulkFailureMove DEF Errors
  <1> QED BY <1>2, <1>3 DEF Arbitrate

-----------------------------------------------------------------------------
(* The inductive invariant, action by action. *)

LEMMA SetsIdle ==
    ASSUME TypeOK, NEW u \in Uid, ent' = [ent EXCEPT ![u] = Idle]
    PROVE  /\ Popped' = Popped \ {u} /\ InFlight' = InFlight \ {u}
           /\ \A v \in Uid \ {u} : ent'[v] = ent[v]
  BY DEF TypeOK, Popped, InFlight, Idle

LEMMA SetsEmpty ==
    ASSUME ent' = NoEntries PROVE Popped' = {} /\ InFlight' = {}
  BY DEF NoEntries, Popped, InFlight, Idle

LEMMA SetsSame ==
    ASSUME UNCHANGED ent PROVE Popped' = Popped /\ InFlight' = InFlight
  BY DEF Popped, InFlight

LEMMA RowOf == ASSUME TypeOK, NEW u \in Uid
               PROVE  /\ dq[u] \in Row /\ mq[u] \in Row /\ snap[u] \in Row /\ ent[u].row \in Row
                      /\ dq[u].no \in Nat /\ mq[u].no \in Nat /\ snap[u].no \in Nat
                      /\ ent[u].row.no \in Nat
  BY EntryRows, RowNumbers DEF TypeOK

\* The memory of a job that leaves the hands of the main thread.
LEMMA MoveSets ==
    ASSUME TypeOK, NEW u \in Uid,
           \/ Requeued(u) \/ Archived(u) \/ Retried(u) \/ Skipped(u)
           \/ \E kids : Succeeded(u, kids)
    PROVE  /\ Popped' = Popped \ {u} /\ InFlight' = InFlight \ {u}
           /\ \A v \in Uid \ {u} : ent'[v] = ent[v]
           /\ UNCHANGED snap
  <1>1. ent' = [ent EXCEPT ![u] = Idle] /\ UNCHANGED snap
    BY DEF Requeued, Archived, Retried, Skipped, Succeeded, Requeue, MarkFailed, RequeueCommitted
  <1> QED BY <1>1, SetsIdle

-----------------------------------------------------------------------------
LEMMA StructureStep == TypeOK /\ Structure /\ [Next]_vars => Structure'
  <1> SUFFICES ASSUME TypeOK, Structure, [Next]_vars PROVE Structure'
    OBVIOUS
  <1>1. ASSUME NEW u \in Uid, Enqueue(u) PROVE Structure'
    BY <1>1, SetsSame DEF Enqueue, Structure, memory
  <1>2. ASSUME Load PROVE Structure'
    BY <1>2, SetsSame DEF Load, Structure
  <1>3. ASSUME RepairQueue PROVE Structure'
    BY <1>3, SetsSame DEF RepairQueue, Structure
  <1>4. ASSUME NEW u \in Uid, Dispatch(u) PROVE Structure'
    <2>1. Free /\ u \in Queued(mq)
      BY <1>4 DEF Dispatch, PopDepFailed, PopSkip, PopRun, CanDispatch
    <2>2. PICK stage \in {"dep_failed", "skip", "opened"} : Pop(u, stage)
      BY <1>4 DEF Dispatch, PopDepFailed, PopSkip, PopRun
    <2>3. ent'[u] = [stage |-> stage, row |-> mq[u]] /\ \A v \in Uid \ {u} : ent'[v] = ent[v]
      BY <2>2 DEF Pop, TypeOK
    <2>4. Popped' = {u} /\ InFlight' \subseteq InFlight
      BY <2>1, <2>3 DEF Free, Popped, InFlight
    <2>5. ent'[u].row.no > 0 BY <2>1, <2>3 DEF Queued
    <2> QED BY <2>1, <2>2, <2>3, <2>4, <2>5 DEF Pop, Free, Structure, InFlight
  <1>5. ASSUME NEW u \in Uid, DispatchRaises(u) PROVE Structure'
    BY <1>5, SetsSame DEF DispatchRaises, CanDispatch, Free, Structure, memory
  <1>6. ASSUME NEW u \in Uid, Resolve(u) PROVE Structure'
    <2>1. phase = "running" /\ u \in Popped BY <1>6, ResolveMove
    <2>2. CASE Start(u)
      BY <2>1, <2>2 DEF Start, Structure, Popped, InFlight, TypeOK
    <2>3. CASE Skipped(u) \/ Requeued(u) \/ Archived(u)
      <3>1. Popped' = {} /\ InFlight' = InFlight
        BY <2>1, <2>3, MoveSets DEF Structure, Popped, InFlight
      <3>2. phase' \notin {"down", "loading"}
        BY <2>1, <2>3 DEF Skipped, Requeued, Archived, CrashPhase
      <3> QED BY <2>3, <3>1, <3>2, MoveSets DEF Structure, InFlight
    <2> QED BY <1>6, <2>2, <2>3, ResolveMove
  <1>7. ASSUME NEW u \in Uid, Settle(u) PROVE Structure'
    <2>1. Settling(u) BY <1>7, SettleMove
    <2>2. Popped' = {} /\ InFlight' = InFlight \ {u} /\ UNCHANGED snap
      BY <1>7, <2>1, SettleMove, MoveSets DEF Settling
    <2>3. \A v \in InFlight' : ent'[v] = ent[v]
      BY <1>7, <2>2, SettleMove, MoveSets DEF InFlight
    <2>4. phase' \notin {"down", "loading"}
      BY <1>7, <2>1, SettleMove
      DEF Settling, Requeued, Archived, Retried, RequeueCommitted, Succeeded, CrashPhase
    <2> QED BY <2>2, <2>3, <2>4 DEF Structure
  <1>8. ASSUME Cascade PROVE Structure'
    BY <1>8, CascadeMove, SetsSame DEF BulkMove, Structure
  <1>9. ASSUME Arbitrate PROVE Structure'
    BY <1>9, ArbitrateMove, SetsSame DEF BulkMove, Structure, Free
  <1>10. ASSUME NEW mode \in {"draining", "aborting"}, RequestStop(mode) PROVE Structure'
    BY <1>10, SetsSame DEF RequestStop, Structure, memory
  <1>11. ASSUME AbortInFlight PROVE Structure'
    BY <1>11 DEF AbortInFlight, Free, Structure, Popped, InFlight, Idle, TypeOK
  <1>12. ASSUME GoDown PROVE Structure'
    BY <1>12, SetsEmpty DEF GoDown, Structure
  <1>13. ASSUME NEW u \in Uid, OrphanExits(u) PROVE Structure'
    BY <1>13, SetsSame DEF OrphanExits, Structure, memory
  <1>14. ASSUME Interrupt PROVE Structure'
    <2>1. Popped' = {} /\ InFlight' = InFlight /\ \A v \in InFlight : ent'[v] = ent[v]
      BY <1>14 DEF Interrupt, Popped, InFlight, Idle, TypeOK
    <2>2. phase' \in {"crashing", "unwinding", "aborting"}
      BY <1>14 DEF Interrupt, TypeOK
    <2> QED BY <1>14, <2>1, <2>2 DEF Interrupt, Structure
  <1>15. ASSUME NEW u \in Uid, CommitInterrupted(u) PROVE Structure'
    <2>1. CASE Settling(u) /\ Requeue(u, ent[u].row) /\ phase' = CrashPhase(u)
      <3>1. Popped' = {} /\ InFlight' \subseteq InFlight /\ \A v \in InFlight' : ent'[v] = ent[v]
        BY <2>1, SetsIdle DEF Settling, Requeue, InFlight
      <3>2. phase' \notin {"down", "loading"} BY <2>1 DEF Settling, CrashPhase
      <3> QED BY <2>1, <3>1, <3>2 DEF Requeue, Structure
    <2>2. CASE /\ phase = "running" /\ ent[u].stage \in {"dep_failed", "skip"}
               /\ ent' = [ent EXCEPT ![u] = Idle]
               /\ phase' = "unwinding"
               /\ UNCHANGED <<snap, mq, msucc, mfail, tskip, casc>>
      <3>1. u \in Popped BY <2>2 DEF Popped
      <3>2. Popped' = {} /\ InFlight' \subseteq InFlight /\ \A v \in InFlight' : ent'[v] = ent[v]
        BY <2>2, <3>1, SetsIdle DEF Structure, InFlight
      <3> QED BY <2>2, <3>2 DEF Structure
    <2> QED BY <1>15, <2>1, <2>2 DEF CommitInterrupted
  <1>16. ASSUME AbortInterrupted PROVE Structure'
    BY <1>16, SetsEmpty DEF AbortInterrupted, Structure
  <1>17. ASSUME UNCHANGED vars PROVE Structure'
    BY <1>17, SetsSame DEF vars, memory, Structure
  <1> QED BY <1>1, <1>2, <1>3, <1>4, <1>5, <1>6, <1>7, <1>8, <1>9, <1>10, <1>11, <1>12,
             <1>13, <1>14, <1>15, <1>16, <1>17 DEF Next, SaveQueue, Finish, Kill

-----------------------------------------------------------------------------
(* What each transaction does to the ledger on disk.                        *)

LEMMA CommitFailureEffect ==
    ASSUME TypeOK, NEW us \in SUBSET Uid, NEW why \in Errors \ {"none"}, CommitFailure(us, why)
    PROVE  /\ Queued(dq') = Queued(dq) \ us
           /\ \A u \in Uid : dq'[u].no = IF u \in us THEN 0 ELSE dq[u].no
           /\ dsucc' = dsucc \ us /\ DFailed' = DFailed \cup us
           /\ owed' = owed \ us
  BY RowOf DEF CommitFailure, Queued, DFailed, NoRow, TypeOK

LEMMA ArchivedEffect ==
    ASSUME TypeOK, NEW u \in Uid, Archived(u)
    PROVE  /\ Queued(dq') = Queued(dq) \ {u}
           /\ \A v \in Uid : dq'[v].no = IF v = u THEN 0 ELSE dq[v].no
           /\ dsucc' = dsucc \ {u} /\ DFailed' = DFailed \cup {u}
           /\ owed' = owed \ {u}
           /\ msucc' = msucc \ {u} /\ mfail' = mfail \cup {u} /\ tskip' = tskip \ {u}
           /\ ent' = [ent EXCEPT ![u] = Idle]
           /\ UNCHANGED <<mq, phase>>
  <1>1. PICK why \in Errors \ {"none"}, cascade \in SUBSET (Uid \X Phases) :
           CommitFailure({u}, why) /\ MarkFailed(u, cascade) /\ UNCHANGED phase
    BY DEF Archived
  <1>2. {u} \in SUBSET Uid OBVIOUS
  <1>3. /\ Queued(dq') = Queued(dq) \ {u}
        /\ \A v \in Uid : dq'[v].no = IF v \in {u} THEN 0 ELSE dq[v].no
        /\ dsucc' = dsucc \ {u} /\ DFailed' = DFailed \cup {u}
        /\ owed' = owed \ {u}
    BY <1>1, <1>2, CommitFailureEffect
  <1>4. \A v \in Uid : dq'[v].no = IF v = u THEN 0 ELSE dq[v].no BY <1>3
  <1> QED BY <1>1, <1>3, <1>4 DEF MarkFailed

LEMMA RetriedEffect ==
    ASSUME TypeOK, NEW u \in Uid, ent[u].row.no > 0, Retried(u)
    PROVE  \E row \in Row :
              /\ \/ row.no = ent[u].row.no
                 \/ row.no = ent[u].row.no + 1 /\ ent[u].row.no <= MaxRetries
              /\ row.no > 0
              /\ CommitRetry(u, row) /\ Requeue(u, row) /\ UNCHANGED phase
  BY RowOf DEF Retried, RequeueCommitted

LEMMA RetryRowOf ==
    ASSUME TypeOK, NEW u \in Uid
    PROVE  RetryRow(ent[u].row) \in Row /\ RetryRow(ent[u].row).no = ent[u].row.no + 1
  BY RowOf, RowTypes, RowNumbers

LEMMA CommitSuccessEffect ==
    ASSUME TypeOK, NEW u \in Uid, NEW kids \in SUBSET Uid, CommitSuccess(u, kids)
    PROVE  /\ Queued(dq') = (Queued(dq) \ {u}) \cup kids
           /\ \A v \in Uid : dq'[v].no = IF v \in kids THEN 1 ELSE IF v = u THEN 0 ELSE dq[v].no
           /\ dsucc' = dsucc \cup {u} /\ DFailed' = DFailed \ {u}
           /\ owed' = (owed \ {u}) \cup kids
  BY RowOf DEF CommitSuccess, Queued, DFailed, NoRow, NewRow, TypeOK

LEMMA CommitRetryEffect ==
    ASSUME TypeOK, NEW u \in Uid, NEW row \in Row, row.no > 0, CommitRetry(u, row)
    PROVE  /\ Queued(dq') = Queued(dq) \cup {u}
           /\ \A v \in Uid : dq'[v].no = IF v = u THEN row.no ELSE dq[v].no
           /\ UNCHANGED <<dsucc, DFailed, owed>>
  BY RowOf DEF CommitRetry, Queued, DFailed, TypeOK

LEMMA CommitSkipEffect ==
    ASSUME TypeOK, NEW u \in Uid, CommitSkip(u)
    PROVE  /\ Queued(dq') = Queued(dq) \ {u}
           /\ \A v \in Uid : dq'[v].no = IF v = u THEN 0 ELSE dq[v].no
           /\ owed' = owed \ {u}
           /\ UNCHANGED <<dsucc, DFailed>>
  BY RowOf DEF CommitSkip, Queued, DFailed, NoRow, TypeOK

LEMMA EnqueueEffect ==
    ASSUME TypeOK, NEW u \in Uid, Enqueue(u)
    PROVE  /\ Queued(dq') = Queued(dq) \cup {u} /\ u \notin Queued(dq)
           /\ \A v \in Uid : dq'[v].no = IF v = u THEN 1 ELSE dq[v].no
           /\ owed' = owed \cup {u}
           /\ UNCHANGED <<dsucc, DFailed>>
  BY RowOf DEF Enqueue, Queued, DFailed, NewRow, TypeOK

LEMMA SaveQueueEffect ==
    ASSUME TypeOK, SaveQueue
    PROVE  /\ \/ /\ Queued(dq') = Queued(dq) \cup Queued(mq)
                 /\ \A u \in Uid : dq'[u].no = IF u \in Queued(mq) THEN mq[u].no ELSE dq[u].no
              \/ UNCHANGED dq
           /\ UNCHANGED <<dsucc, dfail, DFailed, owed, orphans>>
  BY DEF SaveQueue, Merge, Queued, DFailed, TypeOK

LEMMA DiskSame ==
    ASSUME UNCHANGED disk
    PROVE  Queued(dq') = Queued(dq) /\ UNCHANGED <<dq, dsucc, dfail, DFailed, owed>>
  BY DEF disk, Queued, DFailed

LEMMA NoLostJobStep == TypeOK /\ Structure /\ NoLostJob /\ [Next]_vars => NoLostJob'
  <1> SUFFICES ASSUME TypeOK, Structure, NoLostJob, [Next]_vars PROVE NoLostJob'
    OBVIOUS
  <1> USE DEF NoLostJob
  <1>0. ASSUME UNCHANGED disk PROVE NoLostJob' BY <1>0, DiskSame
  <1>1. ASSUME NEW u \in Uid, Enqueue(u) PROVE NoLostJob' BY <1>1, EnqueueEffect
  <1>2. ASSUME Load PROVE NoLostJob' BY <1>2 DEF Load, Queued
  <1>3. ASSUME NEW u \in Uid, Resolve(u) PROVE NoLostJob'
    <2>1. CASE Skipped(u) BY <2>1, CommitSkipEffect DEF Skipped
    <2>2. CASE Requeued(u) BY <1>0, <2>2 DEF Requeued
    <2>3. CASE Archived(u) BY <2>3, ArchivedEffect
    <2>4. CASE Start(u) BY <1>0, <2>4 DEF Start
    <2> QED BY <1>3, <2>1, <2>2, <2>3, <2>4, ResolveMove
  <1>4. ASSUME NEW u \in Uid, Settle(u) PROVE NoLostJob'
    <2>0. ent[u].row.no > 0 BY <1>4, SettleMove DEF Settling, Structure, InFlight
    <2>1. CASE Requeued(u) BY <1>0, <2>1 DEF Requeued
    <2>2. CASE Archived(u) BY <2>2, ArchivedEffect
    <2>3. CASE Retried(u)
      BY <2>0, <2>3, RetriedEffect, CommitRetryEffect
    <2>4. CASE \E kids \in SUBSET (Uid \ Active) : Succeeded(u, kids)
      BY <2>4, CommitSuccessEffect DEF Succeeded
    <2> QED BY <1>4, <2>1, <2>2, <2>3, <2>4, SettleMove
  <1>5. ASSUME NEW us \in SUBSET Queued(mq), NEW gone \in SUBSET us,
               NEW why \in Errors \ {"none"}, NEW crash, BulkMove(us, gone, why, crash)
        PROVE  NoLostJob'
    <2>1. gone \in SUBSET Uid BY DEF Queued
    <2> QED BY <1>5, <2>1, CommitFailureEffect DEF BulkMove
  <1>6. ASSUME SaveQueue PROVE NoLostJob' BY <1>6, SaveQueueEffect DEF Queued
  <1>7. ASSUME NEW u \in Uid, CommitInterrupted(u) PROVE NoLostJob'
    <2>1. CASE \E why \in Errors \ {"none"} : CommitFailure({u}, why)
      BY <2>1, CommitFailureEffect
    <2>2. CASE CommitSkip(u) BY <2>2, CommitSkipEffect
    <2>3. CASE \E kids \in SUBSET Spawns[u] : CommitSuccess(u, Fresh(kids))
      <3>1. PICK kids \in SUBSET Spawns[u] : CommitSuccess(u, Fresh(kids)) BY <2>3
      <3>2. Fresh(kids) \in SUBSET Uid BY ConstantsAssumption DEF Fresh
      <3> QED BY <3>1, <3>2, CommitSuccessEffect
    <2>4. CASE CommitRetry(u, RetryRow(ent[u].row))
      <3>1. RetryRow(ent[u].row) \in Row /\ RetryRow(ent[u].row).no > 0
        BY RowOf, RetryRowOf
      <3> QED BY <2>4, <3>1, CommitRetryEffect
    <2> QED BY <1>7, <2>1, <2>2, <2>3, <2>4 DEF CommitInterrupted, Errors
  <1>8. CASE Cascade BY <1>5, <1>8, CascadeMove
  <1>9. CASE Arbitrate BY <1>5, <1>9, ArbitrateMove
  <1> QED BY <1>0, <1>1, <1>2, <1>3, <1>4, <1>6, <1>7, <1>8, <1>9
          DEF Next, RepairQueue, Dispatch, PopDepFailed, PopSkip, PopRun, Pop, DispatchRaises,
              RequestStop, AbortInFlight, Finish, Kill, OrphanExits, Interrupt,
              AbortInterrupted, vars

LEMMA RetryBudgetStep == TypeOK /\ Structure /\ RetryBudget /\ [Next]_vars => RetryBudget'
  <1> SUFFICES ASSUME TypeOK, Structure, RetryBudget, [Next]_vars PROVE RetryBudget'
    OBVIOUS
  <1> USE DEF RetryBudget
  <1>n. MaxRetries \in Nat BY ConstantsAssumption
  <1>0. ASSUME UNCHANGED <<dq, snap, mq, ent>> PROVE RetryBudget' BY <1>0
  <1>1. ASSUME NEW u \in Uid, Enqueue(u) PROVE RetryBudget'
    <2>1. \A v \in Uid : dq'[v].no <= MaxRetries + 1 BY <1>1, <1>n, EnqueueEffect
    <2> QED BY <1>1, <2>1 DEF Enqueue, memory
  <1>2. ASSUME Load PROVE RetryBudget' BY <1>2 DEF Load
  <1>3. ASSUME RepairQueue PROVE RetryBudget'
    BY <1>3, <1>n DEF RepairQueue, Merge, disk, EmptyQueue, NoRow
  <1>4. ASSUME NEW u \in Uid, Dispatch(u) PROVE RetryBudget'
    <2>1. PICK stage : Pop(u, stage) BY <1>4 DEF Dispatch, PopDepFailed, PopSkip, PopRun
    <2>2. ent'[u].row = mq[u] /\ \A v \in Uid \ {u} : ent'[v] = ent[v]
      BY <2>1 DEF Pop, TypeOK
    <2>3. \A v \in Uid : mq'[v].no <= MaxRetries + 1 BY <2>1, <1>n DEF Pop, NoRow, TypeOK
    <2> QED BY <2>1, <2>2, <2>3 DEF Pop, disk
  <1>5. ASSUME NEW u \in Uid, Requeued(u) PROVE RetryBudget'
    BY <1>5, <1>n DEF Requeued, Requeue, disk, Idle, NoRow, TypeOK
  <1>6. ASSUME NEW u \in Uid, Archived(u) PROVE RetryBudget'
    BY <1>6, <1>n, ArchivedEffect, MoveSets DEF Idle, NoRow, TypeOK
  <1>7. ASSUME NEW u \in Uid, Resolve(u) PROVE RetryBudget'
    <2>1. CASE Skipped(u)
      BY <2>1, <1>n, CommitSkipEffect DEF Skipped, Idle, NoRow, TypeOK
    <2>2. CASE Start(u) BY <2>2 DEF Start, disk, TypeOK
    <2> QED BY <1>5, <1>6, <1>7, <2>1, <2>2, ResolveMove
  <1>8. ASSUME NEW u \in Uid, Settle(u) PROVE RetryBudget'
    <2>0. ent[u].row.no > 0 BY <1>8, SettleMove DEF Settling, Structure, InFlight
    <2>1. CASE Retried(u)
      <3>1. PICK row \in Row :
              /\ \/ row.no = ent[u].row.no
                 \/ row.no = ent[u].row.no + 1 /\ ent[u].row.no <= MaxRetries
              /\ row.no > 0
              /\ CommitRetry(u, row) /\ Requeue(u, row)
        BY <2>0, <2>1, RetriedEffect
      <3>2. row.no <= MaxRetries + 1 BY <3>1, <1>n, RowOf
      <3>3. \A v \in Uid : dq'[v].no <= MaxRetries + 1 BY <3>1, <3>2, CommitRetryEffect
      <3> QED BY <3>1, <3>2, <3>3, <1>n DEF Requeue, Idle, NoRow, TypeOK
    <2>2. CASE \E kids \in SUBSET (Uid \ Active) : Succeeded(u, kids)
      <3>1. PICK kids \in SUBSET (Uid \ Active) : Succeeded(u, kids) BY <2>2
      <3>2. \A v \in Uid : dq'[v].no <= MaxRetries + 1
        BY <3>1, <1>n, CommitSuccessEffect DEF Succeeded
      <3> QED BY <3>1, <3>2, <1>n DEF Succeeded, Idle, NoRow, NewRow, TypeOK
    <2> QED BY <1>5, <1>6, <1>8, <2>1, <2>2, SettleMove
  <1>9. ASSUME NEW us \in SUBSET Queued(mq), NEW gone \in SUBSET us,
               NEW why \in Errors \ {"none"}, NEW crash, BulkMove(us, gone, why, crash)
        PROVE  RetryBudget'
    <2>1. gone \in SUBSET Uid BY DEF Queued
    <2> QED BY <1>9, <2>1, <1>n, CommitFailureEffect DEF BulkMove
  <1>10. ASSUME AbortInFlight PROVE RetryBudget'
    BY <1>10, <1>n DEF AbortInFlight, disk, Idle, NoRow
  <1>11. ASSUME GoDown, \/ UNCHANGED dq
                        \/ \A u \in Uid : dq'[u].no = IF u \in Queued(mq) THEN mq[u].no ELSE dq[u].no
         PROVE  RetryBudget'
    BY <1>11, <1>n DEF GoDown, EmptyQueue, NoEntries, Idle, NoRow
  <1>12. ASSUME Interrupt PROVE RetryBudget'
    BY <1>12, <1>n DEF Interrupt, disk, Idle, NoRow
  <1>13. ASSUME NEW u \in Uid, CommitInterrupted(u) PROVE RetryBudget'
    <2>1. \A v \in Uid : dq'[v].no <= MaxRetries + 1
      <3>1. CASE \E why \in Errors \ {"none"} : CommitFailure({u}, why)
        BY <3>1, <1>n DEF CommitFailure, NoRow
      <3>2. CASE CommitSkip(u) BY <3>2, <1>n, CommitSkipEffect
      <3>3. CASE \E kids \in SUBSET Spawns[u] : CommitSuccess(u, Fresh(kids))
        <4>1. PICK kids \in SUBSET Spawns[u] : CommitSuccess(u, Fresh(kids)) BY <3>3
        <4>2. Fresh(kids) \in SUBSET Uid BY ConstantsAssumption DEF Fresh
        <4> QED BY <4>1, <4>2, <1>n, CommitSuccessEffect
      <3>4. CASE ~ Exhausted(ent[u].row) /\ CommitRetry(u, RetryRow(ent[u].row))
        <4>1. /\ RetryRow(ent[u].row) \in Row /\ RetryRow(ent[u].row).no > 0
              /\ RetryRow(ent[u].row).no <= MaxRetries + 1
          BY <3>4, <1>n, RowOf, RetryRowOf DEF Exhausted
        <4> QED BY <3>4, <4>1, CommitRetryEffect
      <3> QED BY <1>13, <3>1, <3>2, <3>3, <3>4 DEF CommitInterrupted, Errors
    <2>2. \/ Requeue(u, ent[u].row)
          \/ ent' = [ent EXCEPT ![u] = Idle] /\ UNCHANGED <<mq, snap>>
      BY <1>13 DEF CommitInterrupted
    <2> QED BY <2>1, <2>2, <1>n DEF Requeue, Idle, NoRow, TypeOK
  <1>14. ASSUME AbortInterrupted PROVE RetryBudget'
    BY <1>14, <1>n DEF AbortInterrupted, disk, NoEntries, Idle, NoRow
  <1>15. CASE Cascade BY <1>9, <1>15, CascadeMove
  <1>16. CASE Arbitrate BY <1>9, <1>16, ArbitrateMove
  <1>17. CASE SaveQueue BY <1>11, <1>17, SaveQueueEffect DEF SaveQueue
  <1> QED BY <1>0, <1>1, <1>2, <1>3, <1>4, <1>7, <1>8, <1>10, <1>11, <1>12, <1>13, <1>14,
             <1>15, <1>16, <1>17
          DEF Next, DispatchRaises, RequestStop, Finish, Kill, OrphanExits, vars, disk, memory

LEMMA ExclusiveStep == TypeOK /\ Structure /\ Exclusive /\ [Next]_vars => Exclusive'
  <1> SUFFICES ASSUME TypeOK, Structure, Exclusive, [Next]_vars PROVE Exclusive'
    OBVIOUS
  <1> USE DEF Exclusive
  <1>0. ASSUME UNCHANGED <<dsucc, dfail, msucc, mfail, mq, ent>> PROVE Exclusive'
    BY <1>0, SetsSame DEF DFailed, Queued
  <1>1. ASSUME NEW u \in Uid, Enqueue(u) PROVE Exclusive'
    BY <1>0, <1>1 DEF Enqueue, memory
  <1>2. ASSUME Load PROVE Exclusive'
    BY <1>2, SetsSame DEF Load, DFailed, Queued
  <1>3. ASSUME RepairQueue PROVE Exclusive'
    BY <1>3, SetsSame DEF RepairQueue, disk, DFailed, Structure
  <1>4. ASSUME NEW u \in Uid, Dispatch(u) PROVE Exclusive'
    <2>1. PICK stage : Pop(u, stage) BY <1>4 DEF Dispatch, PopDepFailed, PopSkip, PopRun
    <2>2. (Popped \cup InFlight)' \subseteq Popped \cup InFlight \cup {u}
      BY <2>1 DEF Pop, Popped, InFlight, TypeOK
    <2>3. Queued(mq') = Queued(mq) \ {u} BY <2>1 DEF Pop, Queued, NoRow, TypeOK
    <2> QED BY <2>1, <2>2, <2>3 DEF Pop, disk, DFailed
  <1>5. ASSUME NEW u \in Uid, NEW row, Requeue(u, row) PROVE (Queued(mq) \cap (Popped \cup InFlight) = {})'
    <2>1. Queued(mq') \subseteq Queued(mq) \cup {u} BY <1>5 DEF Requeue, Queued, TypeOK
    <2>2. (Popped \cup InFlight)' = (Popped \cup InFlight) \ {u}
      BY <1>5, SetsIdle DEF Requeue
    <2> QED BY <2>1, <2>2
  <1>6. ASSUME NEW u \in Uid, Requeued(u) PROVE Exclusive'
    <2>1. UNCHANGED <<dsucc, DFailed, msucc, mfail>>
      BY <1>6, DiskSame DEF Requeued, Requeue
    <2> QED BY <1>5, <1>6, <2>1 DEF Requeued
  <1>7. ASSUME NEW u \in Uid, Archived(u) PROVE Exclusive'
    <2>1. (Popped \cup InFlight)' = (Popped \cup InFlight) \ {u}
      BY <1>7, ArchivedEffect, SetsIdle
    <2> QED BY <1>7, <2>1, ArchivedEffect
  <1>8. ASSUME NEW u \in Uid, Resolve(u) PROVE Exclusive'
    <2>1. CASE Skipped(u)
      <3>1. (Popped \cup InFlight)' = (Popped \cup InFlight) \ {u} BY <2>1, MoveSets
      <3> QED BY <2>1, <3>1, CommitSkipEffect DEF Skipped
    <2>2. CASE Start(u)
      <3>1. (Popped \cup InFlight)' \subseteq Popped \cup InFlight
        BY <2>2 DEF Start, Popped, InFlight, Opened, TypeOK
      <3> QED BY <2>2, <3>1, DiskSame DEF Start
    <2> QED BY <1>6, <1>7, <1>8, <2>1, <2>2, ResolveMove
  <1>9. ASSUME NEW u \in Uid, Settle(u) PROVE Exclusive'
    <2>0. Settling(u) /\ ent[u].row.no > 0 BY <1>9, SettleMove DEF Settling, Structure, InFlight
    <2>1. CASE Retried(u)
      <3>1. PICK row \in Row : row.no > 0 /\ CommitRetry(u, row) /\ Requeue(u, row)
        BY <2>0, <2>1, RetriedEffect
      <3> QED BY <1>5, <3>1, CommitRetryEffect DEF Requeue
    <2>2. CASE \E kids \in SUBSET (Uid \ Active) : Succeeded(u, kids)
      <3>1. PICK kids \in SUBSET (Uid \ Active) : Succeeded(u, kids) BY <2>2
      <3>2. (Popped \cup InFlight)' = InFlight \ {u} BY <2>0, <3>1, MoveSets DEF Settling
      <3>3. Queued(mq') \subseteq Queued(mq) \cup kids BY <3>1 DEF Succeeded, Queued
      <3>4. Queued(mq') \cap (InFlight \ {u}) = {} BY <3>3 DEF Active
      <3> QED BY <3>1, <3>2, <3>4, CommitSuccessEffect DEF Succeeded
    <2> QED BY <1>6, <1>7, <1>9, <2>1, <2>2, SettleMove
  <1>10. ASSUME NEW us \in SUBSET Queued(mq), NEW gone \in SUBSET us,
                NEW why \in Errors \ {"none"}, NEW crash, BulkMove(us, gone, why, crash)
         PROVE  Exclusive'
    <2>1. gone \in SUBSET Uid BY DEF Queued
    <2>2. Queued(mq') \subseteq Queued(mq) BY <1>10, <2>1, RowOf DEF BulkMove, Queued
    <2> QED BY <1>10, <2>1, <2>2, CommitFailureEffect, SetsSame DEF BulkMove
  <1>11. ASSUME AbortInFlight PROVE Exclusive'
    <2>1. PICK done \in SUBSET InFlight :
            /\ mq' = [u \in Uid |-> IF u \in InFlight \ done THEN ent[u].row ELSE mq[u]]
            /\ ent' = [u \in Uid |-> IF u \in InFlight \ done THEN Idle ELSE ent[u]]
      BY <1>11 DEF AbortInFlight
    <2>2. (Popped \cup InFlight)' \subseteq (Popped \cup InFlight) \ (InFlight \ done)
      BY <2>1 DEF Popped, InFlight, Idle
    <2>3. Queued(mq') \subseteq Queued(mq) \cup (InFlight \ done) BY <2>1 DEF Queued
    <2> QED BY <1>11, <2>2, <2>3, DiskSame DEF AbortInFlight
  <1>12. ASSUME GoDown, UNCHANGED <<dsucc, dfail>> PROVE Exclusive'
    BY <1>12, SetsEmpty DEF GoDown, DFailed
  <1>13. ASSUME Interrupt PROVE Exclusive'
    <2>1. (Popped \cup InFlight)' = InFlight
      BY <1>13 DEF Interrupt, Popped, InFlight, Idle, TypeOK
    <2>2. Queued(mq') \subseteq Queued(mq) \cup Popped
      BY <1>13 DEF Interrupt, Queued
    <2>3. Popped \cap InFlight = {} BY DEF Popped, InFlight
    <2> QED BY <1>13, <2>1, <2>2, <2>3, DiskSame DEF Interrupt
  <1>14. ASSUME NEW u \in Uid, CommitInterrupted(u) PROVE Exclusive'
    <2>1. (dsucc \cap DFailed = {})'
      <3>1. CASE \E why \in Errors \ {"none"} : CommitFailure({u}, why)
        <4>1. {u} \in SUBSET Uid OBVIOUS
        <4> QED BY <3>1, <4>1, CommitFailureEffect
      <3>2. CASE CommitSkip(u) \/ CommitRetry(u, RetryRow(ent[u].row))
        BY <3>2 DEF CommitSkip, CommitRetry, DFailed
      <3>3. CASE \E kids \in SUBSET Spawns[u] : CommitSuccess(u, Fresh(kids))
        <4>1. PICK kids \in SUBSET Spawns[u] : CommitSuccess(u, Fresh(kids)) BY <3>3
        <4>2. Fresh(kids) \in SUBSET Uid BY ConstantsAssumption DEF Fresh
        <4> QED BY <4>1, <4>2, CommitSuccessEffect
      <3> QED BY <1>14, <3>1, <3>2, <3>3 DEF CommitInterrupted, Errors
    <2>2. CASE Requeue(u, ent[u].row)
      BY <1>5, <2>1, <2>2 DEF Requeue
    <2>3. CASE ent' = [ent EXCEPT ![u] = Idle] /\ UNCHANGED <<mq, msucc, mfail>>
      <3>1. (Popped \cup InFlight)' \subseteq Popped \cup InFlight BY <2>3, SetsIdle
      <3> QED BY <2>1, <2>3, <3>1
    <2> QED BY <1>14, <2>2, <2>3 DEF CommitInterrupted
  <1>15. ASSUME AbortInterrupted PROVE Exclusive'
    BY <1>15, SetsEmpty, DiskSame DEF AbortInterrupted
  <1>16. CASE Cascade BY <1>10, <1>16, CascadeMove
  <1>17. CASE Arbitrate BY <1>10, <1>17, ArbitrateMove
  <1> QED BY <1>0, <1>1, <1>2, <1>3, <1>4, <1>8, <1>9, <1>11, <1>12, <1>13, <1>14, <1>15,
             <1>16, <1>17
          DEF Next, DispatchRaises, RequestStop, SaveQueue, Finish, Kill, OrphanExits,
              vars, disk, memory

LEMMA OneBodyStep == TypeOK /\ Structure /\ OneBody /\ [Next]_vars => OneBody'
  <1> SUFFICES ASSUME TypeOK, Structure, OneBody, [Next]_vars PROVE OneBody'
    OBVIOUS
  <1> USE DEF OneBody
  <1>0. ASSUME InFlight' \subseteq InFlight, orphans' \subseteq orphans PROVE OneBody'
    BY <1>0
  <1>1. ASSUME InFlight' = {} PROVE OneBody' BY <1>1
  <1>2. ASSUME UNCHANGED <<ent, orphans>> PROVE OneBody' BY <1>0, <1>2, SetsSame
  <1>3. ASSUME NEW u \in Uid, Resolve(u) PROVE OneBody'
    <2>1. CASE Start(u)
      <3>1. InFlight' \subseteq InFlight \cup {u} BY <2>1 DEF Start, InFlight, TypeOK
      <3> QED BY <2>1, <3>1 DEF Start, LockFree
    <2> QED BY <1>0, <1>3, <2>1, ResolveMove, MoveSets
  <1>4. ASSUME NEW u \in Uid, Settle(u) PROVE OneBody'
    BY <1>0, <1>4, SettleMove, MoveSets
  <1>5. ASSUME NEW u \in Uid, Dispatch(u) PROVE OneBody'
    <2>1. PICK stage \in {"dep_failed", "skip", "opened"} : Pop(u, stage)
      BY <1>5 DEF Dispatch, PopDepFailed, PopSkip, PopRun
    <2>2. InFlight' \subseteq InFlight BY <2>1 DEF Pop, InFlight, TypeOK
    <2> QED BY <1>0, <2>1, <2>2 DEF Pop
  <1>6. ASSUME AbortInFlight PROVE OneBody'
    <2>1. InFlight' \subseteq InFlight BY <1>6 DEF AbortInFlight, InFlight, Idle
    <2> QED BY <1>0, <1>6, <2>1 DEF AbortInFlight
  <1>7. ASSUME Interrupt PROVE OneBody'
    <2>1. InFlight' \subseteq InFlight BY <1>7 DEF Interrupt, InFlight, Idle
    <2> QED BY <1>0, <1>7, <2>1 DEF Interrupt
  <1>8. ASSUME NEW u \in Uid, CommitInterrupted(u) PROVE OneBody'
    BY <1>0, <1>8, SetsIdle DEF CommitInterrupted, Requeue
  <1>9. ASSUME Cascade \/ Arbitrate PROVE OneBody'
    BY <1>2, <1>9, CascadeMove, ArbitrateMove DEF BulkMove
  <1>10. ASSUME GoDown \/ AbortInterrupted PROVE OneBody'
    BY <1>1, <1>10, SetsEmpty DEF GoDown, AbortInterrupted
  <1>11. ASSUME NEW u \in Uid, OrphanExits(u) PROVE OneBody'
    BY <1>0, <1>11, SetsSame DEF OrphanExits, memory
  <1> QED BY <1>2, <1>3, <1>4, <1>5, <1>6, <1>7, <1>8, <1>9, <1>10, <1>11
          DEF Next, Enqueue, Load, RepairQueue, DispatchRaises, RequestStop, SaveQueue,
              Finish, Kill, vars, memory

LEMMA CurrentStep == TypeOK /\ Exclusive /\ CurrentWhileRunning /\ [Next]_vars => CurrentWhileRunning'
  <1> SUFFICES ASSUME TypeOK, Exclusive, CurrentWhileRunning, [Next]_vars
               PROVE  CurrentWhileRunning'
    OBVIOUS
  <1> USE DEF CurrentWhileRunning
  <1>0. ASSUME UNCHANGED <<dsucc, dfail, msucc, mfail>>,
               phase' \in {"loading", "running"} => phase \in {"loading", "running"}
        PROVE  CurrentWhileRunning'
    BY <1>0 DEF DFailed
  <1>1. ASSUME phase' \notin {"loading", "running"} PROVE CurrentWhileRunning' BY <1>1
  <1>2. ASSUME NEW u \in Uid, Enqueue(u) PROVE CurrentWhileRunning'
    BY <1>0, <1>2 DEF Enqueue, memory
  <1>3. ASSUME Load PROVE CurrentWhileRunning' BY <1>3 DEF Load, DFailed
  <1>4. ASSUME RepairQueue PROVE CurrentWhileRunning' BY <1>0, <1>4 DEF RepairQueue, disk
  <1>5. ASSUME NEW u \in Uid, Dispatch(u) PROVE CurrentWhileRunning'
    BY <1>0, <1>5 DEF Dispatch, PopDepFailed, PopSkip, PopRun, Pop, disk
  <1>6. ASSUME NEW u \in Uid, Requeued(u) PROVE CurrentWhileRunning'
    BY <1>0, <1>6 DEF Requeued, Requeue, disk, CrashPhase
  <1>7. ASSUME NEW u \in Uid, Archived(u) PROVE CurrentWhileRunning'
    BY <1>7, ArchivedEffect
  <1>8. ASSUME NEW u \in Uid, Resolve(u) PROVE CurrentWhileRunning'
    <2>1. CASE Skipped(u) BY <1>0, <2>1 DEF Skipped, CommitSkip
    <2>2. CASE Start(u) BY <1>0, <2>2 DEF Start, disk
    <2> QED BY <1>6, <1>7, <1>8, <2>1, <2>2, ResolveMove
  <1>9. ASSUME NEW u \in Uid, Settle(u) PROVE CurrentWhileRunning'
    <2>1. CASE Retried(u)
      BY <1>0, <2>1 DEF Retried, RequeueCommitted, CommitRetry, Requeue
    <2>2. CASE \E kids \in SUBSET (Uid \ Active) : Succeeded(u, kids)
      BY <2>2, CommitSuccessEffect DEF Succeeded
    <2> QED BY <1>6, <1>7, <1>9, <2>1, <2>2, SettleMove
  <1>10. ASSUME NEW us \in SUBSET Queued(mq), NEW gone \in SUBSET us,
                NEW why \in Errors \ {"none"},
                NEW crash \in {"crashing", "unwinding", "aborting"},
                BulkMove(us, gone, why, crash)
         PROVE  CurrentWhileRunning'
    <2>1. gone \in SUBSET Uid BY DEF Queued
    <2> QED BY <1>10, <2>1, CommitFailureEffect DEF BulkMove
  <1>11. CASE Cascade BY <1>10, <1>11, CascadeMove
  <1>12. CASE Arbitrate BY <1>10, <1>12, ArbitrateMove
  <1>13. ASSUME Interrupt PROVE CurrentWhileRunning'
    BY <1>1, <1>13 DEF Interrupt, TypeOK
  <1>14. ASSUME NEW u \in Uid, CommitInterrupted(u) PROVE CurrentWhileRunning'
    BY <1>1, <1>14 DEF CommitInterrupted, Settling, CrashPhase
  <1>15. ASSUME AbortInFlight \/ AbortInterrupted \/ GoDown PROVE CurrentWhileRunning'
    BY <1>1, <1>15 DEF AbortInFlight, AbortInterrupted, GoDown
  <1> QED BY <1>0, <1>2, <1>3, <1>4, <1>5, <1>8, <1>9, <1>11, <1>12, <1>13, <1>14, <1>15
          DEF Next, DispatchRaises, RequestStop, SaveQueue, Finish, Kill, OrphanExits,
              vars, disk, memory

LEMMA ReadyStep == TypeOK /\ Structure /\ ReadyWhenOpened /\ [Next]_vars => ReadyWhenOpened'
  <1> SUFFICES ASSUME TypeOK, Structure, ReadyWhenOpened, [Next]_vars
               PROVE  ReadyWhenOpened'
    OBVIOUS
  <1>0. ASSUME Popped' = {} PROVE ReadyWhenOpened'
    BY <1>0 DEF ReadyWhenOpened, Popped
  <1>1. ASSUME UNCHANGED <<mq, msucc, mfail, tskip, ent>> PROVE ReadyWhenOpened'
    BY <1>1, SetsSame DEF ReadyWhenOpened, Active, Queued
  <1>2. ASSUME NEW u \in Uid, Dispatch(u) PROVE ReadyWhenOpened'
    <2>1. Free BY <1>2 DEF Dispatch, PopDepFailed, PopSkip, PopRun, CanDispatch
    <2>2. PICK stage \in {"dep_failed", "skip", "opened"} :
             Pop(u, stage) /\ (stage = "opened" => Runnable(u))
      BY <1>2 DEF Dispatch, PopDepFailed, PopSkip, PopRun
    <2>3. ent'[u].stage = stage /\ \A v \in Uid \ {u} : ent'[v] = ent[v]
      BY <2>2 DEF Pop, TypeOK
    <2>4. Active' \subseteq Active
      <3>1. Queued(mq') \subseteq Queued(mq) BY <2>2 DEF Pop, Queued, NoRow, TypeOK
      <3>2. InFlight' \subseteq InFlight BY <2>3 DEF InFlight
      <3> QED BY <3>1, <3>2 DEF Active
    <2>5. \A v \in Uid : ent'[v].stage = "opened" => v = u /\ Runnable(u)
      BY <2>1, <2>2, <2>3 DEF Free, Popped
    <2> QED BY <2>2, <2>4, <2>5 DEF ReadyWhenOpened, Runnable, Pop
  <1>3. ASSUME NEW u \in Uid, Resolve(u) PROVE ReadyWhenOpened'
    <2>1. u \in Popped BY <1>3, ResolveMove
    <2>2. CASE Start(u)
      BY <1>0, <2>1, <2>2 DEF Start, Popped, TypeOK, Structure
    <2>3. CASE ~ Start(u)
      BY <1>0, <1>3, <2>1, <2>3, ResolveMove, MoveSets DEF Structure
    <2> QED BY <2>2, <2>3
  <1>4. ASSUME NEW u \in Uid, Settle(u) PROVE ReadyWhenOpened'
    BY <1>0, <1>4, SettleMove, MoveSets DEF Settling
  <1>5. ASSUME Cascade \/ Arbitrate PROVE ReadyWhenOpened'
    BY <1>0, <1>5, CascadeMove, ArbitrateMove, SetsSame DEF BulkMove, Structure, Free
  <1>6. ASSUME Load \/ RepairQueue PROVE ReadyWhenOpened'
    BY <1>0, <1>6, SetsSame DEF Load, RepairQueue, Structure
  <1>7. ASSUME AbortInFlight PROVE ReadyWhenOpened'
    BY <1>0, <1>7 DEF AbortInFlight, Free, Structure, Popped, Idle
  <1>8. ASSUME Interrupt PROVE ReadyWhenOpened'
    BY <1>0, <1>8 DEF Interrupt, Popped, Idle
  <1>9. ASSUME NEW u \in Uid, CommitInterrupted(u) PROVE ReadyWhenOpened'
    <2>1. u \in Popped \/ Popped = {}
      BY <1>9 DEF CommitInterrupted, Settling, Popped
    <2>2. ent' = [ent EXCEPT ![u] = Idle]
      BY <1>9 DEF CommitInterrupted, Requeue
    <2> QED BY <1>0, <2>1, <2>2, SetsIdle DEF Structure
  <1>10. ASSUME GoDown \/ AbortInterrupted PROVE ReadyWhenOpened'
    BY <1>0, <1>10, SetsEmpty DEF GoDown, AbortInterrupted
  <1> QED BY <1>1, <1>2, <1>3, <1>4, <1>5, <1>6, <1>7, <1>8, <1>9, <1>10
          DEF Next, Enqueue, DispatchRaises, RequestStop, SaveQueue, Finish, Kill,
              OrphanExits, vars, memory

\* A body starts by Start and by nothing else.
LEMMA OnlyStartStarts ==
    ASSUME TypeOK, [Next]_vars, NEW u \in Uid, Starts(u)
    PROVE  Start(u)
  <1> USE DEF Starts
  <1>1. ASSUME UNCHANGED ent PROVE FALSE BY <1>1
  <1>2. ASSUME NEW v \in Uid, ent' = [ent EXCEPT ![v] = Idle] PROVE FALSE
    BY <1>2 DEF Idle, TypeOK
  <1>3. ASSUME NEW v \in Uid, Resolve(v) PROVE Start(v) /\ v = u
    <2>1. CASE Start(v) BY <2>1 DEF Start, TypeOK
    <2>2. CASE ~ Start(v)
      BY <1>2, <1>3, <2>2, ResolveMove
      DEF Skipped, Requeued, Archived, Requeue, MarkFailed
    <2> QED BY <2>1, <2>2
  <1>4. ASSUME NEW v \in Uid, Settle(v) PROVE FALSE
    BY <1>2, <1>4, SettleMove
    DEF Retried, RequeueCommitted, Requeued, Archived, Succeeded, Requeue, MarkFailed
  <1>5. ASSUME NEW v \in Uid, Dispatch(v) PROVE FALSE
    <2>1. PICK stage \in {"dep_failed", "skip", "opened"} : Pop(v, stage)
      BY <1>5 DEF Dispatch, PopDepFailed, PopSkip, PopRun
    <2> QED BY <2>1 DEF Pop, TypeOK
  <1>6. ASSUME Cascade \/ Arbitrate PROVE FALSE
    BY <1>1, <1>6, CascadeMove, ArbitrateMove DEF BulkMove
  <1>7. ASSUME AbortInFlight \/ Interrupt PROVE FALSE
    BY <1>7 DEF AbortInFlight, Interrupt, Idle
  <1>8. ASSUME NEW v \in Uid, CommitInterrupted(v) PROVE FALSE
    BY <1>2, <1>8 DEF CommitInterrupted, Requeue
  <1>9. ASSUME GoDown \/ AbortInterrupted PROVE FALSE
    BY <1>9 DEF GoDown, AbortInterrupted, NoEntries, Idle
  <1>10. \E v \in Uid : Resolve(v)
    BY <1>1, <1>4, <1>5, <1>6, <1>7, <1>8, <1>9
    DEF Next, Enqueue, Load, RepairQueue, DispatchRaises, RequestStop, SaveQueue, Finish,
        Kill, OrphanExits, vars, memory
  <1> QED BY <1>3, <1>10

-----------------------------------------------------------------------------
LEMMA InitInductive == Init => Inductive
  <1> SUFFICES ASSUME Init PROVE Inductive OBVIOUS
  <1>1. TypeOK BY InitType
  <1>2. Popped = {} /\ InFlight = {} BY DEF Init, NoEntries, Popped, InFlight, Idle
  <1>3. RetryBudget
    BY ConstantsAssumption DEF Init, RetryBudget, EmptyQueue, NoEntries, Idle, NoRow
  <1>4. ReadyWhenOpened BY <1>2 DEF ReadyWhenOpened, Popped
  <1> QED BY <1>1, <1>2, <1>3, <1>4
          DEF Init, Inductive, Structure, NoLostJob, Exclusive, OneBody, CurrentWhileRunning

LEMMA InductiveStep == Inductive /\ [Next]_vars => Inductive'
  BY TypeStep, StructureStep, NoLostJobStep, ExclusiveStep, RetryBudgetStep, OneBodyStep,
     CurrentStep, ReadyStep
  DEF Inductive

\* The inductive invariant: types, the place of the main thread, and the safety
\* properties that hold even when the main thread is interrupted.
THEOREM InductiveInvariant == Spec => []Inductive
  BY InitInductive, InductiveStep, PTL DEF Spec

\* At least once: no accepted job is ever without its row on disk before a
\* success, a failure or a skip was committed for it.
THEOREM AtLeastOnce == Spec => []NoLostJob
  <1>1. Inductive => NoLostJob BY DEF Inductive
  <1> QED BY <1>1, InductiveInvariant, PTL

\* Successes and failures exclude each other, and a popped job is not queued.
THEOREM StatesExclusive == Spec => []Exclusive
  <1>1. Inductive => Exclusive BY DEF Inductive
  <1> QED BY <1>1, InductiveInvariant, PTL

\* No copy of a row exceeds max_retries + 1 attempts.
THEOREM RetriesBounded == Spec => []RetryBudget
  <1>1. Inductive => RetryBudget BY DEF Inductive
  <1> QED BY <1>1, InductiveInvariant, PTL

\* No job is in flight while a body an earlier run left behind is alive.
THEOREM OneBodyPerJob == Spec => []OneBody
  <1>1. Inductive => OneBody BY DEF Inductive
  <1> QED BY <1>1, InductiveInvariant, PTL

\* Whatever crashes or interrupts, a body starts only behind its dependencies.
THEOREM BarrierHolds == Spec => DependencyBarrier
  <1> DEFINE Step == \A u \in Uid : Starts(u) =>
          \A d \in Deps[u] : d \notin Active /\ d \in tskip \cup (dsucc \ DFailed)
  <1>1. ASSUME Inductive, [Next]_vars PROVE [Step]_vars
    <2> SUFFICES ASSUME NEW u \in Uid, Starts(u)
                 PROVE  \A d \in Deps[u] : d \notin Active /\ d \in tskip \cup (dsucc \ DFailed)
      OBVIOUS
    <2>1. ent[u].stage = "opened" /\ phase = "running"
      BY <1>1, OnlyStartStarts DEF Inductive, Start, Opened
    <2>2. \A d \in Deps[u] : d \notin Active /\ d \in tskip \cup (msucc \ mfail)
      BY <1>1, <2>1 DEF Inductive, ReadyWhenOpened
    <2>3. msucc = dsucc /\ mfail = DFailed
      BY <1>1, <2>1 DEF Inductive, CurrentWhileRunning
    <2> QED BY <2>2, <2>3
  <1>2. Spec => [][Step]_vars
    BY <1>1, InductiveInvariant, PTL DEF Spec
  <1> QED BY <1>2 DEF DependencyBarrier

-----------------------------------------------------------------------------
(***************************************************************************)
(* What Engine guarantees when the main thread is not interrupted (signals *)
(* are turned into a stop request): memory mirrors the disk, a "once" job  *)
(* that has a result is not executed again, and the engine implements the  *)
(* ledger.                                                                 *)
(***************************************************************************)

Mirror == MemoryMirrorsDisk /\ SnapshotMirrorsDisk

\* A job the main thread holds, or has queued, has its row on disk.
LEMMA HeldOnDisk ==
    ASSUME Inductive, MemoryMirrorsDisk, phase \notin {"down", "loading"}
    PROVE  Queued(mq) \cup Popped \cup InFlight \subseteq Queued(dq)
  <1>1. TypeOK BY DEF Inductive
  <1>2. \A u \in Queued(mq) : u \in Queued(dq)
    BY <1>1, RowOf DEF MemoryMirrorsDisk, Queued
  <1>3. \A u \in Popped \cup InFlight : u \in Queued(dq)
    BY <1>1, RowOf DEF MemoryMirrorsDisk, Inductive, Structure, Queued, Popped, InFlight
  <1> QED BY <1>2, <1>3

LEMMA MirrorStep ==
    ASSUME ~ Interrupts, Inductive, Inductive', Mirror, [Next]_vars
    PROVE  Mirror'
  <1> USE DEF Mirror
  <1>t. TypeOK /\ Structure /\ Exclusive BY DEF Inductive
  <1>0. ASSUME UNCHANGED <<dq, dsucc, dfail, snap, mq, msucc, mfail, ent>>,
               phase' \in {"down", "loading"} <=> phase \in {"down", "loading"},
               phase' = "loading" <=> phase = "loading"
        PROVE  Mirror'
    BY <1>0, SetsSame DEF MemoryMirrorsDisk, SnapshotMirrorsDisk, Queued, DFailed
  <1>1. ASSUME NEW u \in Uid, Enqueue(u) PROVE Mirror'
    <2>1. \A v \in Queued(dq) : dq'[v].no = dq[v].no
      BY <1>1, <1>t, EnqueueEffect DEF Queued
    <2>2. CASE phase = "loading"
      <3>1. Queued(snap) \subseteq Queued(dq)
        BY <2>2, <1>t, RowOf DEF SnapshotMirrorsDisk, Queued
      <3> QED BY <1>1, <1>t, <2>1, <2>2, <3>1, EnqueueEffect
              DEF Enqueue, memory, MemoryMirrorsDisk, SnapshotMirrorsDisk, Queued
    <2>3. CASE phase \notin {"down", "loading"}
      <3>1. Popped' = Popped /\ InFlight' = InFlight /\ Queued(mq') = Queued(mq)
        BY <1>1, SetsSame DEF Enqueue, memory, Queued
      <3> QED BY <1>1, <1>t, <2>1, <2>3, <3>1, EnqueueEffect, HeldOnDisk
              DEF Enqueue, memory, MemoryMirrorsDisk, SnapshotMirrorsDisk
    <2> QED BY <1>1, <2>2, <2>3 DEF Enqueue, MemoryMirrorsDisk, SnapshotMirrorsDisk
  <1>2. ASSUME Load PROVE Mirror'
    BY <1>2 DEF Load, MemoryMirrorsDisk, SnapshotMirrorsDisk, DFailed, Queued
  <1>3. ASSUME RepairQueue PROVE Mirror'
    <2>1. Popped' = {} /\ InFlight' = {} BY <1>3, <1>t, SetsSame DEF RepairQueue, Structure
    <2>2. \A u \in Queued(mq') : mq'[u].no = dq'[u].no
      BY <1>3, <1>t DEF RepairQueue, Merge, SnapshotMirrorsDisk, Queued, disk, TypeOK
    <2> QED BY <1>3, <2>1, <2>2, DiskSame
            DEF RepairQueue, MemoryMirrorsDisk, SnapshotMirrorsDisk
  <1>4. ASSUME NEW u \in Uid, Dispatch(u) PROVE Mirror'
    <2>1. u \in Queued(mq) /\ phase = "running"
      BY <1>4 DEF Dispatch, PopDepFailed, PopSkip, PopRun, CanDispatch, Free
    <2>2. PICK stage : Pop(u, stage) BY <1>4 DEF Dispatch, PopDepFailed, PopSkip, PopRun
    <2>3. ent'[u].row = mq[u] /\ \A v \in Uid \ {u} : ent'[v] = ent[v]
      BY <2>2, <1>t DEF Pop, TypeOK
    <2>4. \A v \in (Popped \cup InFlight)' : ent'[v].row.no = dq'[v].no
      BY <2>1, <2>2, <2>3 DEF Pop, disk, Popped, InFlight, MemoryMirrorsDisk
    <2>5. \A v \in Queued(mq') : mq'[v].no = dq'[v].no
      BY <2>1, <2>2, <1>t DEF Pop, disk, Queued, NoRow, TypeOK, MemoryMirrorsDisk
    <2> QED BY <2>1, <2>2, <2>4, <2>5, DiskSame DEF Pop, MemoryMirrorsDisk, SnapshotMirrorsDisk
  \* A move that takes u out of the main thread's hands and leaves the rest.
  <1>5. ASSUME NEW u \in Uid, phase \notin {"down", "loading"},
               phase' \notin {"down", "loading"},
               (Popped \cup InFlight)' \subseteq (Popped \cup InFlight) \ {u},
               \A v \in Uid \ {u} : ent'[v] = ent[v] /\ dq'[v].no = dq[v].no,
               \A v \in Uid \ {u} : mq'[v].no = mq[v].no,
               u \in Queued(mq') => mq'[u].no = dq'[u].no,
               msucc' = dsucc', mfail' = DFailed'
        PROVE  Mirror'
    <2>1. \A v \in (Popped \cup InFlight)' : ent'[v].row.no = dq'[v].no
      BY <1>5 DEF Popped, InFlight, MemoryMirrorsDisk
    <2>2. \A v \in Queued(mq') : mq'[v].no = dq'[v].no
      BY <1>5 DEF Queued, MemoryMirrorsDisk
    <2> QED BY <1>5, <2>1, <2>2 DEF MemoryMirrorsDisk, SnapshotMirrorsDisk
  <1>6. ASSUME NEW u \in Uid, u \in Popped \cup InFlight, Requeued(u),
               phase \notin {"down", "loading"}
        PROVE  Mirror'
    <2>1. phase' \notin {"down", "loading"} BY <1>6 DEF Requeued, CrashPhase
    <2>2. PICK row \in Row : row.no = ent[u].row.no /\ Requeue(u, row) /\ UNCHANGED disk
      BY <1>6 DEF Requeued
    <2>3. UNCHANGED <<dq, dsucc, DFailed>> BY <2>2, DiskSame
    <2>4. mq'[u] = row /\ \A v \in Uid \ {u} : mq'[v] = mq[v]
      BY <2>2, <1>t DEF Requeue, TypeOK
    <2>5. row.no = dq[u].no BY <1>6, <2>2 DEF MemoryMirrorsDisk
    <2> QED BY <1>5, <1>6, <1>t, <2>1, <2>2, <2>3, <2>4, <2>5, MoveSets
            DEF Requeue, MemoryMirrorsDisk
  <1>7. ASSUME NEW u \in Uid, u \in Popped \cup InFlight, Archived(u),
               phase \notin {"down", "loading"}
        PROVE  Mirror'
    <2>1. u \notin Queued(mq') BY <1>7, <1>t, ArchivedEffect DEF Exclusive, Queued
    <2>2. msucc' = dsucc' /\ mfail' = DFailed' /\ UNCHANGED <<mq, phase>>
      BY <1>7, <1>t, ArchivedEffect DEF MemoryMirrorsDisk
    <2> QED BY <1>5, <1>7, <1>t, <2>1, <2>2, ArchivedEffect, MoveSets
  <1>8. ASSUME NEW u \in Uid, Resolve(u) PROVE Mirror'
    <2>0. u \in Popped /\ phase = "running" BY <1>8, <1>t, ResolveMove
    <2>1. CASE Skipped(u)
      <3>1. u \notin Queued(mq') BY <2>0, <2>1, <1>t DEF Skipped, Exclusive, Queued
      <3>2. msucc' = dsucc' /\ mfail' = DFailed' /\ UNCHANGED <<mq, phase>>
        BY <2>0, <2>1, <1>t, CommitSkipEffect DEF Skipped, MemoryMirrorsDisk
      <3> QED BY <1>5, <2>0, <2>1, <1>t, <3>1, <3>2, CommitSkipEffect, MoveSets DEF Skipped
    <2>2. CASE Start(u)
      <3>1. ent'[u].row = ent[u].row /\ \A v \in Uid \ {u} : ent'[v] = ent[v]
        BY <2>2, <1>t DEF Start, TypeOK, Entry
      <3>2. \A v \in (Popped \cup InFlight)' : v \in Popped \cup InFlight /\ ent'[v].row = ent[v].row
        BY <2>0, <3>1 DEF Popped, InFlight
      <3> QED BY <2>0, <2>2, <3>2, DiskSame DEF Start, MemoryMirrorsDisk, SnapshotMirrorsDisk, Queued
    <2> QED BY <1>6, <1>7, <1>8, <1>t, <2>0, <2>1, <2>2, ResolveMove
  <1>9. ASSUME NEW u \in Uid, Settle(u) PROVE Mirror'
    <2>0. Settling(u) /\ u \in InFlight BY <1>9, <1>t, SettleMove DEF Settling, InFlight
    <2>1. phase \notin {"down", "loading"} BY <2>0 DEF Settling
    <2>2. CASE Retried(u)
      <3>0. ent[u].row.no > 0 BY <2>0, <1>t DEF Structure
      <3>1. PICK row \in Row : /\ row.no > 0 /\ CommitRetry(u, row) /\ Requeue(u, row)
                               /\ UNCHANGED phase
        BY <2>2, <3>0, <1>t, RetriedEffect
      <3>2. mq'[u] = row /\ \A v \in Uid \ {u} : mq'[v] = mq[v]
        BY <3>1, <1>t DEF Requeue, TypeOK
      <3>3. /\ \A v \in Uid : dq'[v].no = IF v = u THEN row.no ELSE dq[v].no
            /\ UNCHANGED <<dsucc, DFailed>>
        BY <3>1, <1>t, CommitRetryEffect
      <3>4. /\ (Popped \cup InFlight)' \subseteq (Popped \cup InFlight) \ {u}
            /\ \A v \in Uid \ {u} : ent'[v] = ent[v]
        BY <2>2, <1>t, MoveSets
      <3>5. msucc' = dsucc' /\ mfail' = DFailed'
        BY <2>1, <3>1, <3>3 DEF Requeue, MemoryMirrorsDisk
      <3> QED BY <1>5, <2>1, <3>1, <3>2, <3>3, <3>4, <3>5
    <2>3. CASE \E kids \in SUBSET (Uid \ Active) :
                  Succeeded(u, kids) /\ kids \cap Queued(dq) = {}
      <3>1. PICK kids \in SUBSET (Uid \ Active) :
                  Succeeded(u, kids) /\ kids \cap Queued(dq) = {}
        BY <2>3
      <3>2. /\ \A v \in Uid : dq'[v].no = IF v \in kids THEN 1 ELSE IF v = u THEN 0 ELSE dq[v].no
            /\ dsucc' = dsucc \cup {u} /\ DFailed' = DFailed \ {u}
        BY <3>1, <1>t, CommitSuccessEffect DEF Succeeded
      <3>3. (Popped \cup InFlight)' = InFlight \ {u} /\ \A v \in Uid \ {u} : ent'[v] = ent[v]
        BY <2>0, <3>1, <1>t, MoveSets DEF Settling
      <3>4. \A v \in InFlight \ {u} : ent'[v].row.no = dq'[v].no
        BY <2>1, <3>2, <3>3 DEF Active, MemoryMirrorsDisk, InFlight
      <3>5. \A v \in Uid : mq'[v].no = IF v \in kids THEN 1 ELSE mq[v].no
        BY <3>1 DEF Succeeded, NewRow
      <3>6. \A v \in Queued(mq') : mq'[v].no = dq'[v].no
        <4>1. u \notin Queued(mq) BY <2>0, <1>t DEF Exclusive
        <4> QED BY <2>1, <3>2, <3>5, <4>1 DEF Queued, MemoryMirrorsDisk
      <3> QED BY <2>1, <3>1, <3>2, <3>3, <3>4, <3>6
              DEF Succeeded, MemoryMirrorsDisk, SnapshotMirrorsDisk
    <2> QED BY <1>6, <1>7, <1>9, <1>t, <2>0, <2>1, <2>2, <2>3, SettleMove
  <1>10. ASSUME NEW us \in SUBSET Queued(mq), NEW gone \in SUBSET us,
                NEW why \in Errors \ {"none"},
                NEW crash \in {"crashing", "unwinding", "aborting"},
                BulkMove(us, gone, why, crash), phase \notin {"down", "loading"}
         PROVE  Mirror'
    <2>1. gone \in SUBSET Uid BY DEF Queued
    <2>2. /\ \A v \in Uid : dq'[v].no = IF v \in gone THEN 0 ELSE dq[v].no
          /\ dsucc' = dsucc \ gone /\ DFailed' = DFailed \cup gone
      BY <1>10, <1>t, <2>1, CommitFailureEffect DEF BulkMove
    <2>3. \A v \in (Popped \cup InFlight)' : ent'[v].row.no = dq'[v].no
      <3>1. (Popped \cup InFlight)' = Popped \cup InFlight /\ UNCHANGED ent
        BY <1>10, SetsSame DEF BulkMove
      <3>2. (Popped \cup InFlight) \cap gone = {} BY <1>t DEF Exclusive
      <3>3. Popped \cup InFlight \subseteq Uid BY DEF Popped, InFlight
      <3> QED BY <1>10, <2>2, <3>1, <3>2, <3>3 DEF MemoryMirrorsDisk
    <2>4. \A v \in Queued(mq') : mq'[v].no = dq'[v].no
      BY <1>10, <2>2 DEF BulkMove, Queued, MemoryMirrorsDisk
    <2> QED BY <1>10, <2>2, <2>3, <2>4 DEF BulkMove, MemoryMirrorsDisk, SnapshotMirrorsDisk
  <1>11. ASSUME AbortInFlight PROVE Mirror'
    <2>0. phase \notin {"down", "loading"} BY <1>11 DEF AbortInFlight, Free
    <2>1. PICK done \in SUBSET InFlight :
            /\ mq' = [u \in Uid |-> IF u \in InFlight \ done THEN ent[u].row ELSE mq[u]]
            /\ ent' = [u \in Uid |-> IF u \in InFlight \ done THEN Idle ELSE ent[u]]
      BY <1>11 DEF AbortInFlight
    <2>2. UNCHANGED <<dq, dsucc, DFailed, msucc, mfail>> BY <1>11, DiskSame DEF AbortInFlight
    <2>3. \A v \in (Popped \cup InFlight)' : ent'[v].row.no = dq'[v].no
      BY <2>0, <2>1, <2>2 DEF Popped, InFlight, Idle, MemoryMirrorsDisk
    <2>4. \A v \in Queued(mq') : mq'[v].no = dq'[v].no
      BY <2>0, <2>1, <2>2 DEF Queued, MemoryMirrorsDisk
    <2> QED BY <1>11, <2>0, <2>2, <2>3, <2>4 DEF AbortInFlight, MemoryMirrorsDisk, SnapshotMirrorsDisk
  <1>12. ASSUME GoDown PROVE Mirror'
    BY <1>12 DEF GoDown, MemoryMirrorsDisk, SnapshotMirrorsDisk
  <1>13. CASE Cascade
    <2>1. phase \notin {"down", "loading"} BY <1>13, <1>t, CascadeMove DEF Structure
    <2> QED BY <1>10, <1>13, <1>t, <2>1, CascadeMove
  <1>14. CASE Arbitrate
    <2>1. phase \notin {"down", "loading"} BY <1>14, <1>t, ArbitrateMove DEF Free
    <2> QED BY <1>10, <1>14, <1>t, <2>1, ArbitrateMove
  <1>15. ASSUME NEW u \in Uid, DispatchRaises(u) PROVE Mirror'
    BY <1>0, <1>15 DEF DispatchRaises, CanDispatch, Free, disk, memory
  <1> QED BY <1>0, <1>1, <1>2, <1>3, <1>4, <1>8, <1>9, <1>11, <1>12, <1>13, <1>14, <1>15
          DEF Next, RequestStop, SaveQueue, Finish, Kill, OrphanExits, Interrupt, Interrupted,
              CommitInterrupted, AbortInterrupted, vars, disk, memory

\* Only the archive of a dispatched job, and the first attempt of one that has
\* no result, keep a "once" job from being retried after it was settled.
LEMMA OnceStep ==
    ASSUME ~ Interrupts, Inductive, Mirror, OnceUnsettled, [Next]_vars
    PROVE  OnceUnsettled'
  <1> SUFFICES ASSUME NEW w \in Uid, Trigger[w] = "once"
               PROVE  /\ dq'[w].no > 1 => w \notin dsucc' \cup DFailed'
                      /\ ent'[w].stage \in {"opened", "running"} => w \notin dsucc' \cup DFailed'
    BY DEF OnceUnsettled
  <1> DEFINE Goal == /\ dq'[w].no > 1 => w \notin dsucc' \cup DFailed'
                     /\ ent'[w].stage \in {"opened", "running"} => w \notin dsucc' \cup DFailed'
  <1>t. TypeOK /\ Structure /\ Exclusive BY DEF Inductive
  <1>w. /\ dq[w].no > 1 => w \notin dsucc \cup DFailed
        /\ ent[w].stage \in {"opened", "running"} => w \notin dsucc \cup DFailed
    BY DEF OnceUnsettled
  <1>m. phase \notin {"down", "loading"} =>
            /\ \A u \in Queued(mq) : mq[u].no = dq[u].no
            /\ \A u \in Popped \cup InFlight : ent[u].row.no = dq[u].no
            /\ msucc = dsucc /\ mfail = DFailed
    BY DEF Mirror, MemoryMirrorsDisk
  <1>0. ASSUME UNCHANGED <<dq, dsucc, dfail>>,
               ent'[w].stage \in {"opened", "running"} => ent[w].stage \in {"opened", "running"}
        PROVE  Goal
    BY <1>0, <1>w DEF DFailed
  <1>1. ASSUME NEW u \in Uid, Enqueue(u) PROVE Goal
    <2>1. dq'[w].no > 1 => dq[w].no > 1 BY <1>1, <1>t, EnqueueEffect
    <2>2. UNCHANGED <<dsucc, DFailed, ent>> BY <1>1, <1>t, EnqueueEffect DEF Enqueue, memory
    <2> QED BY <1>w, <2>1, <2>2
  <1>2. ASSUME Load PROVE Goal
    BY <1>2, <1>w DEF Load, DFailed
  <1>3. ASSUME NEW u \in Uid, Dispatch(u) PROVE Goal
    <2>1. u \in Queued(mq) /\ phase = "running"
      BY <1>3 DEF Dispatch, PopDepFailed, PopSkip, PopRun, CanDispatch, Free
    <2>2. PICK stage \in {"dep_failed", "skip", "opened"} :
             Pop(u, stage) /\ (stage = "opened" => Admitted(u))
      BY <1>3 DEF Dispatch, PopDepFailed, PopSkip, PopRun
    <2>3. CASE w # u \/ stage # "opened"
      BY <1>0, <1>t, <2>2, <2>3 DEF Pop, disk, TypeOK
    <2>4. CASE w = u /\ stage = "opened"
      <3>1. CASE mq[u].no > 1
        BY <1>m, <1>w, <2>1, <2>2, <2>4, <3>1, DiskSame DEF Pop
      <3>2. CASE TRUE \in Verdicts(u)
        <4>1. u \notin msucc \cup mfail BY <2>4, <3>2 DEF Verdicts
        <4> QED BY <1>m, <2>1, <2>2, <2>4, <4>1, DiskSame DEF Pop
      <3> QED BY <2>2, <2>4, <3>1, <3>2 DEF Admitted
    <2> QED BY <2>3, <2>4
  <1>4. ASSUME NEW u \in Uid, Requeued(u) PROVE Goal
    BY <1>0, <1>t, <1>4 DEF Requeued, Requeue, disk, Idle, TypeOK
  <1>5. ASSUME NEW u \in Uid, Archived(u) PROVE Goal
    BY <1>5, <1>t, <1>w, ArchivedEffect DEF Idle, TypeOK
  <1>6. ASSUME NEW u \in Uid, Resolve(u) PROVE Goal
    <2>1. CASE Skipped(u)
      BY <2>1, <1>t, <1>w, CommitSkipEffect DEF Skipped, Idle, TypeOK
    <2>2. CASE Start(u)
      BY <1>0, <2>2, <1>t DEF Start, Opened, disk, TypeOK
    <2> QED BY <1>4, <1>5, <1>6, <1>t, <2>1, <2>2, ResolveMove
  <1>7. ASSUME NEW u \in Uid, Settle(u) PROVE Goal
    <2>0. Settling(u) /\ u \in InFlight BY <1>7, <1>t, SettleMove DEF Settling, InFlight
    <2>1. CASE Retried(u)
      <3>0. ent[u].row.no > 0 BY <2>0, <1>t DEF Structure
      <3>1. PICK row \in Row : row.no > 0 /\ CommitRetry(u, row) /\ Requeue(u, row)
        BY <2>1, <3>0, <1>t, RetriedEffect
      <3>2. ent' = [ent EXCEPT ![u] = Idle] BY <3>1 DEF Requeue
      <3>3. /\ \A v \in Uid : dq'[v].no = IF v = u THEN row.no ELSE dq[v].no
            /\ UNCHANGED <<dsucc, DFailed>>
        BY <3>1, <1>t, CommitRetryEffect
      <3>4. ent[u].stage = "running" BY <2>0 DEF Settling
      <3> QED BY <1>t, <1>w, <3>2, <3>3, <3>4 DEF Idle, TypeOK
    <2>2. CASE \E kids \in SUBSET (Uid \ Active) : Succeeded(u, kids)
      <3>1. PICK kids \in SUBSET (Uid \ Active) : Succeeded(u, kids) BY <2>2
      <3>2. /\ \A v \in Uid : dq'[v].no = IF v \in kids THEN 1 ELSE IF v = u THEN 0 ELSE dq[v].no
            /\ dsucc' = dsucc \cup {u} /\ DFailed' = DFailed \ {u}
        BY <3>1, <1>t, CommitSuccessEffect DEF Succeeded
      <3>3. ent'[u] = Idle /\ \A v \in Uid \ {u} : ent'[v] = ent[v]
        BY <3>1, <1>t DEF Succeeded, TypeOK
      <3> QED BY <1>w, <3>2, <3>3 DEF Idle
    <2> QED BY <1>4, <1>5, <1>7, <1>t, <2>1, <2>2, SettleMove
  <1>8. ASSUME NEW us \in SUBSET Queued(mq), NEW gone \in SUBSET us,
               NEW why \in Errors \ {"none"}, NEW crash, BulkMove(us, gone, why, crash)
        PROVE  Goal
    <2>1. gone \in SUBSET Uid BY DEF Queued
    <2>2. /\ \A v \in Uid : dq'[v].no = IF v \in gone THEN 0 ELSE dq[v].no
          /\ dsucc' = dsucc \ gone /\ DFailed' = DFailed \cup gone
      BY <1>8, <1>t, <2>1, CommitFailureEffect DEF BulkMove
    <2>3. w \in gone => w \notin Popped \cup InFlight BY <1>t DEF Exclusive
    <2> QED BY <1>8, <1>w, <2>2, <2>3 DEF BulkMove, Popped, InFlight
  <1>9. CASE Cascade BY <1>8, <1>9, <1>t, CascadeMove
  <1>10. CASE Arbitrate BY <1>8, <1>10, <1>t, ArbitrateMove
  <1>11. ASSUME AbortInFlight PROVE Goal
    BY <1>0, <1>11 DEF AbortInFlight, disk, Idle
  <1>12. ASSUME GoDown PROVE ent'[w].stage = "idle"
    BY <1>12 DEF GoDown, NoEntries, Idle
  <1>13. ASSUME SaveQueue PROVE Goal
    <2>1. phase \notin {"down", "loading"} BY <1>13 DEF SaveQueue, Free
    <2>2. dq'[w].no = dq[w].no BY <1>13, <1>t, <1>m, <2>1, SaveQueueEffect
    <2> QED BY <1>12, <1>13, <1>t, <1>w, <2>2, SaveQueueEffect DEF SaveQueue
  <1>14. ASSUME Finish \/ Kill PROVE Goal
    BY <1>0, <1>12, <1>14 DEF Finish, Kill, disk
  <1> QED BY <1>0, <1>1, <1>2, <1>3, <1>6, <1>7, <1>9, <1>10, <1>11, <1>13, <1>14
          DEF Next, RepairQueue, DispatchRaises, RequestStop, OrphanExits, Interrupt,
              Interrupted, CommitInterrupted, AbortInterrupted, vars, disk, memory

LEMMA InitUninterrupted == Init => InductiveUninterrupted
  <1> SUFFICES ASSUME Init PROVE InductiveUninterrupted OBVIOUS
  <1>1. Inductive BY InitInductive
  <1>2. OnceUnsettled
    BY DEF Init, OnceUnsettled, EmptyQueue, NoEntries, Idle, NoRow
  <1> QED BY <1>1, <1>2
          DEF Init, InductiveUninterrupted, MemoryMirrorsDisk, SnapshotMirrorsDisk

LEMMA UninterruptedStep ==
    ASSUME ~ Interrupts
    PROVE  InductiveUninterrupted /\ [Next]_vars => InductiveUninterrupted'
  <1> SUFFICES ASSUME InductiveUninterrupted, [Next]_vars PROVE InductiveUninterrupted'
    OBVIOUS
  <1>1. Inductive' BY InductiveStep DEF InductiveUninterrupted
  <1>2. Mirror' BY <1>1, MirrorStep DEF InductiveUninterrupted, Mirror
  <1>3. OnceUnsettled' BY OnceStep DEF InductiveUninterrupted, Mirror
  <1> QED BY <1>1, <1>2, <1>3 DEF InductiveUninterrupted, Mirror

\* The inductive invariant of a run that is not interrupted.
THEOREM UninterruptedInvariant ==
    ASSUME ~ Interrupts PROVE Spec => []InductiveUninterrupted
  BY InitUninterrupted, UninterruptedStep, PTL DEF Spec

\* While the main process works, its queue and the jobs in its hands are rows
\* of the disk queue at the same attempt, and its archives are the disk's.
THEOREM MirrorHolds ==
    ASSUME ~ Interrupts PROVE Spec => []MemoryMirrorsDisk
  <1>1. InductiveUninterrupted => MemoryMirrorsDisk BY DEF InductiveUninterrupted
  <1> QED BY <1>1, UninterruptedInvariant, PTL

\* A "once" job with a result is never executed again.
THEOREM OnceHolds ==
    ASSUME ~ Interrupts PROVE Spec => OnceNotRerun
  <1> DEFINE Step == \A u \in Uid : Starts(u) /\ Trigger[u] = "once" => u \notin dsucc \cup DFailed
  <1>1. ASSUME InductiveUninterrupted, [Next]_vars PROVE [Step]_vars
    <2> SUFFICES ASSUME NEW u \in Uid, Starts(u), Trigger[u] = "once"
                 PROVE  u \notin dsucc \cup DFailed
      OBVIOUS
    <2>1. ent[u].stage = "opened"
      BY <1>1, OnlyStartStarts DEF InductiveUninterrupted, Inductive, Start, Opened
    <2> QED BY <1>1, <2>1 DEF InductiveUninterrupted, OnceUnsettled
  <1>2. Spec => [][Step]_vars
    BY <1>1, UninterruptedInvariant, PTL DEF Spec
  <1> QED BY <1>2 DEF OnceNotRerun

-----------------------------------------------------------------------------
(* The engine implements the ledger.                                        *)

LEMMA LedgerInit == Init => Contract!Init
  BY DEF Init, Contract!Init, Queued, DFailed, EmptyQueue, NoRow

LEMMA LedgerStep ==
    ASSUME ~ Interrupts, InductiveUninterrupted, [Next]_vars
    PROVE  [Contract!Next]_(Contract!ledger)
  <1>t. TypeOK /\ Structure /\ Exclusive BY DEF InductiveUninterrupted, Inductive
  <1>h. phase \notin {"down", "loading"} => Queued(mq) \cup Popped \cup InFlight \subseteq Queued(dq)
    BY HeldOnDisk DEF InductiveUninterrupted
  <1> DEFINE Goal == [Contract!Next]_(Contract!ledger)
  <1>0. ASSUME UNCHANGED <<dq, dsucc, dfail>> PROVE Goal
    BY <1>0 DEF Contract!ledger, Queued, DFailed
  <1>1. ASSUME NEW u \in Uid, Enqueue(u) PROVE Goal
    BY <1>1, <1>t, EnqueueEffect DEF Contract!Next, Contract!Accept
  <1>2. ASSUME Load PROVE Goal
    <2>1. UNCHANGED dsucc BY <1>2, <1>t DEF Load, Exclusive
    <2> QED BY <1>0, <1>2, <2>1 DEF Load
  <1>3. ASSUME NEW u \in Uid, u \in Queued(dq), Archived(u) PROVE Goal
    <2>1. Contract!Fail({u}) BY <1>3, <1>t, ArchivedEffect DEF Contract!Fail
    <2> QED BY <2>1 DEF Contract!Next
  <1>4. ASSUME NEW u \in Uid, Resolve(u) PROVE Goal
    <2>0. u \in Queued(dq) BY <1>4, <1>t, <1>h, ResolveMove
    <2>1. CASE Skipped(u)
      BY <2>0, <2>1, <1>t, CommitSkipEffect DEF Skipped, Contract!Next, Contract!Skip
    <2>2. CASE Requeued(u) \/ Start(u) BY <1>0, <2>2 DEF Requeued, Start, disk
    <2> QED BY <1>3, <1>4, <1>t, <2>0, <2>1, <2>2, ResolveMove
  <1>5. ASSUME NEW u \in Uid, Settle(u) PROVE Goal
    <2>0. u \in Queued(dq) /\ ent[u].row.no > 0
      BY <1>5, <1>t, <1>h, SettleMove DEF Settling, InFlight, Structure
    <2>1. CASE Requeued(u) BY <1>0, <2>1 DEF Requeued, disk
    <2>2. CASE Retried(u)
      <3>1. PICK row \in Row : row.no > 0 /\ CommitRetry(u, row)
        BY <2>0, <2>2, <1>t, RetriedEffect
      <3> QED BY <2>0, <3>1, <1>t, CommitRetryEffect DEF Contract!ledger
    <2>3. CASE \E kids \in SUBSET (Uid \ Active) :
                  Succeeded(u, kids) /\ kids \cap Queued(dq) = {}
      <3>1. PICK kids \in SUBSET (Uid \ Active) :
                  Succeeded(u, kids) /\ kids \cap Queued(dq) = {}
        BY <2>3
      <3>2. Contract!Succeed(u, kids)
        BY <2>0, <3>1, <1>t, CommitSuccessEffect DEF Succeeded, Contract!Succeed
      <3> QED BY <3>2 DEF Contract!Next
    <2> QED BY <1>3, <1>5, <1>t, <2>0, <2>1, <2>2, <2>3, SettleMove
  <1>6. ASSUME NEW us \in SUBSET Queued(mq), NEW gone \in SUBSET us,
               NEW why \in Errors \ {"none"}, NEW crash, BulkMove(us, gone, why, crash),
               phase \notin {"down", "loading"}
        PROVE  Goal
    <2>1. gone \in SUBSET Uid BY DEF Queued
    <2>2. Contract!Fail(gone)
      BY <1>6, <1>t, <1>h, <2>1, CommitFailureEffect DEF BulkMove, Contract!Fail
    <2> QED BY <2>1, <2>2 DEF Contract!Next
  <1>7. CASE Cascade
    <2>1. phase \notin {"down", "loading"} BY <1>7, <1>t, CascadeMove DEF Structure
    <2> QED BY <1>6, <1>7, <1>t, <2>1, CascadeMove
  <1>8. CASE Arbitrate
    <2>1. phase \notin {"down", "loading"} BY <1>8, <1>t, ArbitrateMove DEF Free
    <2> QED BY <1>6, <1>8, <1>t, <2>1, ArbitrateMove
  \* A save brings no settled job back: what memory has, the disk has.
  <1>9. ASSUME SaveQueue PROVE Goal
    <2>1. phase \notin {"down", "loading"} BY <1>9 DEF SaveQueue, Free
    <2>2. Queued(dq') = Queued(dq) BY <1>9, <1>t, <1>h, <2>1, SaveQueueEffect
    <2> QED BY <1>9, <1>t, <2>2, SaveQueueEffect DEF Contract!ledger
  <1> QED BY <1>0, <1>1, <1>2, <1>4, <1>5, <1>7, <1>8, <1>9
          DEF Next, RepairQueue, Dispatch, PopDepFailed, PopSkip, PopRun, Pop, DispatchRaises,
              RequestStop, AbortInFlight, Finish, Kill, OrphanExits, Interrupt, Interrupted,
              CommitInterrupted, AbortInterrupted, vars, disk, memory

\* The engine, with its copies of the queue, its crashes and its saves, keeps
\* the contract of the ledger.
THEOREM ImplementsLedger ==
    ASSUME ~ Interrupts PROVE Spec => KeepsLedger
  <1>1. InductiveUninterrupted /\ [Next]_vars => [Contract!Next]_(Contract!ledger)
    BY LedgerStep
  <1>2. Spec => Contract!Spec
    BY <1>1, LedgerInit, UninterruptedInvariant, PTL DEF Spec, Contract!Spec
  <1> QED BY <1>2 DEF KeepsLedger
=============================================================================
