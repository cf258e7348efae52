------------------------------- MODULE Engine -------------------------------
(***************************************************************************)
(* The job ledger of tasklite: the SQLite tables (queue, successes,        *)
(* failed), the in-memory PipelineState that mirrors them during a run,    *)
(* and everything that moves a job between them - enqueueing from any      *)
(* process, load and repair, dispatch, settlement of worker results,       *)
(* cascades, the commit-failure strikes, the crash net, and the death of   *)
(* the main process at any point between two transactions.                 *)
(*                                                                         *)
(* A job is its uid.  Its queue row keeps the fields that decide anything: *)
(* the attempt number and the two failure counters of JobRuntimeState.     *)
(* The order of the queue is left out: OrderingPolicy is pluggable, so any *)
(* runnable row may be the first one visited.                              *)
(***************************************************************************)
EXTENDS Naturals, FiniteSets

CONSTANTS
    Uid,            \* jobs, by uid
    Deps,           \* depends_on
    Trigger,        \* "once", "on_failure", "always" or "custom"
    Spawns,         \* the children a job's handler may spawn
    Registered,     \* jobs whose task_type has a registered Task
    Invalid,        \* jobs whose payload its payload_schema rejects
    Contended,      \* jobs that need a rate-limited or suspendable resource
    Slots,          \* worker slots
    MaxRetries,     \* max_retries
    Threshold,      \* COMMIT_FAILURE_THRESHOLD
    Interrupts,     \* run(install_signals=False): KeyboardInterrupt is raised
    Limits          \* how often the environment does what (see Budgets)

Triggers == {"once", "on_failure", "always", "custom"}

\* What the environment may do a bounded number of times: enqueue a job, fail
\* a backend call, kill the main process, answer with a transient signal, ask
\* for a stop, interrupt the main thread.
Budgets == {"enqueue", "fault", "kill", "transient", "stop", "interrupt"}

ASSUME ConstantsAssumption ==
    /\ IsFiniteSet(Uid)
    /\ Deps \in [Uid -> SUBSET Uid]
    /\ Trigger \in [Uid -> Triggers]
    /\ Spawns \in [Uid -> SUBSET Uid]
    /\ Registered \subseteq Uid /\ Invalid \subseteq Uid /\ Contended \subseteq Uid
    /\ Slots \in Nat \ {0}
    /\ MaxRetries \in Nat
    /\ Threshold \in Nat \ {0}
    /\ Interrupts \in BOOLEAN
    /\ Limits \in [Budgets -> Nat]

VARIABLES
    \* The database.
    dq,         \* queue: the row of each uid, NoRow if it has none
    dsucc,      \* successes
    dfail,      \* failed: the error each uid is archived with, "none" if not
    \* The main process of a run.
    phase,      \* where execute() is, "down" when no run holds the run lock
    snap,       \* the queue as load_queue() first read it
    mq,         \* PipelineState.queue
    msucc,      \* PipelineState.successes
    mfail,      \* PipelineState.failed
    tskip,      \* PipelineState.trigger_skipped_uids
    ent,        \* the job each uid is popped as: its stage and its snapshot
    casc,       \* the cascade still owed by the failure being applied
    stop,       \* RunSession.stop_mode
    \* The world.
    orphans,    \* uids whose lock an execution body of a dead run still holds
    left,       \* what the environment may still do
    owed        \* history: accepted into the queue and not settled since

disk == <<dq, dsucc, dfail, owed>>
memory == <<snap, mq, msucc, mfail, tskip, ent, casc>>
vars == <<disk, memory, phase, stop, orphans, left>>

-----------------------------------------------------------------------------
(* Rows, entries and the sets the code derives from them.                   *)

\* A queue row: attempt_no and JobRuntimeState's _commit_failures and
\* _dispatch_failures.  since is history: how many commits of the job have
\* failed since one last succeeded.
Row == [no : Nat, cf : Nat, df : Nat, since : Nat]
NoRow == [no |-> 0, cf |-> 0, df |-> 0, since |-> 0]
NewRow == [no |-> 1, cf |-> 0, df |-> 0, since |-> 0]

\* record_commit_failure; record_dispatch_failure; the row of the next attempt
\* (both counters are carried over); a requeue that costs no attempt.
Struck(row) == [no |-> row.no, cf |-> row.cf + 1, df |-> row.df, since |-> row.since + 1]
Undispatched(row) == [row EXCEPT !.df = @ + 1]
RetryRow(row) == [no |-> row.no + 1, cf |-> row.cf, df |-> row.df, since |-> 0]
SameAttempt(row) == [row EXCEPT !.since = 0]

Errors == {"none", "failed", "retries", "dependency", "no_handler", "payload",
           "dispatch", "commit", "deadlock"}

Phases == {"down", "loading", "running", "crashing", "unwinding", "aborting"}

\* A popped job is about to be rejected for a failed dependency, about to be
\* skipped, waiting for its worker, or in flight.
Stages == {"idle", "dep_failed", "skip", "opened", "running"}
Entry == [stage : Stages, row : Row]
Idle == [stage |-> "idle", row |-> NoRow]

EmptyQueue == [u \in Uid |-> NoRow]
NoEntries == [u \in Uid |-> Idle]

Queued(q) == {u \in Uid : q[u].no > 0}
DFailed == {u \in Uid : dfail[u] # "none"}
Popped == {u \in Uid : ent[u].stage \in {"dep_failed", "skip", "opened"}}
InFlight == {u \in Uid : ent[u].stage = "running"}
Active == Queued(mq) \cup InFlight

\* The main thread is between two jobs.
Free == phase = "running" /\ Popped = {} /\ casc = {}

Spend(what, n) == left[what] >= n /\ left' = [left EXCEPT ![what] = @ - n]

-----------------------------------------------------------------------------
(* The scheduler's classification of a queued job.                          *)

Failing(u) == \E d \in Deps[u] : d \notin Active \cup tskip /\ d \in mfail

Missing(u) ==
    /\ ~ Failing(u)
    /\ \E d \in Deps[u] : d \notin Active \cup tskip \cup mfail \cup msucc

\* Faulty variant: a dependency queued again counts with its old success.
RunnableOnHistory(u) == \A d \in Deps[u] : d \in tskip \cup (msucc \ mfail)

Runnable(u) == \A d \in Deps[u] : d \notin Active /\ d \in tskip \cup (msucc \ mfail)

\* No queued job can be dispatched for certain: whatever is runnable waits for
\* a resource.
Blocked == \A u \in Queued(mq) : Runnable(u) => u \in Contended

\* The verdicts TriggerRegistry.admit may give: the custom ones (user triggers
\* and on_input_change) depend on the outside world.
Verdicts(u) ==
    CASE Trigger[u] = "once"       -> {u \notin msucc \cup mfail}
      [] Trigger[u] = "on_failure" -> {u \notin msucc}
      [] Trigger[u] = "always"     -> {TRUE}
      [] OTHER                     -> BOOLEAN

\* The queued jobs of Q that depend, through jobs of Q, on f.
Downstream(f, Q) ==
    LET Closed == {S \in SUBSET Q : \A v \in Q : Deps[v] \cap (S \cup {f}) # {} => v \in S}
    IN  {v \in Q : \A S \in Closed : v \in S}

-----------------------------------------------------------------------------
(* The transactions of the backend, each with what it settles.              *)

\* Faulty variant: the old success of a job that now fails is kept.
CommitFailureKeepsSuccess(us, why) ==
    /\ dq' = [u \in Uid |-> IF u \in us THEN NoRow ELSE dq[u]]
    /\ dfail' = [u \in Uid |-> IF u \in us THEN why ELSE dfail[u]]
    /\ owed' = owed \ us
    /\ UNCHANGED dsucc

CommitFailure(us, why) ==
    /\ dq' = [u \in Uid |-> IF u \in us THEN NoRow ELSE dq[u]]
    /\ dsucc' = dsucc \ us
    /\ dfail' = [u \in Uid |-> IF u \in us THEN why ELSE dfail[u]]
    /\ owed' = owed \ us

CommitSuccess(u, kids) ==
    /\ dq' = [v \in Uid |-> IF v \in kids THEN NewRow ELSE IF v = u THEN NoRow ELSE dq[v]]
    /\ dsucc' = dsucc \cup {u}
    /\ dfail' = [dfail EXCEPT ![u] = "none"]
    /\ owed' = (owed \ {u}) \cup kids

CommitRetry(u, row) ==
    /\ dq' = [dq EXCEPT ![u] = row]
    /\ UNCHANGED <<dsucc, dfail, owed>>

CommitSkip(u) ==
    /\ dq' = [dq EXCEPT ![u] = NoRow]
    /\ owed' = owed \ {u}
    /\ UNCHANGED <<dsucc, dfail>>

-----------------------------------------------------------------------------
(* What the main process does to its memory.                                *)

\* Back to the queue: spawn_jobs and requeue_jobs clear the skip mark.
Requeue(u, row) ==
    /\ mq' = [mq EXCEPT ![u] = row]
    /\ ent' = [ent EXCEPT ![u] = Idle]
    /\ tskip' = tskip \ {u}
    /\ UNCHANGED <<snap, msucc, mfail, casc>>

\* mark_failed_memory, after which the failure may owe a cascade.
MarkFailed(u, cascade) ==
    /\ msucc' = msucc \ {u}
    /\ mfail' = mfail \cup {u}
    /\ tskip' = tskip \ {u}
    /\ ent' = [ent EXCEPT ![u] = Idle]
    /\ casc' = cascade
    /\ UNCHANGED <<snap, mq>>

\* Where a _CommitCrashSignal raised for u takes the run: out of a settlement
\* the rest of the reaped batch is still settled; out of a dispatch it goes
\* straight to the crash net; the abort itself carries on.
CrashPhase(u) ==
    IF phase # "running" THEN phase
    ELSE IF ent[u].stage = "running" THEN "crashing" ELSE "unwinding"

RequeueAndCrash(u, row) ==
    /\ Requeue(u, row)
    /\ phase' = CrashPhase(u)
    /\ UNCHANGED disk

\* A commit for u returned False (n is what that cost the environment): count
\* the strike; from the threshold on archive the job, and crash if that fails
\* too.  The archived job's dependents are not cascaded.
Strike(u, row, n) ==
    \/ /\ row.cf + 1 < Threshold
       /\ Spend("fault", n)
       /\ RequeueAndCrash(u, Struck(row))
    \/ /\ row.cf + 1 >= Threshold
       /\ Spend("fault", n)
       /\ CommitFailure({u}, "commit")
       /\ MarkFailed(u, {})
       /\ UNCHANGED phase
    \/ /\ row.cf + 1 >= Threshold
       /\ Spend("fault", n + 1)
       /\ RequeueAndCrash(u, Struck(row))

\* apply_failure.
Archive(u, row, why) ==
    \/ /\ CommitFailure({u}, why)
       /\ MarkFailed(u, {<<u, CrashPhase(u)>>})
       /\ UNCHANGED <<phase, left>>
    \/ Strike(u, row, 1)

\* The failure of a set of queued jobs in one transaction.
BulkCommitted(us, why) ==
    /\ CommitFailure(us, why)
    /\ mq' = [u \in Uid |-> IF u \in us THEN NoRow ELSE mq[u]]
    /\ msucc' = msucc \ us
    /\ mfail' = mfail \cup us
    /\ tskip' = tskip \ us
    /\ UNCHANGED <<phase, left>>

\* When that transaction returns False, a strike on each of them: archived are
\* those that reach the threshold and whose own transaction succeeds; the run
\* crashes if any is kept.
BulkStruck(us, crash) ==
    LET due == {u \in us : mq[u].cf + 1 >= Threshold}
    IN  \E archived \in SUBSET due :
           /\ us # {}
           /\ Spend("fault", 1 + Cardinality(due \ archived))
           /\ CommitFailure(archived, "commit")
           /\ mq' = [u \in Uid |-> IF u \in archived THEN NoRow
                                   ELSE IF u \in us THEN Struck(mq[u]) ELSE mq[u]]
           /\ msucc' = msucc \ archived
           /\ mfail' = mfail \cup archived
           /\ tskip' = tskip \ archived
           /\ phase' = IF us = archived THEN phase ELSE crash

BulkFailure(us, why, crash) ==
    /\ casc' = {}
    /\ UNCHANGED <<snap, ent>>
    /\ BulkCommitted(us, why) \/ BulkStruck(us, crash)

\* The run is over; its memory goes with it.
GoDown ==
    /\ phase' = "down"
    /\ stop' = "none"
    /\ snap' = EmptyQueue /\ mq' = EmptyQueue
    /\ msucc' = {} /\ mfail' = {} /\ tskip' = {} /\ casc' = {}
    /\ ent' = NoEntries

-----------------------------------------------------------------------------
(* The start of a run.                                                      *)

\* Any process may enqueue at any time; a uid the queue table holds is skipped.
Enqueue(u) ==
    /\ u \notin Queued(dq)
    /\ Spend("enqueue", 1)
    /\ dq' = [dq EXCEPT ![u] = NewRow]
    /\ owed' = owed \cup {u}
    /\ UNCHANGED <<dsucc, dfail, memory, phase, stop, orphans>>

\* The first reads of load_and_repair, after the run lock is taken.  A uid in
\* both successes and failed converges to failed, on disk and in memory.
Load ==
    /\ phase = "down"
    /\ phase' = "loading"
    /\ stop' = "none"
    /\ msucc' = dsucc \ DFailed
    /\ mfail' = DFailed
    /\ dsucc' = dsucc \ DFailed
    /\ snap' = dq
    /\ UNCHANGED <<dq, dfail, owed, mq, tskip, ent, casc, orphans, left>>

\* Faulty variant: one copy of the queue replaces the other.
MergeOverwrites(rows, more) == rows

\* repair_queue_on_load reads the queue again and merges; the snapshot alone
\* is used when that read fails.
Merge(rows, more) == [u \in Uid |-> IF u \in Queued(rows) THEN rows[u] ELSE more[u]]

RepairQueue ==
    /\ phase = "loading"
    /\ phase' = "running"
    /\ \/ mq' = Merge(dq, snap) /\ UNCHANGED left
       \/ mq' = snap /\ Spend("fault", 1)
    /\ snap' = EmptyQueue
    /\ UNCHANGED <<disk, msucc, mfail, tskip, ent, casc, stop, orphans>>

-----------------------------------------------------------------------------
(* Dispatch.                                                                *)

CanDispatch(u) ==
    /\ Free
    /\ stop = "none"
    /\ Cardinality(InFlight) < Slots
    /\ u \in Queued(mq)

Pop(u, stage) ==
    /\ mq' = [mq EXCEPT ![u] = NoRow]
    /\ ent' = [ent EXCEPT ![u] = [stage |-> stage, row |-> mq[u]]]
    /\ UNCHANGED <<disk, snap, msucc, mfail, tskip, casc, phase, stop, orphans, left>>

\* A job whose dependency has failed is taken only when nothing is runnable.
PopDepFailed(u) ==
    /\ CanDispatch(u)
    /\ Failing(u)
    /\ Blocked
    /\ Pop(u, "dep_failed")

PopSkip(u) ==
    /\ CanDispatch(u)
    /\ Runnable(u)
    /\ mq[u].no <= 1
    /\ FALSE \in Verdicts(u)
    /\ Pop(u, "skip")

\* Faulty variant: the trigger is not asked.
AdmittedUnasked(u) == mq[u].no >= 1

\* An activation: the trigger admits a first attempt; a retry is not asked.
Admitted(u) == mq[u].no > 1 \/ TRUE \in Verdicts(u)

PopRun(u) ==
    /\ CanDispatch(u)
    /\ Runnable(u)
    /\ Admitted(u)
    /\ Pop(u, "opened")

\* The trigger raises, or the attempt row cannot be written: the job is (put)
\* back in the queue and the run crashes.
DispatchRaises(u) ==
    /\ CanDispatch(u)
    /\ Runnable(u)
    /\ Spend("fault", 1)
    /\ phase' = "unwinding"
    /\ UNCHANGED <<disk, memory, stop, orphans>>

\* apply_skip: a skip whose commit fails is never archived.
Skip(u) ==
    /\ phase = "running" /\ ent[u].stage = "skip"
    /\ \/ /\ CommitSkip(u)
          /\ ent' = [ent EXCEPT ![u] = Idle]
          /\ tskip' = tskip \cup {u}
          /\ UNCHANGED <<snap, mq, msucc, mfail, casc, phase, left>>
       \/ /\ Spend("fault", 1)
          /\ RequeueAndCrash(u, ent[u].row)
    /\ UNCHANGED <<stop, orphans>>

\* The gates behind the attempt row, in the order dispatch_job passes them.
Opened(u) == phase = "running" /\ ent[u].stage = "opened"

\* Faulty variant: the lock is not probed.
LockUnprobed(u) == u \in Registered

LockFree(u) == u \in Registered /\ u \notin orphans

RejectDepFailed(u) ==
    /\ phase = "running" /\ ent[u].stage = "dep_failed"
    /\ Archive(u, ent[u].row, "dependency")
    /\ UNCHANGED <<stop, orphans>>

RejectNoHandler(u) ==
    /\ Opened(u) /\ u \notin Registered
    /\ Archive(u, ent[u].row, "no_handler")
    /\ UNCHANGED <<stop, orphans>>

\* requeue_transient: the lock is held by an orphan or cannot be probed, or the
\* resource was suspended between the scan and the reservation.  The row on
\* disk was never touched.
Defer(u) ==
    /\ Opened(u) /\ u \in Registered
    /\ \/ u \in orphans /\ UNCHANGED left
       \/ u \notin orphans /\ Spend("fault", 1)
       \/ u \notin orphans /\ u \in Contended /\ Spend("transient", 1)
    /\ Requeue(u, ent[u].row)
    /\ UNCHANGED <<disk, phase, stop, orphans>>

RejectPayload(u) ==
    /\ Opened(u) /\ LockFree(u) /\ u \in Invalid
    /\ Archive(u, ent[u].row, "payload")
    /\ UNCHANGED <<stop, orphans>>

\* Spawning the worker raises: a strike of its own, and a crash below the
\* threshold.
DispatchFailure(u) ==
    LET row == Undispatched(ent[u].row)
    IN  /\ Opened(u) /\ LockFree(u) /\ u \notin Invalid
        /\ \/ /\ row.df < Threshold
              /\ Spend("fault", 1)
              /\ RequeueAndCrash(u, row)
           \/ /\ row.df >= Threshold
              /\ Spend("fault", 1)
              /\ CommitFailure({u}, "dispatch")
              /\ MarkFailed(u, {<<u, CrashPhase(u)>>})
              /\ UNCHANGED phase
           \/ row.df >= Threshold /\ Strike(u, row, 2)
        /\ UNCHANGED <<stop, orphans>>

Start(u) ==
    /\ Opened(u) /\ LockFree(u) /\ u \notin Invalid
    /\ ent' = [ent EXCEPT ![u].stage = "running"]
    /\ UNCHANGED <<disk, snap, mq, msucc, mfail, tskip, casc, phase, stop, orphans, left>>

-----------------------------------------------------------------------------
(* Settlement: complete_job, reached from settle_reaped and settle_aborted. *)

Settling(u) ==
    /\ phase \in {"running", "crashing", "aborting"}
    /\ Popped = {} /\ casc = {}
    /\ ent[u].stage = "running"

\* The children that enter the queue: not the ones queued or in flight, the
\* parent among them.
Fresh(kids) == kids \ Active

SettleSuccess(u) ==
    /\ Settling(u)
    /\ \E kids \in SUBSET Spawns[u] :
          IF Fresh(kids) \cap Queued(dq) # {}
          THEN Strike(u, ent[u].row, 0)
          ELSE \/ /\ CommitSuccess(u, Fresh(kids))
                  /\ mq' = [v \in Uid |-> IF v \in Fresh(kids) THEN NewRow ELSE mq[v]]
                  /\ msucc' = msucc \cup {u}
                  /\ mfail' = mfail \ {u}
                  /\ tskip' = tskip \ (Fresh(kids) \cup {u})
                  /\ ent' = [ent EXCEPT ![u] = Idle]
                  /\ UNCHANGED <<snap, casc, phase, left>>
               \/ Strike(u, ent[u].row, 1)
    /\ UNCHANGED <<stop, orphans>>

SettleFailure(u) ==
    /\ Settling(u)
    /\ Archive(u, ent[u].row, "failed")
    /\ UNCHANGED <<stop, orphans>>

\* Faulty variant: off by one.
ExhaustedLate(row) == row.no > MaxRetries + 1

Exhausted(row) == row.no > MaxRetries

\* Faulty variant: memory keeps the popped snapshot.
RequeueStale(u, row) ==
    /\ CommitRetry(u, row)
    /\ Requeue(u, ent[u].row)
    /\ UNCHANGED phase

RequeueCommitted(u, row) ==
    /\ CommitRetry(u, row)
    /\ Requeue(u, row)
    /\ UNCHANGED phase

SettleRetry(u) ==
    /\ Settling(u)
    /\ IF Exhausted(ent[u].row)
       THEN Archive(u, ent[u].row, "retries")
       ELSE \/ RequeueCommitted(u, RetryRow(ent[u].row)) /\ UNCHANGED left
            \/ Strike(u, ent[u].row, 1)
    /\ UNCHANGED <<stop, orphans>>

\* A transient signal (interrupted, lock_conflict, rate_limited) costs nothing.
SettleTransient(u) ==
    /\ Settling(u)
    /\ \/ /\ Spend("transient", 1)
          /\ RequeueCommitted(u, SameAttempt(ent[u].row))
       \/ Strike(u, ent[u].row, 1)
    /\ UNCHANGED <<stop, orphans>>

\* complete_job raises before anything is committed: an artifact error, or an
\* unreadable declaration.
SettleRaises(u) ==
    /\ Settling(u)
    /\ Spend("fault", 1)
    /\ RequeueAndCrash(u, ent[u].row)
    /\ UNCHANGED <<stop, orphans>>

\* cascade_fail: a transaction of its own, after the one that archived f.
Cascade ==
    \E f \in Uid, crash \in Phases :
        /\ <<f, crash>> \in casc
        /\ BulkFailure(Downstream(f, Queued(mq) \ (msucc \cup mfail)), "dependency", crash)
        /\ UNCHANGED <<stop, orphans>>

\* Faulty variant: cycles are not looked for.
CulpritsMissingOnly ==
    LET missing == {u \in Queued(mq) : Missing(u)}
    IN  IF missing # {} THEN {missing} ELSE {}

\* The deadlock governor's verdict on a standstill: the jobs whose dependency
\* does not exist, else the members of dependency cycles.
Culprits ==
    LET missing == {u \in Queued(mq) : Missing(u)}
        onCycle == {u \in Queued(mq) : u \in Downstream(u, Queued(mq))}
    IN  IF missing # {} THEN {missing}
        ELSE {C \in SUBSET onCycle : C # {} /\ \A u \in C : Deps[u] \cap C # {}}

Arbitrate ==
    /\ Free /\ stop = "none"
    /\ InFlight = {}
    /\ Blocked
    /\ \A u \in Queued(mq) : ~ Failing(u)
    /\ \E us \in Culprits : BulkFailure(us, "deadlock", "unwinding")
    /\ UNCHANGED <<stop, orphans>>

-----------------------------------------------------------------------------
(* The end of a run.                                                        *)

\* Monotone: none, draining, aborting; force goes straight to aborting.
RequestStop(mode) ==
    /\ phase # "down"
    /\ stop # "aborting" /\ mode # "none" /\ mode # stop
    /\ Spend("stop", 1)
    /\ stop' = mode
    /\ UNCHANGED <<disk, memory, phase, orphans>>

\* abort_in_flight: workers without a result are killed and their jobs put
\* back first; the jobs that are done are settled after that.
AbortInFlight ==
    /\ \/ phase \in {"crashing", "unwinding"} /\ casc = {}
       \/ Free /\ stop = "aborting"
    /\ \E done \in SUBSET InFlight :
          LET cancelled == InFlight \ done
          IN  /\ mq' = [u \in Uid |-> IF u \in cancelled THEN ent[u].row ELSE mq[u]]
              /\ ent' = [u \in Uid |-> IF u \in cancelled THEN Idle ELSE ent[u]]
              /\ tskip' = tskip \ cancelled
    /\ phase' = "aborting"
    /\ UNCHANGED <<disk, snap, msucc, mfail, casc, stop, orphans, left>>

\* save_queue_crash_safe, one transaction: the rows the memory lost stay as
\* they are on disk, the rows it has replace them.
SaveQueue ==
    /\ \/ phase = "aborting" /\ casc = {}
       \/ Free /\ stop = "draining"
    /\ InFlight = {}
    /\ \/ dq' = Merge(mq, dq) /\ UNCHANGED left
       \/ UNCHANGED dq /\ Spend("fault", 1)
    /\ GoDown
    /\ UNCHANGED <<dsucc, dfail, owed, orphans>>

\* run_loop ends by itself, without saving, when nothing is left.
Finish ==
    /\ Free
    /\ Active = {}
    /\ GoDown
    /\ UNCHANGED <<disk, orphans, left>>

\* The main process dies; workers it leaves behind keep their locks.
Kill ==
    /\ phase # "down"
    /\ Spend("kill", 1)
    /\ \E alive \in SUBSET InFlight : orphans' = orphans \cup alive
    /\ GoDown
    /\ UNCHANGED disk

OrphanExits(u) ==
    /\ u \in orphans
    /\ orphans' = orphans \ {u}
    /\ UNCHANGED <<disk, memory, phase, stop, left>>

-----------------------------------------------------------------------------
(* KeyboardInterrupt in the main thread, when the host kept its signals.    *)

Interrupted == Interrupts /\ Spend("interrupt", 1)

\* Between two transactions.  A popped job is put back only from inside the
\* spawn's try block; elsewhere only its row on disk remains.
Interrupt ==
    /\ Interrupted
    /\ \/ phase = "running" /\ casc = {} /\ phase' = "unwinding"
       \/ \E c \in casc : phase' = c[2]
    /\ \E back \in SUBSET {u \in Popped : ent[u].stage = "opened"} :
          mq' = [u \in Uid |-> IF u \in back THEN ent[u].row ELSE mq[u]]
    /\ ent' = [u \in Uid |-> IF u \in Popped THEN Idle ELSE ent[u]]
    /\ casc' = {}
    /\ UNCHANGED <<disk, snap, msucc, mfail, tskip, stop, orphans>>

\* After the backend has committed and before memory follows: a settlement
\* takes the uid, still in flight, for uncommitted and puts its old row back.
CommitInterrupted(u) ==
    /\ Interrupted
    /\ \/ /\ Settling(u)
          /\ \/ \E kids \in SUBSET Spawns[u] :
                   /\ Fresh(kids) \cap Queued(dq) = {}
                   /\ CommitSuccess(u, Fresh(kids))
             \/ CommitFailure({u}, "failed")
             \/ ~ Exhausted(ent[u].row) /\ CommitRetry(u, RetryRow(ent[u].row))
          /\ Requeue(u, ent[u].row)
          /\ phase' = CrashPhase(u)
       \/ /\ phase = "running"
          /\ \/ ent[u].stage = "dep_failed" /\ CommitFailure({u}, "dependency")
             \/ ent[u].stage = "skip" /\ CommitSkip(u)
          /\ ent' = [ent EXCEPT ![u] = Idle]
          /\ phase' = "unwinding"
          /\ UNCHANGED <<snap, mq, msucc, mfail, tskip, casc>>
    /\ UNCHANGED <<stop, orphans>>

\* Within the crash net's abort, which then saves what memory still has.
AbortInterrupted ==
    /\ phase \in {"crashing", "unwinding"} /\ casc = {}
    /\ Interrupted
    /\ \E alive \in SUBSET InFlight : orphans' = orphans \cup alive
    /\ ent' = NoEntries
    /\ phase' = "aborting"
    /\ UNCHANGED <<disk, snap, mq, msucc, mfail, tskip, casc, stop>>

-----------------------------------------------------------------------------
(* The specification.                                                       *)

\* A pipeline at rest: any history of successes and failures, nothing queued.
Init ==
    /\ dq = EmptyQueue
    /\ dsucc \in SUBSET Uid
    /\ dfail \in [Uid -> {"none", "failed"}]
    /\ dsucc \cap DFailed = {}
    /\ phase = "down" /\ stop = "none"
    /\ snap = EmptyQueue /\ mq = EmptyQueue
    /\ msucc = {} /\ mfail = {} /\ tskip = {} /\ casc = {}
    /\ ent = NoEntries
    /\ orphans = {}
    /\ left = Limits
    /\ owed = {}

Dispatch(u) == PopDepFailed(u) \/ PopSkip(u) \/ PopRun(u)

Resolve(u) ==
    \/ Skip(u) \/ RejectDepFailed(u) \/ RejectNoHandler(u) \/ Defer(u)
    \/ RejectPayload(u) \/ DispatchFailure(u) \/ Start(u)

Settle(u) ==
    \/ SettleSuccess(u) \/ SettleFailure(u) \/ SettleRetry(u)
    \/ SettleTransient(u) \/ SettleRaises(u)

Next ==
    \/ \E u \in Uid :
          \/ Enqueue(u) \/ Dispatch(u) \/ DispatchRaises(u) \/ Resolve(u)
          \/ Settle(u) \/ OrphanExits(u) \/ CommitInterrupted(u)
    \/ Load \/ RepairQueue \/ Cascade \/ Arbitrate
    \/ \E mode \in {"draining", "aborting"} : RequestStop(mode)
    \/ AbortInFlight \/ SaveQueue \/ Finish \/ Kill
    \/ Interrupt \/ AbortInterrupted

Spec == Init /\ [][Next]_vars

\* The main loop runs while it can, workers finish or are timed out, orphans
\* exit, and a pipeline that has ended is run again.
Fairness ==
    /\ WF_vars(Load) /\ WF_vars(RepairQueue)
    /\ WF_vars(Cascade) /\ WF_vars(Arbitrate)
    /\ WF_vars(AbortInFlight) /\ WF_vars(SaveQueue) /\ WF_vars(Finish)
    /\ \A u \in Uid :
          /\ WF_vars(Dispatch(u)) /\ WF_vars(Resolve(u))
          /\ WF_vars(Settle(u)) /\ WF_vars(OrphanExits(u))

FairSpec == Spec /\ Fairness

-----------------------------------------------------------------------------
(* Properties.                                                              *)

\* Every variable has its type, and at most one failure owes a cascade.
TypeOK ==
    /\ dq \in [Uid -> Row] /\ snap \in [Uid -> Row] /\ mq \in [Uid -> Row]
    /\ dsucc \subseteq Uid /\ msucc \subseteq Uid /\ mfail \subseteq Uid
    /\ dfail \in [Uid -> Errors]
    /\ phase \in Phases /\ stop \in {"none", "draining", "aborting"}
    /\ tskip \subseteq Uid /\ orphans \subseteq Uid /\ owed \subseteq Uid
    /\ ent \in [Uid -> Entry]
    /\ casc \subseteq Uid \X {"crashing", "unwinding", "aborting"}
    /\ left \in [Budgets -> Nat]

\* At least once: a job accepted into the queue, by enqueue_jobs or by the
\* commit of the parent that spawned it, has its row until a success, a
\* failure or a skip is committed for it, whatever crashes in between and
\* whichever copy of the queue save_queue_crash_safe merges.
NoLostJob == owed \subseteq Queued(dq)

\* PipelineState's exclusion: no uid is both successful and failed, and a
\* popped job is in no queue.
Exclusive ==
    /\ dsucc \cap DFailed = {}
    /\ msucc \cap mfail = {}
    /\ Queued(mq) \cap (Popped \cup InFlight) = {}

\* The contracts of models/state.py, while the main thread is between two
\* jobs: the memory queue and the jobs in flight are rows of the disk queue,
\* at the same attempt, and the archives in memory are those on disk.
MemoryMirrorsDisk ==
    phase \notin {"down", "loading"} =>
        /\ \A u \in Queued(mq) : mq[u].no = dq[u].no
        /\ \A u \in Popped \cup InFlight : ent[u].row.no = dq[u].no
        /\ msucc = dsucc /\ mfail = DFailed

\* attempt_no <= max_retries + 1 for every copy of a row.
RetryBudget ==
    \A u \in Uid : /\ dq[u].no <= MaxRetries + 1 /\ snap[u].no <= MaxRetries + 1
                   /\ mq[u].no <= MaxRetries + 1 /\ ent[u].row.no <= MaxRetries + 1

\* The lock probe: no job is in flight while a body of an earlier run lives.
OneBody == InFlight \cap orphans = {}

Starts(u) == ent[u].stage # "running" /\ ent'[u].stage = "running"

\* A "once" job with a success or a failure on record is never executed again,
\* not even as the retry (attempt_no > 1) of a row that a crash brought back.
OnceNotRerun ==
    [][\A u \in Uid : Starts(u) /\ Trigger[u] = "once" => u \notin dsucc \cup DFailed]_vars

\* A body starts only when each dependency has succeeded on disk or was
\* skipped in this run, and is not itself waiting or in flight to be executed
\* again: neither an old success nor an old failure decides.
DependencyBarrier ==
    [][\A u \in Uid : Starts(u) =>
          \A d \in Deps[u] : d \notin Active /\ d \in tskip \cup (dsucc \ DFailed)]_vars

\* "commit consecutive failures reach the threshold": a job archived for
\* failing commits had no successful one among the last Threshold.
StrikesConsecutive ==
    [][\A u \in Uid : dfail[u] # "commit" /\ dfail'[u] = "commit" =>
          \/ u \in Popped \cup InFlight /\ ent[u].row.since + 1 >= Threshold
          \/ mq[u].since + 1 >= Threshold]_vars

\* The engine keeps the contract of the ledger, dead processes, failed commits
\* and concurrent enqueues included: the rows of the queue table are the
\* pending jobs, and a save never brings a settled one back.
Contract == INSTANCE Ledger WITH
    Jobs <- Uid, pending <- Queued(dq), succeeded <- dsucc, failed <- DFailed

KeepsLedger == Contract!Spec

\* What an induction needs besides: where the main thread can be, and what it
\* knew when it popped the job it is working on.
Structure ==
    /\ \A u, v \in Popped : u = v
    /\ Popped # {} => phase = "running" /\ casc = {}
    /\ phase \in {"down", "loading"} => Popped \cup InFlight = {} /\ casc = {}
    /\ \A u \in Popped \cup InFlight : ent[u].row.no > 0

CurrentWhileRunning ==
    phase \in {"loading", "running"} => msucc = dsucc /\ mfail = DFailed

ReadyWhenOpened ==
    \A u \in Uid : ent[u].stage = "opened" =>
        \A d \in Deps[u] : d \notin Active /\ d \in tskip \cup (msucc \ mfail)

\* Without interrupts, memory follows every commit.
SnapshotMirrorsDisk ==
    phase = "loading" =>
        /\ \A u \in Queued(snap) : snap[u].no = dq[u].no
        /\ msucc = dsucc /\ mfail = DFailed

\* A "once" job that is being retried has no result yet.
OnceUnsettled ==
    \A u \in Uid : Trigger[u] = "once" =>
        /\ dq[u].no > 1 => u \notin dsucc \cup DFailed
        /\ ent[u].stage \in {"opened", "running"} => u \notin dsucc \cup DFailed

Inductive ==
    /\ TypeOK /\ Structure /\ NoLostJob /\ Exclusive /\ RetryBudget /\ OneBody
    /\ CurrentWhileRunning /\ ReadyWhenOpened

InductiveUninterrupted ==
    Inductive /\ MemoryMirrorsDisk /\ SnapshotMirrorsDisk /\ OnceUnsettled

\* Every accepted job is eventually settled: executed to success or failure,
\* skipped by its trigger, or archived for a dependency.
EverySettled == \A u \in Uid : u \in owed ~> u \notin owed

=============================================================================
