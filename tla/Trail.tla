------------------------------- MODULE Trail --------------------------------
(***************************************************************************)
(* The attempt trail and the operator console.  Every dispatch opens a row *)
(* of the attempts table, numbered by activation and attempt, and closes   *)
(* it when the execution ends; a success closes it in its own transaction, *)
(* everything else in a second one.  Between runs the operator retries,    *)
(* clears and seeds the archives, in one or more transactions per call.    *)
(* The processes may be killed at any point, and others enqueue.           *)
(*                                                                         *)
(* What a run does to the tables is abstracted from Engine: one job at a   *)
(* time is between its commit and the closing of its row.  The archives in *)
(* memory equal those on disk during a run (Engine: MemoryMirrorsDisk).    *)
(***************************************************************************)
EXTENDS Integers, Sequences, FiniteSets

CONSTANTS
    Jobs,
    Nobody,         \* no job
    MaxRetries,     \* max_retries of every job
    MaxRows,        \* bound: rows of one job
    MaxEnqueues,    \* bound: enqueues from outside
    MaxOps,         \* bound: console calls
    MaxFaults       \* bound: kills, aborts, row updates that fail

ASSUME TrailAssumption ==
    /\ IsFiniteSet(Jobs) /\ Nobody \notin Jobs
    /\ {MaxRetries, MaxRows, MaxEnqueues, MaxOps, MaxFaults} \subseteq Nat

Triggers == {"once", "on_failure", "on_input_change", "always"}

VARIABLES
    trigger,    \* of each job, never changed
    queue,      \* the queue table: a row [act, no] per queued job
    succ,       \* the successes table: Absent, Seeded, or the row of the success
    failed,     \* the failed table: "no", "plain" or "fatal"
    trail,      \* the attempts table, one sequence of rows per job
    running,    \* a run is under way
    memory,     \* its queue
    exec,       \* the jobs in flight, with the numbers of their rows
    closing,    \* the job whose row is being closed, the row and the outcome
    retrying,   \* the job retry_failure has enqueued and not yet deleted
    seeding,    \* the job seed_successes has checked and not yet written
    enqueues, ops, faults,
    wanted,     \* history: jobs that were accepted and that nobody cleared
    owed,       \* history: retry_failure returned and the job has not started since
    lost        \* history: rows nobody will close any more

tables == <<queue, succ, failed, trail>>
engine == <<running, memory, exec, closing>>
console == <<retrying, seeding>>
budgets == <<enqueues, ops, faults>>
history == <<wanted, owed, lost>>
vars == <<trigger, tables, engine, console, budgets, history>>

NoRow == [act |-> 0, no |-> 0]
NewRow == [act |-> 1, no |-> 1]
Absent == -1
Seeded == 0     \* a success with empty metadata
Open == [job |-> Nobody, row |-> 0, outcome |-> "none"]  \* nothing to be closed

Queued == {j \in Jobs : queue[j] # NoRow}
InFlight == {j \in Jobs : exec[j] # 0}
Idle == ~ running /\ retrying = Nobody /\ seeding = Nobody
Steps == running /\ closing = Open

Activations(j) == {trail[j][n].act : n \in DOMAIN trail[j]}
HighestActivation(j) == CHOOSE a \in Activations(j) \cup {0} : \A b \in Activations(j) : b <= a

\* record_attempt_dispatch: body tells rows of executions from those that only note
\* that a job was skipped.
WithRow(j, act, no, body) ==
    [trail EXCEPT ![j] = Append(@, [act |-> act, no |-> no, outcome |-> "running", body |-> body])]
CanOpen(j) == Len(trail[j]) < MaxRows
LastRow(j) == Len(trail'[j])

-----------------------------------------------------------------------------
(* Admission.                                                               *)

Successes(j) == {n \in DOMAIN trail[j] : trail[j][n].outcome = "succeeded"}

\* Faulty variant: any old row of a success will do.
TrustedBaselineOfTrail(j) == Successes(j) # {}

\* trusted_last_succeeded_at_us: the success on record has a time, and it is that of
\* the latest successful row.
TrustedBaseline(j) ==
    succ[j] > Seeded /\ succ[j] \in Successes(j) /\ \A n \in Successes(j) : n <= succ[j]

\* The built-in triggers; changed: an input is newer than the baseline.
Admitted(j, changed) ==
    CASE trigger[j] = "once" -> succ[j] = Absent /\ failed[j] = "no"
      [] trigger[j] = "on_failure" -> succ[j] = Absent
      [] trigger[j] = "on_input_change" -> succ[j] = Absent \/ ~ TrustedBaseline(j) \/ changed
      [] OTHER -> TRUE

-----------------------------------------------------------------------------
(* A run.                                                                   *)

Enqueue(j) ==
    /\ enqueues < MaxEnqueues /\ enqueues' = enqueues + 1
    /\ queue' = [queue EXCEPT ![j] = IF @ = NoRow THEN NewRow ELSE @]
    /\ wanted' = wanted \cup {j}
    /\ UNCHANGED <<trigger, succ, failed, trail, engine, console, ops, faults, owed, lost>>

StartRun ==
    /\ Idle /\ Queued # {}
    /\ running' = TRUE /\ memory' = queue
    /\ UNCHANGED <<trigger, tables, exec, closing, console, budgets, history>>

\* The trigger says no: the job is popped, a row is opened for the record, and the
\* skip is next.
Skip(j) ==
    /\ Steps /\ memory[j] # NoRow /\ memory[j].no <= 1 /\ CanOpen(j)
    /\ \E changed \in BOOLEAN : ~ Admitted(j, changed)
    /\ memory' = [memory EXCEPT ![j] = NoRow]
    /\ trail' = WithRow(j, memory[j].act, memory[j].no, FALSE)
    /\ closing' = [job |-> j, row |-> LastRow(j), outcome |-> "skip"]
    /\ UNCHANGED <<trigger, queue, succ, failed, running, exec, console, budgets, history>>

\* commit_skip; the row is closed next.
CommitSkip ==
    /\ closing.outcome = "skip"
    /\ queue' = [queue EXCEPT ![closing.job] = NoRow]
    /\ closing' = [closing EXCEPT !.outcome = "skipped"]
    /\ UNCHANGED <<trigger, succ, failed, trail, running, memory, exec, console, budgets, history>>

\* Faulty variant: the number in the queue row is taken.
NextActivationOfRow(j) == memory[j].act

\* An admitted first attempt starts an activation after all those on the trail.
NextActivation(j) == HighestActivation(j) + 1

\* The job is dispatched: admitted when it is a first attempt, popped, its row opened.
Dispatch(j) ==
    /\ Steps /\ memory[j] # NoRow /\ exec[j] = 0 /\ CanOpen(j)
    /\ memory[j].no <= 1 => \E changed \in BOOLEAN : Admitted(j, changed)
    /\ LET act == IF memory[j].no <= 1 THEN NextActivation(j) ELSE memory[j].act
       IN  trail' = WithRow(j, act, memory[j].no, TRUE)
    /\ memory' = [memory EXCEPT ![j] = NoRow]
    /\ exec' = [exec EXCEPT ![j] = LastRow(j)]
    /\ owed' = owed \ {j}
    /\ UNCHANGED <<trigger, queue, succ, failed, running, closing, console, budgets, wanted, lost>>

RowOf(j) == [act |-> trail[j][exec[j]].act, no |-> trail[j][exec[j]].no]
Closes(j, outcome) == closing' = [job |-> j, row |-> exec[j], outcome |-> outcome]

\* commit_job_success: the row and the success in one transaction.
Succeed(j) ==
    /\ Steps /\ exec[j] # 0 /\ trail[j][exec[j]].outcome = "running"
    /\ trail' = [trail EXCEPT ![j][exec[j]].outcome = "succeeded"]
    /\ succ' = [succ EXCEPT ![j] = exec[j]]
    /\ failed' = [failed EXCEPT ![j] = "no"]
    /\ queue' = [queue EXCEPT ![j] = NoRow]
    /\ exec' = [exec EXCEPT ![j] = 0]
    /\ UNCHANGED <<trigger, running, memory, closing, console, budgets, history>>

\* _write_failed_row takes the success away.
SuccessesAfterFailure(j) == [succ EXCEPT ![j] = Absent]

\* apply_failure: archived, then the row is closed.
Fail(j, kind) ==
    /\ Steps /\ exec[j] # 0
    /\ failed' = [failed EXCEPT ![j] = kind]
    /\ succ' = SuccessesAfterFailure(j)
    /\ queue' = [queue EXCEPT ![j] = NoRow]
    /\ exec' = [exec EXCEPT ![j] = 0] /\ Closes(j, "failed")
    /\ UNCHANGED <<trigger, trail, running, memory, console, budgets, history>>

WithinBudget(no) == no <= MaxRetries

\* apply_retry within the budget, or with the same number for a transient signal.
Retry(j, transient) ==
    /\ Steps /\ exec[j] # 0
    /\ transient \/ WithinBudget(RowOf(j).no)
    /\ LET row == [RowOf(j) EXCEPT !.no = IF transient THEN @ ELSE @ + 1]
       IN  queue' = [queue EXCEPT ![j] = row] /\ memory' = [memory EXCEPT ![j] = row]
    /\ exec' = [exec EXCEPT ![j] = 0] /\ Closes(j, "requeued")
    /\ UNCHANGED <<trigger, succ, failed, trail, running, console, budgets, history>>

\* requeue_transient, and what a refused commit does: back into memory only.
Requeue(j) ==
    /\ Steps /\ exec[j] # 0
    /\ memory' = [memory EXCEPT ![j] = RowOf(j)]
    /\ exec' = [exec EXCEPT ![j] = 0] /\ Closes(j, "requeued")
    /\ UNCHANGED <<trigger, tables, running, console, budgets, history>>

\* Faulty variant: requeued rows are not closed.
FinishAttemptOnlyFinal(o) == o \notin {"skip", "none", "requeued"}

FinishAttempt(o) == o \notin {"skip", "none"}

\* _finish_attempt: the row is closed, or the update fails and is only logged.
CloseRow ==
    /\ closing # Open /\ closing.outcome # "skip" /\ closing' = Open
    /\ \/ /\ trail' = IF FinishAttempt(closing.outcome)
                      THEN [trail EXCEPT ![closing.job][closing.row].outcome = closing.outcome]
                      ELSE trail
          /\ UNCHANGED <<faults, lost>>
       \/ /\ faults < MaxFaults /\ faults' = faults + 1
          /\ lost' = lost \cup {<<closing.job, closing.row>>}
          /\ UNCHANGED trail
    /\ UNCHANGED <<trigger, queue, succ, failed, running, memory, exec, console, enqueues, ops, wanted, owed>>

OpenRows == {<<j, exec[j]>> : j \in InFlight} \cup
            (IF closing = Open THEN {} ELSE {<<closing.job, closing.row>>})
Stopped ==
    /\ running' = FALSE /\ closing' = Open
    /\ memory' = [j \in Jobs |-> NoRow] /\ exec' = [j \in Jobs |-> 0]

\* The run has nothing left to do, or is aborted, when jobs in flight go back into the
\* queue and the queue in memory is saved over the table.  Nobody closes the rows of aborted jobs.
EndRun ==
    /\ Steps
    /\ LET cut == InFlight # {} \/ \E j \in Jobs : memory[j] # NoRow
       IN  /\ cut => faults < MaxFaults
           /\ faults' = IF cut THEN faults + 1 ELSE faults
    /\ queue' = [j \in Jobs |-> IF j \in InFlight THEN RowOf(j)
                                ELSE IF memory[j] # NoRow THEN memory[j] ELSE queue[j]]
    /\ lost' = lost \cup OpenRows
    /\ Stopped
    /\ UNCHANGED <<trigger, succ, failed, trail, console, enqueues, ops, wanted, owed>>

\* The process is killed, in a run or within a console call.
Crash ==
    /\ ~ Idle /\ faults < MaxFaults /\ faults' = faults + 1
    /\ lost' = lost \cup OpenRows
    /\ Stopped
    /\ retrying' = Nobody /\ seeding' = Nobody
    /\ UNCHANGED <<trigger, tables, enqueues, ops, wanted, owed>>

-----------------------------------------------------------------------------
(* The console.                                                             *)

Call == Idle /\ ops < MaxOps /\ ops' = ops + 1

\* Faulty variant: the archive row is deleted first.
RetryFailureDeletesFirst(j) ==
    /\ Call /\ failed[j] # "no" /\ retrying' = j
    /\ failed' = [failed EXCEPT ![j] = "no"]
    /\ UNCHANGED <<trigger, queue, succ, trail, engine, seeding, enqueues, faults, history>>

\* retry_failure: a new activation is enqueued, unless the job is in the queue, ...
RetryFailure(j) ==
    /\ Call /\ failed[j] # "no" /\ retrying' = j
    /\ queue' = [queue EXCEPT ![j] =
                   IF @ = NoRow THEN [act |-> HighestActivation(j) + 1, no |-> 1] ELSE @]
    /\ UNCHANGED <<trigger, succ, failed, trail, engine, seeding, enqueues, faults, history>>

\* Faulty variant: only the mirror in memory forgets the failure.
DeletedFromArchiveNot(j) == failed

DeletedFromArchive(j) == [failed EXCEPT ![j] = "no"]

\* ... and then the archive row is deleted.
RetryFailureReturns ==
    /\ retrying # Nobody /\ retrying' = Nobody
    /\ failed' = DeletedFromArchive(retrying)
    /\ owed' = owed \cup {retrying}
    /\ UNCHANGED <<trigger, queue, succ, trail, engine, seeding, budgets, wanted, lost>>

\* clear_failures for jobs of some task types, keeping what is_fatal marks or not.
ClearFailures(js, keepFatal) ==
    /\ Call
    /\ LET deleted == {j \in js : failed[j] = "plain" \/ (failed[j] = "fatal" /\ ~ keepFatal)}
       IN  /\ failed' = [j \in Jobs |-> IF j \in deleted THEN "no" ELSE failed[j]]
           /\ wanted' = wanted \ deleted
    /\ UNCHANGED <<trigger, queue, succ, trail, engine, console, enqueues, faults, owed, lost>>

\* clear_history, one table of it; a call for both is two of these.
ClearHistory(js, where) ==
    /\ Call
    /\ IF where = "successes"
       THEN /\ succ' = [j \in Jobs |-> IF j \in js THEN Absent ELSE succ[j]]
            /\ UNCHANGED failed
       ELSE /\ failed' = [j \in Jobs |-> IF j \in js THEN "no" ELSE failed[j]]
            /\ UNCHANGED succ
    /\ wanted' = wanted \ js
    /\ UNCHANGED <<trigger, queue, trail, engine, console, enqueues, faults, owed, lost>>

\* seed_successes refuses what is queued or archived as failed ...
Seedable(j) == failed[j] = "no" /\ j \notin Queued

SeedSuccesses(j) ==
    /\ Call /\ Seedable(j) /\ seeding' = j
    /\ UNCHANGED <<trigger, tables, engine, retrying, enqueues, faults, history>>

\* ... and writes empty metadata over whatever success is on record, in a transaction
\* that looks into the failure archive again.
SeedSuccessesWrites ==
    /\ seeding # Nobody /\ seeding' = Nobody
    /\ succ' = IF failed[seeding] = "no" THEN [succ EXCEPT ![seeding] = Seeded] ELSE succ
    /\ UNCHANGED <<trigger, queue, failed, trail, engine, retrying, budgets, history>>

-----------------------------------------------------------------------------
Init ==
    /\ trigger \in [Jobs -> Triggers]
    /\ queue = [j \in Jobs |-> NoRow] /\ succ = [j \in Jobs |-> Absent]
    /\ failed = [j \in Jobs |-> "no"] /\ trail = [j \in Jobs |-> <<>>]
    /\ running = FALSE /\ memory = [j \in Jobs |-> NoRow]
    /\ exec = [j \in Jobs |-> 0] /\ closing = Open
    /\ retrying = Nobody /\ seeding = Nobody
    /\ enqueues = 0 /\ ops = 0 /\ faults = 0
    /\ wanted = {} /\ owed = {} /\ lost = {}

Result(j) ==
    \/ Succeed(j) \/ Requeue(j)
    \/ \E kind \in {"plain", "fatal"} : Fail(j, kind)
    \/ \E transient \in BOOLEAN : Retry(j, transient)

Console ==
    \/ \E j \in Jobs : RetryFailure(j) \/ SeedSuccesses(j)
    \/ \E js \in SUBSET Jobs, keepFatal \in BOOLEAN : js # {} /\ ClearFailures(js, keepFatal)
    \/ \E js \in SUBSET Jobs, where \in {"successes", "failed"} : js # {} /\ ClearHistory(js, where)

Next ==
    \/ \E j \in Jobs : Enqueue(j) \/ Skip(j) \/ Dispatch(j) \/ Result(j)
    \/ StartRun \/ CommitSkip \/ CloseRow \/ EndRun \/ Crash
    \/ Console \/ RetryFailureReturns \/ SeedSuccessesWrites

Spec == Init /\ [][Next]_vars

\* The next run is started, a run goes on dispatching and closing rows, executions
\* end, and a console call that is not killed returns.
FairSpec ==
    /\ Spec
    /\ WF_vars(StartRun) /\ WF_vars(CommitSkip \/ CloseRow)
    /\ WF_vars(RetryFailureReturns) /\ WF_vars(SeedSuccessesWrites)
    /\ \A j \in Jobs : WF_vars(Skip(j) \/ Dispatch(j)) /\ WF_vars(Result(j))

-----------------------------------------------------------------------------
Rows == [act : 0 .. MaxRows + 1, no : 0 .. MaxRetries + 1]

TypeOK ==
    /\ trigger \in [Jobs -> Triggers]
    /\ queue \in [Jobs -> Rows] /\ memory \in [Jobs -> Rows]
    /\ succ \in [Jobs -> Absent .. MaxRows] /\ failed \in [Jobs -> {"no", "plain", "fatal"}]
    /\ \A j \in Jobs : \A n \in DOMAIN trail[j] : trail[j][n].no \in 1 .. MaxRetries + 1
    /\ running \in BOOLEAN /\ {retrying, seeding} \subseteq Jobs \cup {Nobody}
    /\ \A j \in InFlight : exec[j] \in DOMAIN trail[j] /\ memory[j] = NoRow
    /\ wanted \cup owed \subseteq Jobs

\* A job that was accepted and that nobody has cleared since is in the queue table or
\* in an archive, also when retry_failure is cut between its two transactions
\* (its docstring: at most both, never neither), or a run anywhere.
NotForgotten == \A j \in wanted : j \in Queued \/ succ[j] # Absent \/ failed[j] # "no"

Bodies(j) == {n \in DOMAIN trail[j] : trail[j][n].body}

\* Activation numbers tell activations apart: along the trail of executions they never
\* go down, and each first attempt has a number no earlier row has, whether the
\* activation before it ended, crashed, was cleared, seeded over or retried by hand.
ActivationsDistinct ==
    \A j \in Jobs : \A m, n \in Bodies(j) :
        m < n => /\ trail[j][m].act <= trail[j][n].act
                 /\ trail[j][n].no = 1 => trail[j][m].act < trail[j][n].act

\* The trail agrees with the archives and with what is going on: no job is in both
\* archives, whatever the console seeds while others enqueue, the success on record
\* is the latest successful row, a failed row is never the last word on a job with a
\* success on record before it, and a running row is in flight, is about to be
\* closed, or was lost to a crash, an abort or a failing update.
TrailAgrees ==
    \A j \in Jobs :
        /\ succ[j] = Absent \/ failed[j] = "no"
        /\ succ[j] > Seeded => TrustedBaseline(j) /\ \A n \in DOMAIN trail[j] :
              trail[j][n].outcome = "failed" => n < succ[j]
        /\ \A n \in DOMAIN trail[j] :
              trail[j][n].outcome = "running" => <<j, n>> \in OpenRows \cup lost

\* A job leaves the queue as skipped only while a record excuses it: for
\* on_input_change a success that an execution earned and nobody seeded over.
SkipHasGrounds ==
    [][closing.outcome = "skip" /\ closing'.outcome = "skipped" =>
          \/ succ[closing.job] > Seeded
          \/ trigger[closing.job] # "on_input_change" /\ succ[closing.job] = Seeded
          \/ trigger[closing.job] = "once" /\ failed[closing.job] # "no"]_vars

\* When retry_failure has returned, the job is executed again, whatever happens to the
\* processes in between.
RetriedRuns == \A j \in Jobs : j \in owed ~> j \notin owed \/ Len(trail[j]) = MaxRows
=============================================================================
