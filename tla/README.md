# Verification of tasklite

tasklite runs a persistent queue of jobs in worker processes. Its promises are
about what happens when something goes wrong in the middle: a commit that
returns False, a process that dies between a transaction and the memory update
that follows it, a worker that outlives the run that started it, another
process that enqueues while the queue is being saved. This project models the
part of the code that keeps those promises, checks it with TLC on small
instances, and proves its main safety properties with TLAPS for every value of
the constants.

## The system

| part | state | operations | talks to |
|---|---|---|---|
| backends (`backend/`) | tables queue, successes, failed, cursors, attempts, metadata | one transaction per commit | everything durable goes through it, from any process |
| PipelineState (`models/state.py`) | memory queue, in-flight set, archives, skip marks | pop, spawn, requeue, mark, cascade, cycles | written by StateStore only |
| StateStore (`engine/store.py`) | backend and PipelineState | `apply_success/failure/retry/skip/bulk_failure`, `cascade_fail`, commit strikes | commit first, then memory; raises the crash signal |
| Recovery (`engine/recovery.py`) | - | load and repair, abort in-flight, crash-safe save | backend, channel, completion |
| Dispatch (`engine/dispatch.py`) | - | pop a candidate, pass the gates, spawn | scheduler, triggers, resources, channel, store |
| Completion (`engine/completion.py`) | - | settle one result, settle a reaped or an aborted batch | channel, store, resources |
| Scheduler (`engine/scheduler.py`) | parse cache | classify the queue, pick a candidate | reads PipelineState and resources |
| Deadlock governor (`engine/governor.py`) | grace deadline, missing set, gap counter | arbitrate a standstill | archives through StateStore |
| Runtime (`engine/runtime.py`, `session.py`, `wait.py`) | stop mode, run id | fill the pool, arbitrate, settle, wait; crash net | drives all of the above |
| Channel (`engine/channel.py`, `utils/ipc.py`) | pipes, handles, received results, errors, signals | spawn, reap, abort | worker processes |
| Resources (`engine/resource.py`) | used capacity, next slot, suspension | evaluate, reserve, claim, release, suspend, restore | scheduler, dispatch, completion |
| Triggers (`triggers.py`, `engine/admission.py`) | - | admit a first attempt | reads archives |
| Selection (`selection.py`, `engine/selection.py`) | jobs skipped by this run | skip closure, standstill partition | scheduler, store, governor |
| Attempt trail (`models/attempt.py`, attempts table) | one row per dispatch | open at dispatch, close after the result | dispatch, store; read by `on_input_change` |
| Ops console (`engine/ops.py`) | - | retry a failure, clear history, seed | backend, from outside a run |
| Artifacts (`utils/artifact.py`, journal in `utils/ipc.py`) | declared paths | declare, verify, clean up | worker declares, completion acts |
| Error classes (`engine/errorclass.py`) | - | decision tables | worker entry, channel, store |
| Locks (`utils/lockfile.py`) | one lock file per job | held by the worker for as long as it lives; probed by dispatch | operating system |
| HTTP wrappers (`wrappers/http.py`) | snapshots of responses | classify, guard, cache, retry locally | run inside a worker; suspend resources by signal |
| Discovery (`wrappers/discovery.py`) | none: what is settled is what was seen | page a source, spawn a child per new item | run inside a worker; children are committed with its success |

The main process is one thread. Concurrency comes from worker processes, from
other processes that enqueue, from the death of the main process at any point,
from stop requests, and, when the host installs no signal handlers of the
pipeline (`run(install_signals=False)`), from KeyboardInterrupt anywhere in
the main thread.

What makes each part correct: a backend moves a job out of the queue only
together with its result; memory never runs ahead of disk; a job is executed
only when its trigger and its dependencies allow it, and never twice at once;
attempts are bounded; nobody waits for ever. `PROJECT.json` lists, under
`hazards`, the places where these are at risk, with the properties that cover
them.

## Modules

- `Ledger` - the abstract contract of the persistence layer: a job is pending
  from its acceptance to the transaction that records its success (and accepts
  the children it spawned), its failure or its skip.
- `Engine` - the queue, successes and failed tables, the memory of the running
  process, and every operation that moves a job between them.
- `EngineProofs` - type correctness, the safety theorems, and the refinement of
  `Ledger`.
- `Pipe` - one worker's pipe: the worker, the reader thread with its bounded
  queue, and the main thread that polls, drains and closes it.
- `Channel` - many executions: signals and results, reap batches, time limits,
  the abort with its two looks at every pipe. A pipe is a sequence here.
- `Resource` - capacities, rate limits, leases, suspensions and their copy on
  disk.
- `Governor` - the polls of a standstill: the dependency grace, the gap
  counter, the order of the verdicts.
- `Loop` - the event pump of one run: stop gate, skip phase, filling the pool,
  arbitration, settlement, wait; with the queue order and the selection rules.
- `Trail` - the attempts table and the operator console, across runs.
- `ErrorClass`, `Http`, `Worker` - the error tables; the HTTP classification,
  guard and snapshot rules; and one execution that uses them, from dispatch to
  the committed result, with its output file.
- `Discovery` - the page scan against a source that changes under it.
- `ResourceProofs`, `TrailProofs`, `PipeProofs`, `ChannelProofs`, `WorkerProofs`,
  `DiscoveryProofs` - the theorems about the module each is named after.
- `LoopProofs` - the theorems about `Loop`, and about `Governor`, which looks closer at
  the grace and the gap counter that `Loop` abstracts. The names of `Governor` are
  such that both can be extended by one module.
- `MCEngine`, `MCResource`, `MCLoop`, `MCWorker` - the instances TLC checks (the
  others need none).

`Engine` leaves open which outcome a settled job has (`Channel`, `Worker`), which
jobs are contended (`Resource`), when a standstill is arbitrated (`Governor`) and
in which order a step does its work (`Loop`). In turn the other modules take
over what `Engine` shows: `Loop` and `Trail` have commits that do not fail and
archives in memory that equal those on disk (`MemoryMirrorsDisk`), `Discovery`
a success that commits all spawned children or none. `Worker` extends `Http`,
which extends `ErrorClass`; the others are checked by themselves.

### Engine and the code

| variable | code |
|---|---|
| `dq`, `dsucc`, `dfail` | tables queue, successes, failed of the backend |
| `mq`, `msucc`, `mfail`, `tskip` | `PipelineState.queue`, `successes`, `failed`, `trigger_skipped_uids` |
| `ent` | the job the main thread has popped, and the `InFlightTracker` entries, each with the snapshot it was popped with |
| `casc` | a cascade that `apply_failure` still has to make |
| `snap` | the queue read first by `load_and_repair`, before the second read of `repair_queue_on_load` |
| `phase` | where `execute()` is: `down`, `loading`, `running`, `crashing` (a crash signal is pending and the rest of the reaped batch is being settled), `unwinding` (in the crash net, before the abort), `aborting` (in-flight jobs are aborted, the save is due) |
| `stop` | `RunSession.stop_mode` |
| `orphans` | locks held by workers of dead runs |
| `left` | the budget of the environment, a bound and no part of the system |
| `owed` | history: jobs accepted and not settled since |

A row is `[no, cf, df, since]`: `attempt_no`, the two counters of
`JobRuntimeState`, and a history counter. Payloads, errors beyond their kind,
cursors and queue order are left out; `OrderingPolicy` is pluggable, so any
candidate may be the first one visited.

Each action is one transaction together with the memory update that follows it
where nothing can come between (`Kill` between the two is indistinguishable
from `Kill` after both, since memory dies with the process), and the cascade,
a transaction of its own, is an action of its own. Where KeyboardInterrupt can
come between commit and memory update, `CommitInterrupted` is that half step.
The gates of `dispatch_job` between the pop and the spawn are the actions of
`Resolve`, each with the guard of the gates before it.

### Pipe and the code

`wire` is the operating system's pipe, `queue` the `queue.Queue` of the
receiver, `eof` and `stopped` its events, `reader` and `main` the program
counters of the two threads, `got` what the main thread has taken. A frame is
its number. Every access to the shared queue or events is a step of its own;
in particular the reader sets the event, then finds the queue full, then
throws an item away, then puts `_PIPE_EOF`, and the main thread may take items
between any two of these. A worker may die within a frame (`cut`), which the
reader sees as OSError, or leave a child that holds the write end
(`Inherited`), which keeps the reader from EOF and ends a drain by its
deadline. Abstracted: the drain's deadline passes only in that case (five
seconds suffice for a reader that runs), and frames are not decoded.

### Channel and the code

`pipe`, `results`, `errors`, `pending` are the receiver queues and the
channel's `_results`, `_errors`, `_pending_signals`; `outcome` and `carried` the
`ExecutionResult` of a handle and the signals it carries; `mode`, `todo`,
`current` the place of the main thread in `reap_completed`, `_collect_outcome`
or `abort_in_flight`, one handle per step. Workers send, die and run over time
between any two steps. `PipeFaults` allows undecodable frames and pipes that
fail to close; both raise out of the reap. The history variable `hit` says
whom such an error touches: the execution itself, whose result and pending
signals `_collect_outcome` drops, and those collected before it in the same
reap. `ResultsCount` and `SignalsArrive` are about all others. A pipe may also
fail to close within the abort (`DrainRaises`; channel.py:835, 854), which loses the
`AbortOutcome` with the results and signals in it. `net` tells the two callers
apart: out of the stop gate the error goes to the crash net, which aborts once
more and settles everybody (the receiver is gone by then: `open`); out of the
crash net's abort it is only logged, and what is in flight is `abandoned`: no
result, no requeue in memory, but the rows are still in the queue table and the
crash-safe save keeps them. To `Engine` this is a `Kill` that leaves no orphan.
`EveryExecutionSettled` has this one exception, and asks that it come from a pipe
that did not close.

### Resource and the code

`until` is `_suspended_until` of a capacity and `next_available` of a rate
limit, `used` and `lease` are the accounts and the `LeaseStatus`, `saved` the
`resource_suspensions` of the engine metadata, by the wall clock `now + skew`.
A dispatch is four steps, as in `dispatch_job`: scan, drain signals, reserve,
spawn with claim; time passes and handlers ask for suspensions between them. A
success repeats all the suspensions of its execution. A run may end or crash
with the process alive (`ended`) or be killed, after which resources are built
anew and restored. The load of what was saved may fail, which is logged
(`StartUnloaded`): a new process then starts with nothing suspended and its next
save overwrites the rest. `owed` and `due` are history, and such a load takes what
was lost out of them; a slice or a suspension that no save reached is lost with
its process in any case. Amounts and times are natural numbers, and what
several jobs need together (`Load`) is the number of the units they need; the wall
clock is set only between processes; failing backend writes are logged, as in the code.

### Governor and the code

`granted`, `left`, `missing`, `rounds` are `dep_grace_deadline` (set or not, and
how far from now), `dep_grace_missing` and `deadlock_gap_rounds`. `waiters` and
`causes` summarise what the scan reports; a set option is a set of at most one
element. The queue changes only as it can while nothing is in flight: jobs are
handled without a process, one is dispatched (which calls
`record_dispatch_progress`) and when it is settled the queue may be any other.
Times are relative and saturate one past where the code still tells them
apart. `watched`, `age` and `streak` are history. The selection rules' part in
`arbitrate` is in `Loop`.

### Loop and the code

`pc` is the place in `step()`; each value of it is a point at which a stop, a
kill or another process can come in between: the gate, each transaction of the
skip phase, each check of the stop mode, each dispatch, the arbitration, each
settlement. `queue` is a sequence in the order of `FifoOrderingPolicy`; what is
put back goes to its front, as `ImmediateRequeuePolicy` does. `last`, `finite`,
`sent`, `settled`, `verdict` are the `LoopFacts` of the step, and `Sleeps` is
`decide_wait` on them. The scan (`Ready`, `MissingUids`, `DepFailed`, ...) and the
partition (`Reduced`, `Stuck`, `Blocked`) are written as sets; a work list that is
emptied (the skip closure, the cascade, Kahn's reduction) as the smallest set
that is closed under its step, which is what the loop leaves. `Depths` allows every
depth the depth-first search can assign. The initial state chooses, for
each job, what the selection says of it, its resources, old results, a lock of
a dead run, and whether it exists at all; `MaxOddities` bounds how many of these
are out of the ordinary. Resources are per job here, and a grace is a number of
polls. `moved`, `firm`, `seen` are history; `firm` is what a skip phase has yet to
delete, if all its seeds are Skip rows.

### Trail and the code

`queue`, `succ`, `failed`, `trail` are the tables; a success is the number of the
attempt row that earned it, or `Seeded` (empty metadata). `exec` and `closing` are
the executions and the one row whose result is committed and which is not
closed yet: `apply_failure`, `apply_retry`, `apply_skip` and `requeue_transient` close
it in a second transaction, which may fail and is then only logged. Console
calls are made between runs, one transaction per action; a kill may come
between two. `wanted`, `owed`, `lost` are history.

### Worker, Http, ErrorClass and the code

`pc` of a job goes through `declare_output`, `SnapshotStore.cached`, the fetch, the
check, the guards on the way out, the write of the output and the report of the
worker entry; then, in the main process, through decoding, verification and
cleanup (`settle`) to the commit. An exception is a record of the classes it is
an instance of, the response it carries and the marks the guards leave on it.
The handler is any mixture of guards around the fetch; the server answers with
any of `Codes` and `Afters`. When the main process dies, workers go on unheard
(`late`): they write their file and their declaration is lost. A retry of the job
finds what they left. An unheard worker that has yet to declare its output meets
a broken pipe and reports an `ArtifactIOError` to nobody (`Sent`). A run that is
aborted settles what is finished, kills the rest and cleans up their outputs as
after a failure (`AbortRun`, `Cancel`); when that fails too, or the main process is
killed, they are `stranded`, and a cache may then be left over.

### Discovery and the code

`source` is cut into pages as it stands at each fetch, newest first, so pages
drift under a scan. `seen` is the snapshot of the records at dispatch. `spawned`
reaches the queue only with the commit. An item whose `id_func` raises is `Bad`;
`process_item_func` may raise for one item of a page. Ids are not encoded; that
`_in_discovery_group` knows an id only as far as it is not cut, and is not asked at
all without a group prefix (discovery.py:193, 490), is the set `Alike` of foreign
records that pass for this group's. `clean`, `stable` and `healed` are history:
the first and the last say which scans the contract at the top of `discovery.py`
is about, `stable` that nothing was deleted under the scan.

## Runs

| run | instance | shows |
|---|---|---|
| `engine_faults` | two chained `once` jobs, the first spawning the second; 3 enqueues, 3 backend faults, a kill, a transient answer, a stop | memory mirrors disk, no `once` job runs again after a result, refinement of `Ledger` |
| `engine_interrupt` | the same pair with `always` and `on_failure`, two interrupts, a fault, a kill, a stop | what survives KeyboardInterrupt at any point: no job lost, exclusive states, retry budget, one body per job, dependency barrier |
| `engine_knot` | three jobs, two in a cycle, one without handler, one with a bad payload, threshold 1; 2 enqueues, 2 faults, a kill, a stop; under `FairSpec` | cascades, bulk strikes, deadlock verdicts; every accepted job is settled |
| `engine_once_interrupt` | `engine_faults` jobs with interrupts | violation: a `once` job with a committed success is executed again |
| `pipe_bounded` | 5 frames, a queue of 2, a pipe of 2, a write end that may be inherited; fair threads | order, at most one frame lost at the end of the stream, drain and close end |
| `channel_races` | two executions, a signal each, undecodable frames and pipes that fail to close, in the reap and in either abort; fair main loop and clock | received results count, signals arrive once, no process survives, every execution is settled unless the crash net's abort fails |
| `resource_pool` | four jobs on two workers and a rate limit, one taking all the workers, one impossible; a suspension each, beyond the limit; two ticks, a wall clock set by one, loads that may fail | no oversubscription, no leak, suspensions survive kills up to a failing load and stay bounded, rate limits are kept as far as the process knows of them |
| `governor_waits` | two waiters, grace 2, polls 1 to 3 apart, three gap rounds; fair polls and clock | nobody is archived before it was waited for a full grace, gap verdicts only after consecutive gaps, no wait without end |
| `worker_request` | one job with one of four declarations, answers 200, 404, 409, 429 and 507, where the policy retries 409 although it is stored, Retry-After absent, short and long, no, bare and full inner guards, one local and one queue retry, two faults (death, time-out, interrupt, disk, main crash, abort), one rerun; under `FairSpec` | rate limits are obeyed and free, retries never see a stored answer that is transient by itself, failures are archived under their cause, outputs are published and cleaned up as declared, every job ends |
| `discovery_scan` | four items, one unreadable, two to a page, two records of other groups of which one passes for this group's, limits of one and three pages, three scans, one slip; fair worker | clean scans miss nothing, a full scan heals, only what is gone is reported, scans end |
| `console_trail` | one job under each trigger, two attempts, four rows, two enqueues, three console calls, two faults; under `FairSpec` | nothing accepted is forgotten, archives are disjoint, activations have numbers of their own, trail and archives agree, skips have grounds, a manual retry is executed |
| `loop_selection` | three jobs in eight dependency graphs, two worker slots, up to two oddities (rules, resources, old results, locks, absent jobs), one event (stop, kill, requeue, foreign enqueue); fair main thread, workers and resources | skips and exclusions, verdicts with grounds, no busy loop, every run ends |

Each module of a component with state defines a type invariant (`TypeOK`;
`GovernorTypeOK` in `Governor`). It is proved, so the runs spend their time on
other properties.

Bounds. Two jobs are enough for every pairwise relation (dependency, spawn,
batch); three for a cycle with a live predecessor and for a bulk strike with
mixed outcomes. Three faults reach the threshold of two and fail the archive
write on top; two attempts (`MaxRetries` 1) reach exhaustion; the kill leaves
orphans and forces a second load. The budgets in `left` bound only what the
environment does; the engine's own steps are unbounded.

For the other modules: a queue of two with five frames is full, empty and
between at every phase of the end of the stream, and a queue of more than two
adds no step; two executions are one that fails and one it takes along; two
jobs that go together and one that goes alone share a pool in every way; two
ticks exceed both the suspension limit and a rate slice, so suspensions begin,
end and are restored within a behaviour (time slices are within the limit: a
restored deadline is cut to it, so a longer slice would not survive a restart);
polls up to `GraceSeconds + 1` apart find a deadline just before, at and after its
time.

In `Loop` three jobs are a chain, a fork, a join and a cycle with a job behind
it; two oddities combine any two of a rule, an old result, a missing job, a
scarce resource and a lock (three, without events, were also run for the
invariants). In `Trail` jobs are independent of each other, so one job under
every trigger is enough; four rows are two activations of two attempts, or four
that crashed. In `Worker` jobs meet only in the snapshot store, and the run
lets other workers put a response there (`OthersPut`). In `Discovery` two pages of
two items and a third that is empty are the cases of the page loop, and three
scans are one that leaves a gap, one that stops at it and one that heals it.

Fairness. Weak fairness of each action of the main loop: one thread that never
blocks for ever (workers are timed out, so `Settle` happens; orphans exit, so
their locks go). `Load` is fair because the pipeline is run again by its owner
- a run that crashed preserves the queue for exactly that. Nothing is assumed
of faults, kills, stops or enqueues. The engine runs check deadlock too.

`Pipe!FairSpec` and `Channel!FairSpec` assume that the threads of the main
process go on, and of a worker only that its time limit passes;
`Governor!GovernorFairSpec` that the run loop polls and time passes. In these modules
and in `Resource` the system may stop (a closed pipe, a run that is over, the
bounded clock), so deadlock is not checked.

`Loop!FairSpec`: the main thread goes on, a worker's result is reaped in the end
(the channel kills it at its time limit; strong fairness because each look at
the pipes may come too early), and suspensions run out. Nothing is owed by
workers of dead runs, so `RunEnds` promises an end while one holds a lock only
after a stop. `Trail!FairSpec`: the owner starts the next run, a run goes on, a
console call returns. `Worker!FairSpec`: both processes go on and the main
process is started again; the server answers with a rate limit at most
`MaxLimited` times. `Discovery!FairSpec`: a living worker scans on and its result is
applied. All four may come to rest, so deadlock is not checked.

## What the violation run means

`_requeue_uncommitted` (completion.py) takes "still in `in_flight_uids`" for "not
committed". Between the return of `commit_job_success` and the memory update that
is wrong, and a KeyboardInterrupt there requeues a committed job; the
crash-safe save writes the old row back. If the job was on a retry
(`attempt_no > 1`) the next run does not ask its trigger and executes it again.

## Other differences between code and documents

No run is kept for these. The first five are stated as properties that do not
hold; TLC refutes each within the constants given.

- `Engine!StrikesConsecutive` (constants of `engine_faults`): the comment on
  `COMMIT_FAILURE_THRESHOLD` says consecutive; the counter is carried over by
  retries and never reset.
- `Pipe!Lossless` (a queue of two, three frames): `_put_item` throws the oldest
  queued item away when the queue is full at EOF. With the default of 64 this
  takes a worker that sends 64 or more while the main thread is busy.
- `Channel!FinishedCount` (constants of `channel_races`): `reap_completed` keeps its
  outcomes in a local list. When `_collect_outcome` raises for one handle, the jobs
  collected before it are taken for unfinished by the abort and requeued,
  although they have sent their results.
- `Governor!GraceEnds` with grace 1 and polls 3 apart: with a grace shorter than
  half the poll interval the stale rule of `check_dependency_grace` fires at every
  poll, and a wait with a potential spawner is never decided.
- `Loop!BlockedMeansWaiting` (`loop_selection` with three oddities): an excluded job
  with an old success satisfies its dependents for the scan but blocks them for
  `partition_standstill`. A dependent that is ready and waits for a resource is
  then counted as blocked, and the run ends as completed, where the docstring
  of `SelectionStandstill` says such a job must keep the run going. Likewise an
  excluded job with an old failure gets its dependents archived, where
  GUIDE.md says they stay queued.

Without a property of their own:

- The docstring of `repair_queue_on_load` and `models/state.py` speak of
  filtering residue at load; the code keeps the rows and leaves the decision
  to the trigger at dispatch (`Engine!RepairQueue`).
- `reserve` looks again at rate limits only, so the signals that
  `_drain_signals_before_reserve` applies just before have no effect on a
  capacity (`Resource!Reserve`).
- A success result repeats signals already applied, and `suspend(seconds)`
  counts from the call: the deadline moves by the time between the two, while
  `recovery.py` calls the repetition idempotent (`Resource!Settle`).
- The stale rule of `check_dependency_grace` clears `dep_grace_missing` after it
  was set; the next poll then cannot tell that the set of waiters changed, and
  the new set inherits the deadline. `FullWait` still holds: each job of the new
  set was in the old one, so it has been waited for a full grace.
- The docstring of `apply_skips` says that after a crash the Skip root is still
  queued and the next run finds the same closure. That holds when every seed is
  a Skip row (`SkipRecoverable`). A seed may also be a row whose dependency this
  run has skipped earlier, say a child that was spawned since: it has no root in
  the queue, and after a kill the next run, whose `_skipped_uids` are empty, takes
  it for a job with a missing dependency. (`pc = "skips" => DOMAIN doomed \subseteq
  FirmClosure` is refuted with three jobs.)
- In one reaped batch, a job that spawns a child of a skipped job, followed by a
  failure of another dependency of that child, archives the child by cascade
  before the skip phase sees it, where GUIDE.md:376-379 says that whatever
  depends on a skipped job is skipped and leaves no failure. `SelectionKept`
  excepts exactly this: a cascade while `_skip_dirty` is set. It takes four jobs, so
  that the three of `loop_selection` never come to it; the theorem covers it.
- GUIDE.md says the key (activation_no, attempt_no) never collides. It does for
  a retry that is dispatched again after a crash or a transient requeue, and
  for rows of skips; `ActivationsDistinct` is what holds.
- Rows of jobs that are aborted stay `running`, in an orderly abort too.
- `retry_failure` builds the job anew from uid and payload: `depends_on` of the
  archived job is gone; trigger and resources are those its task declares.
- A timed-out job is archived in the category fatal but without `is_fatal`, so
  `clear_failures(keep_fatal=True)` deletes it.
- `discovery.py` says that skipped items and pages beyond `max_pages` are found by
  the next run. An incremental run stops at the first page it knows, so they
  are only by a full scan (`CleanScansFind`), or while page 1 has something new.
- A full scan during which an item is deleted may miss one that moved to an
  earlier page, and reports it as gone (`MissingIsGone` excepts this), where the
  contract (discovery.py:96-101) takes deletions for harmless.
- `_report_missing` says that it takes only what this group has seen. Without a
  group prefix it takes every record of the `process_task_type`, other groups'
  included, and reports them (`Discovery!Missing`, with `Alike`).
- Closing a pipe can raise within the abort, and then no execution of that
  abort is settled, not even those whose result is decoded (`Channel!DrainRaises`).
- Suspensions that cannot be loaded are ignored and then overwritten
  (`Resource!StartUnloaded`).
- `SnapshotStore.cached` leaves out 408, 425, 429 and 5xx, and what it is told to
  ignore, and does not ask `HttpPolicy`. A 409 that the policy retries is stored, and
  every retry gets the stored one (`TransientIsFresh` excepts such statuses). They
  cost attempts, so the job ends. With a policy that takes such a status for a
  rate limit, which costs none, `EveryJobSettled` is refuted: the job is put back,
  waits and meets the stored answer, for ever.
- A 429 that comes as a library exception through a guard without context
  loses its Retry-After (`ServerPaceKept` excepts this).

## Proofs

Each theorem holds for every value of the constants that satisfies the named
assumption of its module: any finite sets of jobs, executions, items and
resources, any dependencies, needs and policies, any retries, sizes and limits.
Each rests on an inductive invariant, which TLC also found to hold on the
instance of the module's run before it was proved.

`EngineProofs`:

- `TypeCorrect`: `TypeOK`. The lemmas before it say for each building block (commit,
  requeue, strike, bulk failure) which variables it changes and how; later
  proofs cite them and not the actions' bodies.
- `Inductive` is inductive with or without interrupts. Beyond the properties
  themselves it needs `Structure` (at most one job is popped, and only while
  running), `CurrentWhileRunning` (until a crash the archives in memory are those
  on disk) and `ReadyWhenOpened` (what the scheduler knew when it popped a job
  still holds when the worker starts). From it: `AtLeastOnce`, `StatesExclusive`,
  `RetriesBounded`, `OneBodyPerJob`, `BarrierHolds`.
- For `~Interrupts`, `InductiveUninterrupted` adds that memory mirrors disk in every
  phase, that the snapshot of a load does, and that a `once` job on a retry has
  no result. From it `MirrorHolds`, `OnceHolds` and `ImplementsLedger` (every step
  of `Engine` is a step of `Ledger` or a stutter). The assumption is needed:
  `engine_once_interrupt` refutes the second without it.

`LoopProofs`, of `Loop`:

- The first part is about the operators: what `Without`, `Saved`, `Append` and
  concatenation do to a sequence without duplicates and to the set of its
  members (`WithoutLine`, `ConcatLine`, `SavedLine`, ...); that `Reach` and `Reduced` are
  closed and the smallest such sets, so that every member which is no root
  depends on a member (`ReachLeast`, `ReachFrom`, `ReducedClosed`); and that a
  finite set of jobs each of which depends on a member of it has a cycle
  (`CycleExists`: among the sets of what is reachable from one job there is a
  largest). Each queue operation then has a lemma that says which rows it moves
  (`SkipEffect`, `FailsEffect`, `AbortEffect`, ...).
- `QueueInv`: the types, the mirror of queue and table (`Mirror`) and where a job
  cannot be (`Books`). From it `LoopTypeCorrect`.
- `RunInv`: outside the skip phase, and unless another one is called for, no row is
  to be skipped, and within it all that is to be skipped is doomed (`SkipInv`);
  the doomed jobs' depths lead down to a Skip row (`FirmInv`); what this run has
  seen is accounted for (`SeenInv`); what NO_CANDIDATE found still holds when the
  standstill is judged (`JudgeInv`), although stops, foreign enqueues and resumed
  resources come in between; verdicts (`VerdictInv`), what counts as having done
  something (`MoveInv`), and that only jobs the selection allows are in flight
  (`PlainFlight`).
- `LoopVerdictsGrounded`: what a blocked job is reached through is a deferred or an
  allowed row, and a ready one depends on no allowed row; a missing dependency this run has seen
  would have been skipped, and its dependent with it; and if nothing is ready,
  missing or impossible, every allowed job is stuck on a stuck one or is blocked
  by an exclusion, so there is a cycle or the run ends as blocked.
- `LoopSkipRecoverable`: the doomed job of least depth that is not reachable from a
  queued Skip row would depend on one that is less deep.
- `LoopSelectionKept`: unless a skip phase is owed nothing is left to skip outside
  it (`NothingToSkip`), and jobs start only at a dispatch (`StartsAtPick`), which comes
  after it; what is archived is a root or depends on another that is
  (`CascadeFrom`, `ArchivedWhere`), and while a phase is owed the roots, having been
  in flight, are not in the closure. An excluded job is neither in flight nor allowed, and only such jobs are archived
  or taken off the queue other than by a skip.
- `LoopNoBusyLoop`, from `MoveInv` and the branches of `decide_wait`.

`LoopProofs`, of `Governor` (`GovernorTypes`, `FullWaitHolds`): a grace under way was
given to everyone who waits now, and what is left of it and the time they have
been waited for make up a full grace (`GraceEarned`). The deadline alone would not
do, since a smaller set of waiters may inherit it.

`TrailProofs` (`NotForgottenHolds`, `ActivationsDistinctHolds`, `TrailAgreesHolds`,
`SkipHasGroundsHolds`): the numbers and the archives of each job (`JobNumbers`,
`JobArchives`). A retry in the queue is of the latest activation on the trail,
what table and run hold of it agrees, an open row belongs to an execution, to
the close under way or to what a crash left; and a close still to be made
(`ClosingOK`) carries the record that excuses it.

`PipeProofs` (`BoundedLossHolds`): what was taken, what is queued, what the reader
holds and what is on the wire make up the stream in order, and a frame can be
missing only once the reader has made room for `_PIPE_EOF` (`LossOK`); with it goes
that there is room then, or a second frame would have to go.

`ChannelProofs` (`ResultsCountHolds`, `SignalsArriveHolds`, `NoWorkerLeftHolds`): each
execution is followed through what a drain of its pipe would make of it, which
drains do not change (`ExecOK`), together with where the main thread is with it
(`ModeOK`): who has a verdict, whose worker is gone, also when an error takes the
main thread from one abort into the next.

`WorkerProofs` (`CategoryAgreesHolds`, `OutputsKeptHolds`, `RateLimitIsFreeHolds`,
`ForeignKeptHolds`, `TransientIsFreshHolds`, `ServerPaceKeptHolds`): per job, what the
execution and the queue owe each other (`LifeOK`), what the response or exception
in hand stands for (`RequestOK`), what the result will be archived as (`CauseOK`) and
what lies at the output path (`FilesOK`). None of them restricts the policy: which
statuses are rate limits, transient or fatal, and what a classifier makes of
them, is any choice. That is why `TransientIsFresh` names the statuses the store
leaves out instead of those the policy retries, and why `ServerPaceKept` goes by
the Retry-After of the answer in hand, which may be a stored one.

`ResourceProofs`: `CapacityKeptHolds` from `LeaseInv` (what is in use is what the holders
of leases need; who holds one is decided by where the job is; there is still
room for the job that was chosen). Sums over jobs are counted as sets of units
(`Load`), since what a fold computes would need induction. `SuspensionsKeptHolds` and
`RateKeptHolds` from `TimeInv` (what is owed is in force or on disk, within the limit
to which a restored deadline is cut; the rates of a job that has reserved stay
free until it is spawned). Both have the hypothesis `SlicesWithinLimit`: a slice
longer than the limit would not survive a restart. Both speak of what is on
record for the process: a load that fails takes it off the record.

`DiscoveryProofs`: `CleanScansFindHolds` and `MissingIsGoneHolds`. Pages have no gaps and
older items are deeper, so where a clean scan ends nothing follows, or all that
follows is older than something known. The latter helps only if nothing hides
behind a known item (`HealedOK`): on the source, with an item all the older ones
are known. That this survives the commit of a scan under which pages drifted
takes the second half of `ScanOK`: with an item found late, all older ones on the
pages behind the scan were found too.

Only model-checked: all liveness (`EverySettled`, `Released`, `EveryExecutionSettled`,
`GraceEnds`, `EveryJobSettled`, `ScanEnds`, `RetriedRuns`, `RunEnds`), which is out of
the prover's reach. Every other property of the passing runs is a theorem.

## Plan

Done: all the modules above, and the proofs of every safety and action property
the runs check.

Next, as models: several tasks that share one resource in `Loop` (by composing it
with `Resource`), orderings other than FIFO, and malformed rows.

## Not modelled, and why

- Conversions (`utils/encoding.py`, `utils/jsonutil.py`, header parsing in
  `wrappers/http.py`, error texts beyond their code): pure functions on strings,
  whose correctness is about characters and not about states.
- The facade, `engine/config.py`, `models/task.py` and the registries: validation of
  arguments before anything runs.
- Schema checks of the SQLite backend, connection handling and WAL settings:
  the file system and SQLite are taken to do what a transaction promises.
- Cursors, statistics, hooks and log lines: written, and read by no decision of
  the engine.
- The list operations of the console: they change nothing.
- `_reject_spawned_job` (completion.py), which archives a spawned child that cannot
  be written as JSON: children come out of the pipe as parsed JSON and can be
  written again, so the branch is met only by a channel that hands over other
  objects, as its test does.
- Path policy of artifacts (which paths may be declared) and the test helpers.
