-------------------------------- MODULE Loop --------------------------------
(***************************************************************************)
(* One run as its event pump sees it: the stop gate, the skip phase, the   *)
(* filling of the pool, the arbitration of a standstill, the reaping and   *)
(* the decision how long to wait; under a selection that skips some task   *)
(* types for good and excludes others from this run.  Stops, kills, other  *)
(* processes and the execution bodies of dead runs come in between.        *)
(*                                                                         *)
(* The queue is in FIFO order, the default OrderingPolicy.  What happens   *)
(* to a job's row and to the archives is Engine's subject: commits do not  *)
(* fail here, and a job either succeeds, fails or is put back.             *)
(***************************************************************************)
EXTENDS Integers, Sequences, FiniteSets, SequencesExt

CONSTANTS
    Order,          \* the jobs, in the order of the first queue
    Custom,         \* jobs with a trigger of their own
    Slots,          \* worker slots
    Grace,          \* polls the grace for a missing dependency lasts
    Shapes,         \* bound: what depends_on may be
    MaxOddities,    \* bound: jobs that are selected, known, short of resources, locked, absent
    MaxEvents       \* bound: stops, kills, requeues, foreign enqueues

ASSUME LoopAssumption ==
    /\ Slots \in Nat \ {0} /\ {Grace, MaxOddities, MaxEvents} \subseteq Nat
    /\ Order \in Seq(ToSet(Order)) /\ IsInjective(Order) /\ Custom \subseteq ToSet(Order)
    /\ Shapes \subseteq [ToSet(Order) -> SUBSET ToSet(Order)]

Jobs == ToSet(Order)

VARIABLES
    \* The pipeline: rules, jobs and resources.
    kind,       \* what the selection says of the job's task_type
    deps,       \* depends_on
    res,        \* whether the job's resources can be had
    \* The tables.
    disk,       \* the queue table, by queue_position
    succ,       \* successes, as in memory
    fail,       \* the failure archive, as in memory
    \* The run.
    pc,         \* where the pump is, "down" when no run is under way
    queue,      \* PipelineState.queue
    flight,     \* InFlightTracker
    tskip,      \* trigger_skipped_uids
    skipped,    \* SelectionMachine._skipped_uids
    dirty,      \* _skip_dirty
    stop,       \* RunSession.stop_mode
    doomed,     \* the rest of the skip closure, each job with its depth
    batch,      \* reaped and not yet settled
    last,       \* the kind of the last DispatchOutcome of this step
    finite,     \* its standstill.min_wait is finite
    sent,       \* dispatched > 0
    settled,    \* settled_count > 0
    verdict,    \* the arbitration of this step
    waited,     \* polls of the current grace
    \* The world.
    absent,     \* jobs nobody has enqueued yet
    orphans,    \* jobs whose lock an execution body of a dead run holds
    events,
    \* History.
    moved,      \* something happened to a job in this step
    firm,       \* jobs the skip phase has yet to take off, when it owes them to Skip rows only
    seen        \* jobs that have been in this run's queue

world == <<kind, deps, absent, orphans, events>>
tables == <<disk, succ, fail>>
step == <<last, finite, sent, settled, verdict, moved>>
vars == <<world, res, tables, pc, queue, flight, tskip, skipped, dirty, stop, doomed, batch,
          step, waited, firm, seen>>

Kinds == {"plain", "skip", "exclude"}
Resources == {"free", "busy", "impossible"}
Places == {"down", "gate", "sift", "skips", "fill", "pick", "judge", "settle"}

Rows == ToSet(queue)
NoDepth == [u \in {} |-> 0]

\* The sequence q without the members of S.
Without(q, S) ==
    LET kept[n \in 0..Len(q)] ==
            IF n = 0 THEN <<>>
            ELSE IF q[n] \in S THEN kept[n - 1] ELSE Append(kept[n - 1], q[n])
    IN  kept[Len(q)]

\* What can be reached from S in the graph of the dependents, through members of Q:
\* the smallest set with S in it and with the members of Q that depend on one of its own.
Reach(S, Q) ==
    {u \in S \cup Q : \A X \in SUBSET (S \cup Q) :
         S \subseteq X /\ {v \in Q : deps[v] \cap X # {}} \subseteq X => u \in X}

-----------------------------------------------------------------------------
(* The scheduler's scan.                                                    *)

\* Selection.allows_task_type, of the queued rows.
Deferred == {u \in Rows : kind[u] # "plain"}
Allowed == Rows \ Deferred

Active == (Rows \cup flight) \ Deferred

Failed(d) == d \notin Active \cup tskip /\ d \in fail
Satisfied(d) == d \notin Active /\ (d \in tskip \/ (d \in succ /\ d \notin fail))
Missing(d) == d \notin Rows \cup flight \cup tskip \cup fail \cup succ

DepFailed == {u \in Allowed : \E d \in deps[u] : Failed(d)}
MissingUids == {u \in Allowed \ DepFailed : \E d \in deps[u] : Missing(d)}
Ready == {u \in Allowed : \A d \in deps[u] : Satisfied(d)}
Waiting == (Allowed \ DepFailed) \ Ready
Runnable == {u \in Ready : res[u] = "free"}
ImpossibleUids == {u \in Ready : res[u] = "impossible"}

FirstOf(S) == Head(Without(queue, Jobs \ S))

\* No deadlock cause, and a ready job whose resources will come back.
MinWaitFinite == /\ MissingUids = {} /\ ImpossibleUids = {}
                 /\ \E u \in Ready : res[u] = "busy"

-----------------------------------------------------------------------------
(* partition_standstill.                                                    *)

DependencyReady(d) == d \notin Rows \cup flight /\ d \in succ \cup tskip

\* The allowed jobs that wait for nothing once the deferred ones and X count as done.
Freed(X) == {u \in Allowed : \A d \in deps[u] : d \in Deferred \cup X \/ DependencyReady(d)}

\* Kahn: the smallest set that has all the jobs it frees.
Reduced == {u \in Allowed : \A X \in SUBSET Allowed : Freed(X) \subseteq X => u \in X}

Stuck == Allowed \ Reduced
Blocked == Reach(Deferred, Allowed) \cap Reduced
Unblocked == Reduced \ Blocked

OnlyBlockedByExclusion == Stuck = {} /\ Unblocked = {}

\* find_dependency_cycles: some cycles among the stuck jobs, at least one if there is any.
Cycles ==
    LET onCycle == {u \in Stuck : \E d \in deps[u] : d \in Reach({u}, Stuck)}
    IN  {C \in SUBSET onCycle : C # {} /\ \A u \in C : deps[u] \cap C # {}}

-----------------------------------------------------------------------------
(* How long to wait: decide_wait.                                           *)

Terminates == (queue = <<>> /\ flight = {}) \/ verdict \in {"idle", "blocked"}

\* Faulty variant: the wait the governor asks for is not looked at.
SleepsPlain ==
    IF flight # {} THEN ~ settled ELSE last = "no_candidate" /\ finite

\* wait_time > 0.
Sleeps ==
    IF flight # {} THEN ~ settled
    ELSE verdict \in {"grace", "gap"} \/ (last = "no_candidate" /\ finite)
                                      \/ last = "saturated"

-----------------------------------------------------------------------------
(* A run begins and ends.                                                   *)

\* What does not outlive a step: LoopFacts.
Fresh == /\ last' = "none" /\ finite' = FALSE /\ sent' = FALSE
         /\ settled' = FALSE /\ verdict' = "none" /\ moved' = FALSE

\* What does not outlive the process or the run.
Forget == /\ queue' = <<>> /\ flight' = {} /\ tskip' = {} /\ skipped' = {}
          /\ doomed' = NoDepth /\ batch' = {} /\ firm' = {} /\ seen' = {}
          /\ dirty' = FALSE /\ stop' = "none" /\ waited' = 0

End == pc' = "down" /\ Forget /\ Fresh

\* execute, prepare_run_state, _run_body.
StartRun ==
    /\ pc = "down" /\ disk # <<>>
    /\ pc' = "gate" /\ queue' = disk /\ seen' = ToSet(disk)
    /\ dirty' = TRUE
    /\ UNCHANGED <<world, res, tables, flight, tskip, skipped, stop, doomed, batch, step,
                   waited, firm>>

\* cascade_fail: the excluded rows are where a cascade ends.
WithCascade(S) == Reach(S, Allowed \ (succ \cup fail))

\* The jobs S fail, and what depends on them: apply_failure, dispatch_dep_failed.
Archive(S) ==
    LET gone == WithCascade(S)
    IN  /\ fail' = fail \cup gone /\ succ' = succ \ gone
        /\ queue' = Without(queue, gone) /\ disk' = Without(disk, gone)

\* save_queue_crash_safe.
Saved(q) == Without(disk, ToSet(q)) \o q

\* The step that has ended was the last one: run_loop leaves.
LastStep ==
    /\ pc = "gate" /\ Terminates
    /\ End
    /\ UNCHANGED <<world, res, tables>>

AtGate == pc = "gate" /\ ~ Terminates

\* The gate of step(): abort_in_flight settles what has finished, puts the rest back.
Abort ==
    /\ AtGate /\ stop = "aborting"
    /\ \E done \in SUBSET flight : \E bad \in SUBSET done :
           LET gone == WithCascade(bad)
               back == Without(Order, Jobs \ (flight \ done)) \o queue
           IN  /\ succ' = (succ \ gone) \cup (done \ bad)
               /\ fail' = (fail \ (done \ bad)) \cup gone
               /\ disk' = Without(Saved(back), done \cup gone)
    /\ End
    /\ UNCHANGED <<world, res>>

Drained ==
    /\ AtGate /\ stop = "draining" /\ flight = {}
    /\ disk' = Saved(queue)
    /\ End
    /\ UNCHANGED <<world, res, succ, fail>>

EnterStep ==
    /\ AtGate /\ (stop = "none" \/ (stop = "draining" /\ flight # {}))
    /\ pc' = IF dirty THEN "sift" ELSE "fill"
    /\ dirty' = FALSE
    /\ Fresh
    /\ UNCHANGED <<world, res, tables, queue, flight, tskip, skipped, stop, doomed, batch,
                   waited, firm, seen>>

-----------------------------------------------------------------------------
(* The skip phase: apply_skips.                                             *)

\* The jobs that are skipped for a queued Skip row; and for a job that this run
\* has skipped already.
FirmClosure == Reach({u \in Rows : kind[u] = "skip"}, Rows)
Seeds == {u \in Rows : kind[u] = "skip" \/ deps[u] \cap skipped # {}}
SkipClosure == Reach(Seeds, Rows)

HasSkipRules == \E u \in Jobs : kind[u] = "skip"

\* depth: a seed has none, any other member one more than that which it is found from.
Depths(C) ==
    {depth \in [C -> 0..Len(Order)] :
        \A u \in C : IF u \in Seeds THEN depth[u] = 0
                     ELSE \E d \in deps[u] \cap C : depth[u] = depth[d] + 1}

Sift ==
    /\ pc = "sift"
    /\ LET C == IF HasSkipRules THEN SkipClosure ELSE {}
       IN  /\ doomed' \in Depths(C)
           /\ firm' = IF \A u \in Seeds : kind[u] = "skip" THEN C ELSE {}
           /\ pc' = IF C = {} THEN "fill" ELSE "skips"
    /\ UNCHANGED <<world, res, tables, queue, flight, tskip, skipped, dirty, stop, batch,
                   step, waited, seen>>

\* Faulty variant: the roots go first.
NextDoomedUpward == {u \in DOMAIN doomed : \A v \in DOMAIN doomed : doomed[u] <= doomed[v]}

\* Downstream first; what is equally deep goes by uid, in any order here.
NextDoomed == {u \in DOMAIN doomed : \A v \in DOMAIN doomed : doomed[u] >= doomed[v]}

\* One transaction: apply_skip.
SkipOne ==
    /\ pc = "skips"
    /\ \E u \in NextDoomed :
           LET rest == DOMAIN doomed \ {u}
           IN  /\ disk' = Without(disk, {u}) /\ queue' = Without(queue, {u})
               /\ skipped' = skipped \cup {u}
               /\ doomed' = [v \in rest |-> doomed[v]] /\ firm' = firm \ {u}
               /\ pc' = IF rest = {} THEN "fill" ELSE "skips"
    /\ moved' = TRUE
    /\ UNCHANGED <<world, res, succ, fail, flight, tskip, dirty, stop, batch, last, finite,
                   sent, settled, verdict, waited, seen>>

-----------------------------------------------------------------------------
(* The pool is filled: _fill_dispatch_pool, dispatch_next.                  *)

\* Nothing left: the step is the last one.
Idle ==
    /\ pc = "fill" /\ queue = <<>> /\ flight = {}
    /\ End
    /\ UNCHANGED <<world, res, tables>>

\* Faulty variant: the mode is looked at once per step.
FillCheckOnce == IF last = "none" /\ stop # "none" THEN "judge" ELSE "pick"

\* The stop mode is read before every dispatch, and may change right after.
FillCheck == IF stop = "none" THEN "pick" ELSE "judge"

Fill ==
    /\ pc = "fill" /\ (queue # <<>> \/ flight # {})
    /\ pc' = FillCheck
    /\ UNCHANGED <<world, res, tables, queue, flight, tskip, skipped, dirty, stop, doomed,
                   batch, step, waited, firm, seen>>

Picking == pc = "pick" /\ Cardinality(flight) < Slots

\* WORKER_SATURATED.
Saturated ==
    /\ pc = "pick" /\ ~ Picking
    /\ last' = "saturated" /\ finite' = TRUE /\ pc' = "judge"
    /\ UNCHANGED <<world, res, tables, queue, flight, tskip, skipped, dirty, stop, doomed,
                   batch, sent, settled, verdict, moved, waited, firm, seen>>

\* NO_CANDIDATE.
NoCandidate ==
    /\ Picking /\ Runnable = {} /\ DepFailed = {}
    /\ last' = "no_candidate" /\ finite' = MinWaitFinite /\ pc' = "judge"
    /\ UNCHANGED <<world, res, tables, queue, flight, tskip, skipped, dirty, stop, doomed,
                   batch, sent, settled, verdict, moved, waited, firm, seen>>

\* HANDLED_NO_SUBPROCESS: skips are applied again before the next dispatch.
HandledNoSubprocess ==
    /\ last' = "handled" /\ finite' = FALSE /\ moved' = TRUE
    /\ pc' = IF stop = "none" THEN "sift" ELSE "fill"
    /\ UNCHANGED <<world, res, flight, skipped, dirty, stop, doomed, batch, sent, settled,
                   verdict, waited, firm, seen>>

\* Nothing is runnable, and a job's dependency has failed.
DispatchDepFailed ==
    /\ Picking /\ Runnable = {} /\ DepFailed # {}
    /\ Archive({FirstOf(DepFailed)})
    /\ UNCHANGED tskip
    /\ HandledNoSubprocess

\* Faulty variant: nobody remembers that the job was not needed.
MarkedNot(u) == tskip

\* mark_trigger_skipped.
Marked(u) == tskip \cup {u}

\* The trigger does not admit the job: it has succeeded before, or a custom trigger
\* says so.
TriggerSkips ==
    /\ Picking /\ Runnable # {}
    /\ LET u == FirstOf(Runnable)
       IN  /\ u \in succ \cup Custom
           /\ queue' = Without(queue, {u}) /\ disk' = Without(disk, {u})
           /\ tskip' = Marked(u)
    /\ UNCHANGED <<succ, fail>>
    /\ HandledNoSubprocess

\* dispatch_orphan_probe: back to the front of the queue, at once.
OrphanDefers ==
    /\ Picking /\ Runnable # {}
    /\ LET u == FirstOf(Runnable)
       IN  u \in orphans /\ queue' = <<u>> \o Without(queue, {u})
    /\ UNCHANGED <<disk, succ, fail, tskip>>
    /\ HandledNoSubprocess

\* SPAWNED.
Spawned ==
    /\ Picking /\ Runnable # {}
    /\ LET u == FirstOf(Runnable)
       IN  /\ u \notin orphans
           /\ queue' = Without(queue, {u}) /\ flight' = flight \cup {u}
    /\ last' = "spawned" /\ finite' = FALSE /\ sent' = TRUE /\ moved' = TRUE
    /\ pc' = "fill"
    /\ UNCHANGED <<world, res, tables, tskip, skipped, dirty, stop, doomed, batch, settled,
                   verdict, waited, firm, seen>>

-----------------------------------------------------------------------------
(* A standstill is arbitrated: _arbitrate_deadlock, arbitrate.              *)

InGrace == MissingUids # {} /\ Ready # {} /\ waited < Grace

\* The governor's verdict, from the facts of the scan and of the selection.
Arbitration ==
    LET noCause == MissingUids = {} /\ ImpossibleUids = {}
    IN  IF queue = <<>> THEN "idle"
        ELSE IF noCause /\ OnlyBlockedByExclusion THEN "blocked"
        ELSE IF finite /\ Cycles = {} THEN "none"
        ELSE IF InGrace THEN "grace"
        ELSE IF noCause /\ Cycles = {} THEN "gap"
        ELSE "resolved"

\* Whom _resolve_deadlock archives: the first class that is not empty.
Culprits == IF MissingUids # {} THEN {MissingUids}
            ELSE IF ImpossibleUids # {} THEN {ImpossibleUids}
            ELSE Cycles

Judge ==
    /\ pc = "judge" /\ flight = {}
    /\ pc' = "gate"
    /\ IF last # "no_candidate"
       THEN /\ waited' = IF sent THEN 0 ELSE waited
            /\ UNCHANGED <<verdict, tables, queue, moved>>
       ELSE /\ verdict' = Arbitration
            /\ IF Arbitration = "resolved"
               THEN \E C \in Culprits :
                        /\ fail' = fail \cup C /\ succ' = succ \ C
                        /\ queue' = Without(queue, C) /\ disk' = Without(disk, C)
                        /\ moved' = TRUE
               ELSE UNCHANGED <<tables, queue, moved>>
            /\ waited' = IF Arbitration = "grace" THEN waited + 1
                         ELSE IF MissingUids # {} THEN 0 ELSE waited
    /\ UNCHANGED <<world, res, flight, tskip, skipped, dirty, stop, doomed, batch, last,
                   finite, sent, settled, firm, seen>>

-----------------------------------------------------------------------------
(* Results are reaped and settled: _drain_and_settle.                       *)

\* With jobs in flight nothing is arbitrated.
Reap ==
    /\ pc = "judge" /\ flight # {}
    /\ batch' \in SUBSET flight
    /\ waited' = IF sent THEN 0 ELSE waited
    /\ pc' = IF batch' = {} THEN "gate" ELSE "settle"
    /\ UNCHANGED <<world, res, tables, queue, flight, tskip, skipped, dirty, stop, doomed,
                   step, firm, seen>>

\* Faulty variant: a settlement is no reason to look for skips again.
DirtyAfterSettlingNot == dirty

DirtyAfterSettling == TRUE

Settling(u) ==
    /\ pc = "settle" /\ u \in batch
    /\ batch' = batch \ {u} /\ flight' = flight \ {u}
    /\ pc' = IF batch' = {} THEN "gate" ELSE "settle"
    /\ settled' = TRUE /\ moved' = TRUE /\ dirty' = DirtyAfterSettling
    /\ UNCHANGED <<kind, deps, orphans, tskip, skipped, stop, doomed, last, finite, sent,
                   verdict, waited, firm>>

\* apply_success, with the children in front of the queue.
Succeeds(u) ==
    /\ Settling(u)
    /\ succ' = succ \cup {u} /\ fail' = fail \ {u}
    /\ \E born \in SUBSET absent :
           LET children == Without(Order, Jobs \ born)
           IN  /\ queue' = children \o queue
               /\ disk' = children \o Without(disk, {u})
               /\ absent' = absent \ born /\ seen' = seen \cup born
    /\ UNCHANGED <<res, events>>

Fails(u) ==
    /\ Settling(u)
    /\ Archive({u})
    /\ UNCHANGED <<res, absent, events, seen>>

\* A retry, a lock conflict, or a rate limit that suspends the job's resource: back
\* to the front of the queue.
PutBack(u) ==
    /\ Settling(u)
    /\ events < MaxEvents /\ events' = events + 1
    /\ queue' = <<u>> \o queue
    /\ res' \in {res, [res EXCEPT ![u] = "busy"]}
    /\ UNCHANGED <<tables, absent, seen>>

-----------------------------------------------------------------------------
(* The world.                                                               *)

Happens == events < MaxEvents /\ events' = events + 1
run == <<queue, flight, tskip, skipped, dirty, doomed, batch, step, waited, firm, seen>>

\* RunSession.request_stop, from a signal handler or another thread.
RequestStop ==
    /\ pc # "down" /\ stop # "aborting" /\ Happens
    /\ \E force \in BOOLEAN :
           stop' = IF force \/ stop = "draining" THEN "aborting" ELSE "draining"
    /\ UNCHANGED <<kind, deps, absent, orphans, res, tables, pc, run>>

\* The main process dies; execution bodies may outlive it and keep their locks.
Kill ==
    /\ pc # "down" /\ Happens
    /\ \E s \in SUBSET flight : orphans' = orphans \cup s
    /\ End
    /\ UNCHANGED <<kind, deps, absent, res, tables>>

OrphanExits ==
    /\ \E u \in orphans : orphans' = orphans \ {u}
    /\ UNCHANGED <<kind, deps, absent, events, res, tables, pc, run, stop>>

\* Another process enqueues: this run's memory does not learn of it.
EnqueueElsewhere ==
    /\ Happens
    /\ \E u \in absent : absent' = absent \ {u} /\ disk' = Append(disk, u)
    /\ UNCHANGED <<kind, deps, orphans, res, succ, fail, pc, run, stop>>

\* A resource comes back.
Resume ==
    /\ \E u \in Jobs : res[u] = "busy" /\ res' = [res EXCEPT ![u] = "free"]
    /\ UNCHANGED <<kind, deps, absent, orphans, events, tables, pc, run, stop>>

-----------------------------------------------------------------------------
Init ==
    /\ kind \in [Jobs -> Kinds] /\ deps \in Shapes /\ res \in [Jobs -> Resources]
    /\ succ \in SUBSET Jobs /\ fail \in SUBSET (Jobs \ succ)
    /\ absent \in SUBSET (Jobs \ (succ \cup fail)) /\ orphans \in SUBSET (Jobs \ absent)
    /\ Cardinality({u \in Jobs : kind[u] # "plain"}) + Cardinality({u \in Jobs : res[u] # "free"})
           + Cardinality(succ \cup fail \cup absent) + Cardinality(orphans) <= MaxOddities
    /\ disk = Without(Order, absent)
    /\ pc = "down" /\ queue = <<>> /\ flight = {} /\ tskip = {} /\ skipped = {}
    /\ dirty = FALSE /\ stop = "none" /\ doomed = NoDepth /\ batch = {}
    /\ last = "none" /\ finite = FALSE /\ sent = FALSE /\ settled = FALSE
    /\ verdict = "none" /\ moved = FALSE /\ waited = 0
    /\ events = 0 /\ firm = {} /\ seen = {}

\* The main thread.
Main ==
    \/ Abort \/ Drained \/ EnterStep \/ Sift \/ SkipOne \/ Idle \/ Fill
    \/ Saturated \/ NoCandidate \/ DispatchDepFailed \/ TriggerSkips \/ OrphanDefers
    \/ Spawned \/ Judge \/ Reap \/ LastStep
    \/ \E u \in Jobs : Succeeds(u) \/ Fails(u) \/ PutBack(u)

Next ==
    \/ StartRun \/ Main
    \/ RequestStop \/ Kill \/ OrphanExits \/ EnqueueElsewhere \/ Resume

Spec == Init /\ [][Next]_vars

\* The main thread runs, every worker ends (the channel kills it at its timeout),
\* resources come back.  Nothing is owed by the execution bodies of dead runs.
FairSpec == Spec /\ WF_vars(Main) /\ SF_vars(Reap /\ batch' # {}) /\ WF_vars(Resume)

-----------------------------------------------------------------------------
(* Properties.                                                              *)

TypeOK ==
    /\ kind \in [Jobs -> Kinds] /\ deps \in [Jobs -> SUBSET Jobs] /\ res \in [Jobs -> Resources]
    /\ disk \in Seq(Jobs) /\ IsInjective(disk) /\ queue \in Seq(Jobs) /\ IsInjective(queue)
    /\ pc \in Places /\ stop \in {"none", "draining", "aborting"}
    /\ {succ, fail, flight, batch, tskip, skipped, firm, seen, absent, orphans} \subseteq SUBSET Jobs
    /\ \A b \in {dirty, finite, sent, settled, moved} : b \in BOOLEAN
    /\ last \in {"none", "saturated", "no_candidate", "handled", "spawned"}
    /\ verdict \in {"none", "idle", "blocked", "grace", "gap", "resolved"}
    /\ waited \in 0..Grace /\ events \in 0..MaxEvents
    /\ succ \cap fail = {}
    \* The queue in memory is the queue on disk without the jobs in flight, and
    \* without what other processes have added.
    /\ pc # "down" => Rows \cup flight = ToSet(disk) \cap seen /\ Rows \cap flight = {}

\* A run is given up for the exclusions only when every job it leaves behind waits
\* for an excluded one: a job that is ready and short of a resource is waited for,
\* unless it owes its readiness to an earlier success of an excluded job.
BlockedCannotRun ==
    verdict = "blocked" => \A u \in Ready : deps[u] \cap Deferred # {}

\* What the governor archives for a missing dependency misses a job this run has
\* never had in its queue: settled, skipped and spawned jobs never go missing.
MissingNeverSeen ==
    pc = "judge" /\ last = "no_candidate" =>
        \A u \in MissingUids : \A d \in deps[u] : Missing(d) => d \notin seen

\* The governor has an explanation for every standstill the pump can reach.
NoGap == verdict # "gap"

\* The verdicts on a standstill (arbitrate, partition_standstill) have grounds: a run
\* that ends as blocked leaves nothing behind that could run without an excluded job,
\* a dependency that counts as missing has never been in this run's queue, and no
\* standstill is without an explanation.
VerdictsGrounded == BlockedCannotRun /\ MissingNeverSeen /\ NoGap

\* What SelectionStandstill says of unblocked_uids: a job that has all it depends on
\* and waits for a resource only never lets the run end as blocked by exclusions.
BlockedMeansWaiting == verdict = "blocked" => Ready = {}

\* The closure of the queued Skip rows is taken off the queue in an order in which a
\* kill between two transactions loses nothing: what is left is still the closure of
\* the Skip rows that are left, so that the next run finds it again (apply_skips).  A
\* job that is taken off for a job this run has skipped earlier has no such root.
SkipRecoverable == pc = "skips" => firm \subseteq FirmClosure

\* A job that depends, however indirectly, on a job which the selection skips or this
\* run has skipped, is skipped as well, spawned in the meantime or not: no step starts
\* it, and none archives it, neither the pump nor the governor, who would take its
\* dependency for a missing one.  One way into the failure archive remains: while a
\* skip phase is still owed, after a settlement, another settlement of the batch or an
\* abort fails, and its cascade takes the job along with what else it depends on.
SkippedStays ==
    /\ (flight' \ flight) \cap SkipClosure = {}
    /\ \A u \in (fail' \ fail) \cap SkipClosure : dirty = TRUE /\ deps[u] \cap fail' # {}

\* An excluded job never runs and never enters an archive, whatever becomes of the
\* jobs around it; it leaves the queue only together with a Skip row it depends on.
ExcludedStays ==
    \A u \in Jobs : kind[u] = "exclude" =>
        /\ u \notin flight'
        /\ u \in succ' <=> u \in succ
        /\ u \in fail' <=> u \in fail
        /\ u \in ToSet(disk) => u \in ToSet(disk') \cup skipped'

\* No step of a run goes against the selection (apply_skips, allows_task_type): what
\* is skipped, with all that depends on it, is never started, and is archived only by
\* the cascade of a failure that comes before the skip phase; what is excluded is
\* neither run, archived nor lost.
SelectionKept == [][SkippedStays /\ ExcludedStays]_vars

\* Unless a stop was asked for, a step that does nothing for any job is followed by
\* a sleep.
NoBusyLoop == [][EnterStep /\ last # "none" /\ stop = "none" /\ ~ Sleeps => moved]_vars

\* Every run ends.  By itself once no orphan holds a lock: what is queued is started,
\* archived, skipped or found to wait for an excluded job.  And after a stop even where
\* the pump would put a job back for ever because an orphan holds its lock.
RunEnds == pc # "down" /\ (orphans = {} \/ stop # "none") ~> pc = "down"
=============================================================================
