------------------------------ MODULE Governor ------------------------------
(***************************************************************************)
(* The deadlock governor: polled while nothing runs and nothing can be     *)
(* started, it grants jobs with missing dependencies a grace, retries what *)
(* it cannot explain, and otherwise archives the culprits.  Times are kept *)
(* relative to now and saturate where the code no longer tells them apart. *)
(***************************************************************************)
EXTENDS Integers, FiniteSets

CONSTANTS
    Job,            \* jobs that may come to wait for a missing dependency
    GraceSeconds,   \* dependency_grace_seconds
    GapRounds,      \* deadlock_gap_max_rounds
    PollWait,       \* the wait between two polls
    MaxDelay,       \* bound: the longest time between two polls
    MaxHandled      \* bound: jobs handled without a process between dispatches

ASSUME GovernorAssumption ==
    /\ GraceSeconds \in Nat \ {0} /\ GapRounds \in Nat \ {0} /\ MaxHandled \in Nat
    /\ PollWait \in Nat \ {0} /\ MaxDelay \in Nat /\ PollWait <= MaxDelay

VARIABLES
    waiters,    \* missing_dependency_uids of the scan
    causes,     \* what else the scan finds in the queue
    inFlight,   \* jobs are in flight
    handled,    \* jobs handled since the last dispatch
    delay,      \* time since the last poll
    granted,    \* dep_grace_deadline is set
    left,       \* dep_grace_deadline minus now
    missing,    \* dep_grace_missing
    rounds,     \* deadlock_gap_rounds
    decision,   \* the action of the last poll, with its cause
    watched,    \* history: the waiters of the last poll they were looked at in
    age,        \* history: for how long all of them have been waited for
    streak      \* history: gap polls in a row

governorVars == <<waiters, causes, inFlight, handled, delay, granted, left, missing, rounds,
                  decision, watched, age, streak>>
scan == <<waiters, causes, inFlight, handled>>
grace == <<granted, left, missing>>
history == <<watched, age, streak>>

NoSet == {}

\* Malformed rows, unknown resources, amounts no resource can give, cycles; "gap"
\* is what nothing else explains, "backpressure" a ready job that waits for resources.
Causes == {"malformed", "unknown", "impossible", "cycle", "gap", "backpressure"}

\* A job whose dependencies are met counts, whatever its resources (the unknown
\* ones are dealt with before anybody asks).
HasPotentialSpawners == causes \cap {"impossible", "backpressure"} # {}

Empty == waiters = {} /\ causes = {}

-----------------------------------------------------------------------------
(* The queue changes.                                                       *)

\* Faulty variant: the grace goes on.
NoProgress == UNCHANGED grace /\ rounds' = 0

\* record_dispatch_progress.
RecordDispatchProgress ==
    /\ granted' = FALSE
    /\ missing' = IF granted THEN NoSet ELSE missing
    /\ left' = 0
    /\ rounds' = 0

\* A ready job gets its resources.
Dispatch ==
    /\ ~ inFlight /\ "backpressure" \in causes
    /\ inFlight' = TRUE /\ handled' = 0
    /\ RecordDispatchProgress
    /\ watched' = NoSet /\ age' = 0 /\ streak' = 0
    /\ UNCHANGED <<waiters, causes, delay, decision>>

\* The last job in flight is settled; it may have spawned any others.
Settled ==
    /\ inFlight
    /\ inFlight' = FALSE
    /\ waiters' \in SUBSET Job /\ causes' \in SUBSET Causes
    /\ delay' = 0
    /\ UNCHANGED <<handled, grace, rounds, decision, history>>

\* A job is skipped or rejected without a process: no job comes to miss a
\* dependency by it.
Handled ==
    /\ ~ inFlight /\ handled < MaxHandled
    /\ handled' = handled + 1
    /\ waiters' \in SUBSET waiters /\ causes' \in SUBSET Causes
    /\ UNCHANGED <<inFlight, delay, grace, rounds, decision, history>>

\* Another run begins, of the same pipeline: reset.
NewRun ==
    /\ Empty /\ ~ inFlight
    /\ granted' = FALSE /\ left' = 0 /\ missing' = NoSet /\ rounds' = 0
    /\ waiters' \in SUBSET Job /\ causes' \in SUBSET Causes
    /\ handled' = 0 /\ delay' = 0
    /\ watched' = NoSet /\ age' = 0 /\ streak' = 0
    /\ UNCHANGED <<inFlight, decision>>

Tick ==
    /\ inFlight \/ delay < MaxDelay
    /\ delay' = IF inFlight THEN delay ELSE delay + 1
    /\ left' = IF granted /\ left >= 0 - GraceSeconds THEN left - 1 ELSE left
    /\ age' = IF watched # NoSet /\ age < GraceSeconds THEN age + 1 ELSE age
    /\ UNCHANGED <<scan, granted, missing, rounds, decision, watched, streak>>

-----------------------------------------------------------------------------
(* The poll: arbitrate and _resolve_deadlock.                               *)

\* Faulty variant: every poll gives a new deadline.
RestartAlways == TRUE

\* The set changed, or the deadline is past by more than a grace.
Restart == \/ missing # NoSet /\ missing # {waiters}
           \/ left < 0 - GraceSeconds

\* check_dependency_grace and _grant_or_expire.
CheckDependencyGrace ==
    LET live == granted /\ ~ Restart
        stale == granted /\ (missing = NoSet \/ missing = {waiters}) /\ left < 0 - GraceSeconds
    IN  \/ /\ ~ HasPotentialSpawners
           /\ granted' = FALSE /\ left' = 0 /\ missing' = NoSet
           /\ decision' = "no_spawner"
        \/ /\ HasPotentialSpawners /\ (live => left > 0)
           /\ granted' = TRUE
           /\ left' = IF live THEN left ELSE GraceSeconds
           /\ missing' = IF stale THEN NoSet ELSE {waiters}
           /\ decision' = "grace_waiting"
        \/ /\ HasPotentialSpawners /\ live /\ left <= 0
           /\ granted' = FALSE /\ left' = 0 /\ missing' = NoSet
           /\ decision' = "expired"

WaitedFor == \E s \in watched : waiters \subseteq s

\* The same wait goes on, for as many as are left of it, or a new one begins.
Watch ==
    /\ watched' = IF decision' = "grace_waiting" THEN {waiters} ELSE NoSet
    /\ age' = IF WaitedFor /\ watched' # NoSet THEN age ELSE 0

\* apply_bulk_failure of the culprits; those that depend on them go along, and
\* with them a cycle or a gap.
Archived(culprits) ==
    causes' \in {(causes \ culprits) \ gone : gone \in SUBSET {"cycle", "gap"}}

Polls == /\ ~ inFlight /\ ~ Empty /\ delay >= PollWait
         /\ delay' = 0
         /\ UNCHANGED <<inFlight, handled>>

Broken == causes \cap {"malformed", "unknown"} # {}

\* Malformed rows, then unknown resources, before anything else.
PollBroken ==
    /\ Polls
    /\ Broken
    /\ decision' = IF "malformed" \in causes THEN "malformed" ELSE "unknown"
    /\ Archived({decision'})
    /\ waiters' \in SUBSET waiters
    /\ rounds' = 0 /\ streak' = 0
    /\ UNCHANGED <<grace, watched, age>>

PollMissing ==
    /\ Polls
    /\ ~ Broken /\ waiters # {}
    /\ CheckDependencyGrace
    /\ IF decision' = "grace_waiting" THEN UNCHANGED <<waiters, causes>>
                                      ELSE waiters' = {} /\ Archived({})
    /\ rounds' = 0 /\ streak' = 0
    /\ Watch

Plain == ~ Broken /\ waiters = {}

PollImpossible ==
    /\ Polls /\ Plain /\ "impossible" \in causes
    /\ Archived({"impossible"}) /\ decision' = "impossible"
    /\ rounds' = 0 /\ streak' = 0
    /\ UNCHANGED <<waiters, grace, watched, age>>

PollCycle ==
    /\ Polls /\ Plain /\ "impossible" \notin causes /\ "cycle" \in causes
    /\ Archived({"cycle"}) /\ decision' = "cycle"
    /\ rounds' = 0 /\ streak' = 0
    /\ UNCHANGED <<waiters, grace, watched, age>>

\* A finite wait and no cycle: nothing is wrong.
PollBackpressure ==
    /\ Polls /\ Plain /\ causes \cap {"impossible", "cycle"} = {}
    /\ "backpressure" \in causes
    /\ decision' = "none"
    /\ rounds' = 0 /\ streak' = 0
    /\ UNCHANGED <<waiters, causes, grace, watched, age>>

\* check_gap_or_escalate.
Escalates == rounds + 1 >= GapRounds

PollGap ==
    /\ Polls /\ Plain /\ causes = {"gap"}
    /\ streak' = IF streak < GapRounds THEN streak + 1 ELSE 1
    /\ IF Escalates
       THEN /\ decision' = "escalated"
            /\ causes' = {} /\ waiters' = {} /\ rounds' = 0
       ELSE /\ decision' = "gap_retrying"
            /\ rounds' = rounds + 1
            /\ UNCHANGED <<waiters, causes>>
    /\ UNCHANGED <<grace, watched, age>>

Poll == PollBroken \/ PollMissing \/ PollImpossible \/ PollCycle \/ PollBackpressure \/ PollGap

-----------------------------------------------------------------------------
GovernorInit ==
    /\ waiters \in SUBSET Job /\ causes \in SUBSET Causes
    /\ inFlight = FALSE /\ handled = 0 /\ delay = 0
    /\ granted = FALSE /\ left = 0 /\ missing = NoSet /\ rounds = 0
    /\ decision = "none" /\ watched = NoSet /\ age = 0 /\ streak = 0

GovernorNext == Dispatch \/ Settled \/ Handled \/ NewRun \/ Tick \/ Poll

GovernorSpec == GovernorInit /\ [][GovernorNext]_governorVars

\* The run loop polls and time passes; nothing else is owed.
GovernorFairSpec == GovernorSpec /\ WF_governorVars(Poll) /\ WF_governorVars(Tick)

-----------------------------------------------------------------------------
(* Properties.                                                              *)

GovernorTypeOK ==
    /\ waiters \subseteq Job /\ causes \subseteq Causes
    /\ inFlight \in BOOLEAN /\ granted \in BOOLEAN
    /\ handled \in 0..MaxHandled /\ delay \in 0..MaxDelay
    /\ left \in (0 - GraceSeconds - 1)..GraceSeconds /\ age \in 0..GraceSeconds
    /\ missing \in {NoSet} \cup {{s} : s \in SUBSET Job}
    /\ watched \in {NoSet} \cup {{s} : s \in SUBSET Job}
    /\ rounds \in 0..(GapRounds - 1) /\ streak \in 0..GapRounds
    /\ decision \in Causes \cup {"none", "no_spawner", "grace_waiting", "expired",
                                "gap_retrying", "escalated"}

\* Nobody is archived before the full wait.  Jobs with missing dependencies are
\* archived for the grace having expired only when each of them has been waited for
\* during a full grace: a deadline never leaks from an earlier wait into a later one
\* (check_dependency_grace, record_dispatch_progress, reset).  And the whole queue is
\* archived only after GapRounds polls in a row found no explanation; anything that was
\* explained in between, or any job that was dispatched, starts the count anew.
FullWait ==
    [][Poll => /\ decision' = "expired" => WaitedFor /\ age = GraceSeconds
               /\ decision' = "escalated" => streak' = GapRounds]_governorVars

\* Every wait for missing dependencies ends: a ready job starts, or the waiters
\* are archived or rejected.
GraceEnds == waiters # {} /\ ~ inFlight ~> waiters = {} \/ inFlight
=============================================================================
