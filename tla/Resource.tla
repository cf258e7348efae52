------------------------------ MODULE Resource ------------------------------
(***************************************************************************)
(* The resource manager: capacities and rate limits, the two-phase lease a *)
(* job holds on them from reserve to release, the suspensions its handler  *)
(* asks for, and their copy on disk that the next run restores.            *)
(***************************************************************************)
EXTENDS Integers, FiniteSets, FiniteSetsExt

CONSTANTS
    Job,
    Capacities,     \* names of CapacityResources
    Rates,          \* names of RateLimitResources
    Cap,            \* max_capacity
    Interval,       \* interval_seconds
    Needs,          \* the effective resources of a job: names to amounts
    Requests,       \* the seconds a handler asks for
    MaxSuspend,     \* _MAX_SUSPEND_SECONDS
    MaxSignals,     \* bound: suspensions an execution asks for
    MaxTime,        \* bound: the clock
    MaxSkew         \* bound: how far the wall clock is set off

Names == Capacities \cup Rates

ASSUME ResourceAssumption ==
    /\ Capacities \cap Rates = {} /\ IsFiniteSet(Names) /\ IsFiniteSet(Job)
    /\ Cap \in [Capacities -> Nat] /\ Interval \in [Rates -> Nat \ {0}]
    /\ \A j \in Job : \A r \in DOMAIN Needs[j] : Needs[j][r] \in Nat
    /\ Requests \subseteq Nat \ {0}
    /\ {MaxSuspend, MaxSignals, MaxTime, MaxSkew} \subseteq Nat

VARIABLES
    now,        \* the monotonic clock
    skew,       \* the wall clock minus the monotonic one
    phase,      \* "up", "aborting", "ended" (memory kept) or "killed"
    stage,      \* how far the dispatch of chosen is
    chosen,     \* the job being dispatched, as a set
    at,         \* where each job is
    lease,      \* the status of each job's lease
    used,       \* used, of the capacities
    until,      \* _suspended_until and next_available
    saved,      \* resource_suspensions in engine_metadata, by the wall clock
    inPipe,     \* suspend signals sent and not received
    asked,      \* all suspensions of the execution: a success repeats them
    owed,       \* history: the deadline persisted for each resource and not lost in a load
    due         \* history: the same with what this process applied, each signal once

vars == <<now, skew, phase, stage, chosen, at, lease, used, until, saved, inPipe, asked,
          owed, due>>
clocks == <<now, skew>>
leases == <<at, lease, used>>
suspensions == <<until, saved, owed, due>>

Wall == now + skew
Amount(j, r) == IF r \in DOMAIN Needs[j] THEN Needs[j][r] ELSE 0

\* What the jobs js need of r together: as many as there are units.
Load(js, r) == Cardinality(UNION {{j} \X (1 .. Amount(j, r)) : j \in js})

Running == {j \in Job : at[j] = "running"}

-----------------------------------------------------------------------------
(* A single resource.                                                       *)

CanAcquire(r, amount) ==
    /\ now >= until[r]
    /\ r \in Capacities => used[r] + amount <= Cap[r]

\* _clamp_suspend.
Clamp(s) == IF s > MaxSuspend THEN MaxSuspend ELSE s

\* suspend, for a set of <<name, seconds>>: the latest deadline stands.
Suspended(sigs) ==
    [r \in Names |-> Max({until[r]} \cup {now + Clamp(s[2]) : s \in {q \in sigs : q[1] = r}})]

\* Faulty variant: deadlines of the monotonic clock are saved as they are.
CollectedMonotonic(deadline) == [r \in {q \in Names : deadline[q] > now} |-> deadline[r]]

\* collect_suspensions: what is still to come, by the wall clock.
Collected(deadline) == [r \in {q \in Names : deadline[q] > now} |-> Wall + (deadline[r] - now)]

\* persist_resource_suspensions; a failing backend is logged.
Persist(deadline) ==
    \/ /\ saved' = Collected(deadline)
       /\ owed' = [r \in Names |-> IF deadline[r] > now THEN Max({owed[r], deadline[r]})
                                                        ELSE owed[r]]
    \/ UNCHANGED <<saved, owed>>

\* apply_suspend_signals, and the same in apply_result; first are the signals
\* among sigs that are applied for the first time.
Apply(sigs, first) ==
    /\ until' = Suspended(sigs)
    /\ due' = [r \in Names |-> Max({due[r]} \cup {now + Clamp(s[2]) : s \in {q \in first : q[1] = r}})]
    /\ IF sigs = {} THEN UNCHANGED <<saved, owed>> ELSE Persist(until')

-----------------------------------------------------------------------------
(* Leases.                                                                  *)

\* Faulty variant: only a claimed lease is given back.
HoldsClaimed(j) == lease[j] = "claimed"

Holds(j) == lease[j] \in {"reserved", "claimed"}

\* ResourceLease.release of the leases of js, with release_all and release.
Release(js) ==
    LET back == {j \in js : Holds(j)}
    IN  /\ used' = [c \in Capacities |-> Max({0, used[c] - Load(back, c)})]
        /\ lease' = [j \in Job |-> IF j \in back THEN "released" ELSE lease[j]]

\* evaluate.
Unknown(j) == ~ DOMAIN Needs[j] \subseteq Names
Impossible(j) == \E c \in Capacities : Amount(j, c) > Cap[c]
Available(j) ==
    /\ ~ Unknown(j) /\ ~ Impossible(j)
    /\ \A r \in DOMAIN Needs[j] : CanAcquire(r, Needs[j][r])

CanAcquireWorker == "workers" \in Capacities => CanAcquire("workers", 1)

-----------------------------------------------------------------------------
(* Dispatch: the scan, the signals, reserve, spawn and claim.               *)

Idle == phase = "up" /\ stage = "idle"

Choose(j) ==
    /\ Idle /\ at[j] = "queued"
    /\ CanAcquireWorker
    /\ Available(j)
    /\ chosen' = {j}
    /\ stage' = "chosen"
    /\ UNCHANGED <<clocks, phase, leases, suspensions, inPipe, asked>>

\* The governor fails what can never be had.
Archive(j) ==
    /\ Idle /\ at[j] = "queued"
    /\ Unknown(j) \/ Impossible(j)
    /\ at' = [at EXCEPT ![j] = "done"]
    /\ UNCHANGED <<clocks, phase, stage, chosen, lease, used, suspensions, inPipe, asked>>

\* apply_pending_signals, before reserve and before every reap.
DrainSignals ==
    /\ phase = "up" /\ stage \in {"idle", "chosen"}
    /\ stage = "chosen" \/ \E j \in Running : inPipe[j] # {}
    /\ LET sigs == UNION {inPipe[j] : j \in Running}
       IN  Apply(sigs, sigs)
    /\ inPipe' = [j \in Job |-> IF j \in Running THEN {} ELSE inPipe[j]]
    /\ stage' = IF stage = "chosen" THEN "drained" ELSE "idle"
    /\ UNCHANGED <<clocks, phase, chosen, leases, asked>>

\* Faulty variant: the rates are taken as the scan saw them.
RateFreeAtScan(r) == TRUE

RateFree(r) == now >= until[r]

\* reserve: capacities are taken, rates looked at again.
Reserve(j) ==
    /\ phase = "up" /\ stage = "drained" /\ chosen = {j}
    /\ IF \A r \in DOMAIN Needs[j] \cap Rates : RateFree(r)
       THEN /\ used' = [c \in Capacities |-> used[c] + Amount(j, c)]
            /\ lease' = [lease EXCEPT ![j] = "reserved"]
            /\ stage' = "reserved"
            /\ UNCHANGED chosen
       ELSE /\ stage' = "idle"
            /\ chosen' = {}
            /\ UNCHANGED <<used, lease>>
    /\ UNCHANGED <<clocks, phase, at, suspensions, inPipe, asked>>

\* A rejected payload or a failing spawn, within the lease's with block.
SpawnFails(j) ==
    /\ phase = "up" /\ stage = "reserved" /\ chosen = {j}
    /\ Release({j})
    /\ \E place \in {"queued", "done"} : at' = [at EXCEPT ![j] = place]
    /\ stage' = "idle" /\ chosen' = {}
    /\ UNCHANGED <<clocks, phase, suspensions, inPipe, asked>>

\* claim: the rates are advanced.
Claimed(j) ==
    [r \in Names |-> IF r \in DOMAIN Needs[j] \cap Rates
                     THEN Max({now, until[r]}) + Interval[r] * Needs[j][r]
                     ELSE until[r]]

Spawn(j) ==
    /\ phase = "up" /\ stage = "reserved" /\ chosen = {j}
    /\ until' = Claimed(j)
    /\ due' = [r \in Names |-> Max({due[r], Claimed(j)[r]})]
    /\ lease' = [lease EXCEPT ![j] = "claimed"]
    /\ at' = [at EXCEPT ![j] = "running"]
    /\ inPipe' = [inPipe EXCEPT ![j] = {}]
    /\ asked' = [asked EXCEPT ![j] = {}]
    /\ stage' = "idle" /\ chosen' = {}
    /\ UNCHANGED <<clocks, phase, used, saved, owed>>

-----------------------------------------------------------------------------
(* Handlers and completion.                                                 *)

\* ctx.suspend_resource: sent at once, and kept for the result.
Ask(j) ==
    /\ at[j] = "running" /\ phase \in {"up", "aborting"}
    /\ Cardinality(asked[j]) < MaxSignals
    /\ \E s \in (Names \X Requests) \ asked[j] :
          /\ inPipe' = [inPipe EXCEPT ![j] = @ \cup {s}]
          /\ asked' = [asked EXCEPT ![j] = @ \cup {s}]
    /\ UNCHANGED <<clocks, phase, stage, chosen, leases, suspensions>>

\* complete_job: a success repeats all that was asked for, with any other end
\* only what is left in the pipe is applied; then the lease is released.
Settle(j, place) ==
    /\ \/ Apply(asked[j], inPipe[j])
       \/ Apply(inPipe[j], inPipe[j])
    /\ inPipe' = [inPipe EXCEPT ![j] = {}]
    /\ asked' = [asked EXCEPT ![j] = {}]
    /\ Release({j})
    /\ at' = [at EXCEPT ![j] = place]

Complete(j) ==
    /\ Idle /\ at[j] = "running"
    /\ \E place \in {"queued", "done"} : Settle(j, place)
    /\ UNCHANGED <<clocks, phase, stage, chosen>>

\* abort_in_flight: signals, then every lease, then the jobs one by one - and
\* each releases its lease again.
StartAbort ==
    /\ Idle /\ Running # {}
    /\ LET sigs == UNION {inPipe[j] : j \in Running}
       IN  Apply(sigs, sigs)
    /\ inPipe' = [j \in Job |-> {}]
    /\ Release(Running)
    /\ phase' = "aborting"
    /\ UNCHANGED <<clocks, stage, chosen, at, asked>>

SettleAborted(j) ==
    /\ phase = "aborting" /\ at[j] = "running"
    /\ \E place \in {"queued", "done"} : Settle(j, place)
    /\ UNCHANGED <<clocks, phase, stage, chosen>>

-----------------------------------------------------------------------------
(* The run and the process.                                                 *)

\* The run is over; the suspensions are persisted, memory lives on.
End ==
    /\ Idle \/ phase = "aborting"
    /\ Running = {}
    /\ Persist(until)
    /\ phase' = "ended"
    /\ UNCHANGED <<clocks, stage, chosen, leases, until, due, inPipe, asked>>

\* A new process constructs the resources anew.
Kill ==
    /\ phase \in {"up", "aborting", "ended"}
    /\ phase' = "killed"
    /\ stage' = "idle" /\ chosen' = {}
    /\ at' = [j \in Job |-> IF at[j] = "running" THEN "queued" ELSE at[j]]
    /\ lease' = [j \in Job |-> "none"]
    /\ used' = [c \in Capacities |-> 0]
    /\ until' = [r \in Names |-> IF r \in Rates THEN now ELSE 0]
    /\ due' = owed
    /\ inPipe' = [j \in Job |-> {}] /\ asked' = [j \in Job |-> {}]
    /\ UNCHANGED <<clocks, saved, owed>>

\* restore_suspensions: what of saved is still to come.
Restored == {<<r, saved[r] - Wall>> : r \in {q \in DOMAIN saved : saved[q] > Wall}}

\* load_resource_suspensions.
Start ==
    /\ phase \in {"ended", "killed"}
    /\ until' = Suspended(Restored)
    /\ phase' = "up"
    /\ UNCHANGED <<clocks, stage, chosen, leases, saved, inPipe, asked, owed, due>>

\* It fails, in the read, the JSON or its shape: that is logged and the run goes
\* on with what memory has, which after a kill is nothing; the next save
\* overwrites what was saved.
StartUnloaded ==
    /\ phase \in {"ended", "killed"}
    /\ phase' = "up"
    /\ owed' = IF phase = "killed" THEN [r \in Names |-> 0] ELSE owed
    /\ due' = IF phase = "killed" THEN [r \in Names |-> 0] ELSE due
    /\ UNCHANGED <<clocks, stage, chosen, leases, until, saved, inPipe, asked>>

Tick ==
    /\ now < MaxTime
    /\ now' = now + 1
    /\ UNCHANGED <<skew, phase, stage, chosen, leases, suspensions, inPipe, asked>>

\* The wall clock is set between two runs; set forward, it ends suspensions
\* sooner.
SetClock ==
    /\ phase = "killed"
    /\ skew' \in 0..MaxSkew \ {skew}
    /\ owed' = [r \in Names |-> Max({0, owed[r] - Max({0, skew' - skew})})]
    /\ due' = owed'
    /\ UNCHANGED <<now, phase, stage, chosen, leases, until, saved, inPipe, asked>>

-----------------------------------------------------------------------------
Init ==
    /\ now = 0 /\ skew = 0 /\ phase = "up" /\ stage = "idle" /\ chosen = {}
    /\ at = [j \in Job |-> "queued"] /\ lease = [j \in Job |-> "none"]
    /\ used = [c \in Capacities |-> 0] /\ until = [r \in Names |-> 0]
    /\ saved = [r \in {} |-> 0]
    /\ inPipe = [j \in Job |-> {}] /\ asked = [j \in Job |-> {}]
    /\ owed = [r \in Names |-> 0] /\ due = [r \in Names |-> 0]

Next ==
    \/ \E j \in Job : \/ Choose(j) \/ Archive(j) \/ Reserve(j) \/ SpawnFails(j) \/ Spawn(j)
                      \/ Ask(j) \/ Complete(j) \/ SettleAborted(j)
    \/ DrainSignals \/ StartAbort \/ End \/ Kill \/ Start \/ StartUnloaded \/ Tick \/ SetClock

Spec == Init /\ [][Next]_vars

-----------------------------------------------------------------------------
(* Properties.                                                              *)

TypeOK ==
    /\ now \in 0..MaxTime /\ skew \in 0..MaxSkew
    /\ phase \in {"up", "aborting", "ended", "killed"}
    /\ stage \in {"idle", "chosen", "drained", "reserved"}
    /\ chosen \subseteq Job /\ Cardinality(chosen) = IF stage = "idle" THEN 0 ELSE 1
    /\ at \in [Job -> {"queued", "running", "done"}]
    /\ lease \in [Job -> {"none", "reserved", "claimed", "released"}]
    /\ used \in [Capacities -> Nat] /\ until \in [Names -> Nat]
    /\ DOMAIN saved \subseteq Names /\ \A r \in DOMAIN saved : saved[r] \in Nat
    /\ \A j \in Job : inPipe[j] \subseteq asked[j] /\ asked[j] \subseteq Names \X Requests
    /\ owed \in [Names -> Nat] /\ due \in [Names -> Nat]

\* What the running jobs need together is never more than the capacity,
\* whatever dispatches failed, however often a lease was released in an abort,
\* and in a second run of the same process too.
NeverOversubscribed ==
    phase = "up" => \A c \in Capacities : Load(Running, c) <= Cap[c]

\* No capacity leaks: nothing is in use when no job runs or is being started.
NothingLeaks == Running = {} /\ chosen = {} => \A c \in Capacities : used[c] = 0

\* The accounts of the capacities are right, through failing spawns, retries, aborts
\* and second runs (reserve, claim, release): never oversubscribed, and no leak.
CapacityKept == NeverOversubscribed /\ NothingLeaks

\* A suspension that was persisted stays in force, in this run and in every
\* later one, after a kill as well, up to a load that fails in a new process; a
\* wall clock set forward shortens it by as much, and a time slice must not be
\* longer than the limit, to which a restored deadline is cut.
SuspensionsSurvive == phase = "up" => \A r \in Names : owed[r] > now => until[r] >= owed[r]

\* No handler, and no wall clock set back between runs, suspends a capacity for
\* longer than the limit.
SuspensionsBounded == \A c \in Capacities : until[c] <= now + MaxSuspend

\* A suspension lasts as long as it was asked for, within the limit and across the
\* processes (suspend, dump_suspensions, restore_suspensions): none is cut short by a
\* restart whose load succeeds, and none made longer than the limit by a handler or
\* the wall clock.
SuspensionsKept == SuspensionsSurvive /\ SuspensionsBounded

Starts(j, r) == at[j] # "running" /\ at'[j] = "running" /\ Amount(j, r) > 0

\* No job starts on a rate limit before the slices of those that this process
\* started on it, and every suspension of it that this process applied, are over;
\* nor, after a kill, before what was persisted is, unless the load of it failed.
\* A slice or suspension that no save reached is lost with its process, and a
\* suspended capacity is not looked at again between scan and reserve.
RateKept == [][\A j \in Job, r \in Rates : Starts(j, r) => now >= due[r] /\ now >= owed[r]]_vars
=============================================================================
