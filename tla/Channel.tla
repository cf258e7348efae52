------------------------------ MODULE Channel -------------------------------
(***************************************************************************)
(* The execution channel: worker processes that send suspend signals and   *)
(* one result down their pipes, and the main thread that reaps them,       *)
(* batch by batch, times them out, and aborts them all when the run ends.  *)
(* What a single pipe does is the subject of Pipe; here it is a sequence   *)
(* of frames that a drain empties.                                         *)
(***************************************************************************)
EXTENDS Naturals, Sequences, FiniteSets

CONSTANTS
    Exec,           \* executions, by execution_id
    MaxSignals,     \* bound: suspend signals an execution sends
    PipeFaults      \* a frame may be invalid, a pipe may fail to close

ASSUME ChannelAssumption ==
    IsFiniteSet(Exec) /\ MaxSignals \in Nat /\ PipeFaults \in BOOLEAN

VARIABLES
    worker,     \* the process of each execution
    pipe,       \* the frames it has sent and nobody has taken
    told,       \* history: the result it has sent
    signalled,  \* history: the suspend signals it has sent
    overdue,    \* its timeout_at_monotonic has passed
    results,    \* _results
    errors,     \* _errors
    pending,    \* _pending_signals, counted
    outcome,    \* the ExecutionResult (or the cancellation) made of it
    carried,    \* the signals that ExecutionResult carries
    applied,    \* the signals applied to the resources
    open,       \* the executions that have a receiver: _receivers
    place,      \* "free", in flight ("flying"), "settled" or "abandoned" in flight
    mode,       \* where the main thread is
    net,        \* the abort under way is the crash net's
    todo,       \* the handles it still has to look at there
    current,    \* the handle being collected, with the reason
    hit         \* history: hit by an error of its "own" pipe, of one in its "batch", or not

main == <<results, errors, pending, outcome, carried, applied, open, place, mode, net, todo,
          current>>
vars == <<worker, pipe, told, signalled, overdue, hit, main>>

Flying == {h \in Exec : place[h] = "flying"}
NoOne == <<>>

-----------------------------------------------------------------------------
(* The workers and the clock.                                               *)

\* A worker sends nothing after its result.
Working(h) == worker[h] = "alive" /\ told[h] = "nothing"

SendSuspend(h) ==
    /\ Working(h) /\ signalled[h] < MaxSignals
    /\ pipe' = [pipe EXCEPT ![h] = Append(@, "suspend")]
    /\ signalled' = [signalled EXCEPT ![h] = @ + 1]
    /\ UNCHANGED <<worker, told, overdue, hit, main>>

SendInvalid(h) ==
    /\ PipeFaults /\ Working(h)
    /\ \A i \in DOMAIN pipe[h] : pipe[h][i] # "invalid"
    /\ pipe' = [pipe EXCEPT ![h] = Append(@, "invalid")]
    /\ hit' = [hit EXCEPT ![h] = "own"]
    /\ UNCHANGED <<worker, told, signalled, overdue, main>>

SendResult(h) ==
    /\ Working(h)
    /\ \E r \in {"result", "interrupted"} :
          /\ pipe' = [pipe EXCEPT ![h] = Append(@, r)]
          /\ told' = [told EXCEPT ![h] = r]
    /\ UNCHANGED <<worker, signalled, overdue, hit, main>>

WorkerDies(h) ==
    /\ worker[h] = "alive"
    /\ worker' = [worker EXCEPT ![h] = "dead"]
    /\ UNCHANGED <<pipe, told, signalled, overdue, hit, main>>

TimePasses(h) ==
    /\ worker[h] = "alive" /\ ~ overdue[h]
    /\ overdue' = [overdue EXCEPT ![h] = TRUE]
    /\ UNCHANGED <<worker, pipe, told, signalled, hit, main>>

-----------------------------------------------------------------------------
(* _receive_available and _drain_finished: what an execution's state in the *)
(* channel is once every frame in its pipe has been processed.              *)

Received(h) == {pipe[h][i] : i \in DOMAIN pipe[h]}
ErrorAfter(h) == errors[h] \/ "invalid" \in Received(h)

\* An error drops the result, and a result after an error is not kept.
ResultAfter(h) ==
    IF ErrorAfter(h) THEN "nothing"
    ELSE IF "result" \in Received(h) THEN "result"
    ELSE IF "interrupted" \in Received(h) THEN "interrupted"
    ELSE results[h]

\* Faulty variant: what the last drain brings is not salvaged.
PendingAfterUnread(h) == pending[h]

PendingAfter(h) ==
    pending[h] + Cardinality({i \in DOMAIN pipe[h] : pipe[h][i] = "suspend"})

ReceiveAvailable(hs) ==
    /\ pipe' = [h \in Exec |-> IF h \in hs THEN <<>> ELSE pipe[h]]
    /\ errors' = [h \in Exec |-> IF h \in hs THEN ErrorAfter(h) ELSE errors[h]]
    /\ results' = [h \in Exec |-> IF h \in hs THEN ResultAfter(h) ELSE results[h]]

\* Pipe closed, everything the channel knew of h forgotten.
Forget(h) ==
    /\ pipe' = [pipe EXCEPT ![h] = <<>>]
    /\ errors' = [errors EXCEPT ![h] = FALSE]
    /\ results' = [results EXCEPT ![h] = "nothing"]
    /\ pending' = [pending EXCEPT ![h] = 0]

\* apply_pending_signals.
ApplyPendingSignals ==
    /\ ReceiveAvailable(Flying)
    /\ applied' = [h \in Exec |-> applied[h] + IF h \in Flying THEN PendingAfter(h) ELSE 0]
    /\ pending' = [h \in Exec |-> IF h \in Flying THEN 0 ELSE pending[h]]

-----------------------------------------------------------------------------
(* The main loop.                                                           *)

Spawn(h) ==
    /\ mode = "loop" /\ place[h] = "free"
    /\ place' = [place EXCEPT ![h] = "flying"]
    /\ worker' = [worker EXCEPT ![h] = "alive"]
    /\ open' = open \cup {h}
    /\ UNCHANGED <<pipe, told, signalled, overdue, hit, results, errors, pending, outcome,
                   carried, applied, mode, net, todo, current>>

\* _drain_signals_before_reserve.
DrainSignals ==
    /\ mode = "loop" /\ Flying # {}
    /\ ApplyPendingSignals
    /\ UNCHANGED <<worker, told, signalled, overdue, hit, outcome, carried, open, place, mode,
                   net, todo, current>>

\* _drain_and_settle.
StartReap ==
    /\ mode = "loop" /\ Flying # {}
    /\ ApplyPendingSignals
    /\ mode' = "reaping"
    /\ todo' = Flying
    /\ UNCHANGED <<worker, told, signalled, overdue, hit, outcome, carried, open, place, net,
                   current>>

Ready(h) == ErrorAfter(h) \/ ResultAfter(h) # "nothing" \/ worker[h] = "dead"

\* Faulty variant: nobody looks at the clock.
TimedOutNever(h) == FALSE

TimedOut(h) == ~ Ready(h) /\ overdue[h]

\* reap_completed looks at one handle.
Reap(h) ==
    /\ mode = "reaping" /\ h \in todo
    /\ ReceiveAvailable({h})
    /\ pending' = [pending EXCEPT ![h] = PendingAfter(h)]
    /\ \/ /\ Ready(h) \/ TimedOut(h)
          /\ mode' = "collecting"
          /\ current' = <<h, IF Ready(h) THEN "ready" ELSE "overdue">>
          /\ UNCHANGED todo
       \/ /\ ~ Ready(h) /\ ~ TimedOut(h)
          /\ todo' = todo \ {h}
          /\ UNCHANGED <<mode, current>>
    /\ UNCHANGED <<worker, told, signalled, overdue, hit, outcome, carried, applied, open, place,
                   net>>

\* Faulty variant: an overdue worker is out of time whatever its pipe holds.
VerdictUnread(h) ==
    IF current[2] = "overdue" THEN "timeout"
    ELSE IF ResultAfter(h) # "nothing" THEN ResultAfter(h) ELSE "death"

\* The process is killed and the pipe drained before the verdict: a result
\* that made it into the pipe counts, timeout or not.
Verdict(h) ==
    IF ResultAfter(h) # "nothing" THEN ResultAfter(h)
    ELSE IF current[2] = "overdue" /\ worker[h] = "alive" THEN "timeout"
    ELSE "death"

\* Faulty variant: the process is left to itself.
KilledNot(hs) == worker' = worker

Killed(hs) == worker' = [h \in Exec |-> IF h \in hs THEN "dead" ELSE worker[h]]

\* _collect_outcome: the signals not yet applied travel with the outcome.
Collect(h) ==
    /\ mode = "collecting" /\ current[1] = h
    /\ ~ ErrorAfter(h)
    /\ outcome' = [outcome EXCEPT ![h] = Verdict(h)]
    /\ carried' = [carried EXCEPT ![h] = PendingAfter(h)]
    /\ Killed({h})
    /\ Forget(h)
    /\ open' = open \ {h}
    /\ mode' = "reaping"
    /\ todo' = todo \ {h}
    /\ current' = NoOne
    /\ UNCHANGED <<told, signalled, overdue, hit, applied, place, net>>

\* An error on the pipe of h leaves the function that was building the list
\* of outcomes: the list is gone, the executions are still in flight.
LoseOutcomes(h) ==
    /\ outcome' = [x \in Exec |-> IF x \in Flying THEN "none" ELSE outcome[x]]
    /\ carried' = [x \in Exec |-> IF x \in Flying THEN 0 ELSE carried[x]]
    /\ hit' = [x \in Exec |-> IF x = h THEN "own"
                             ELSE IF x \in Flying /\ outcome[x] # "none" /\ hit[x] = "no"
                             THEN "batch" ELSE hit[x]]

\* It raises - an invalid frame, or a pipe that does not close - out of
\* reap_completed into the crash net.
CollectRaises(h) ==
    /\ mode = "collecting" /\ current[1] = h
    /\ ErrorAfter(h) \/ PipeFaults
    /\ LoseOutcomes(h)
    /\ Killed({h})
    /\ Forget(h)
    /\ open' = open \ {h}
    /\ mode' = "crashed"
    /\ todo' = {}
    /\ current' = NoOne
    /\ UNCHANGED <<told, signalled, overdue, applied, place, net>>

\* settle_reaped, the batch as a whole; a settlement may crash the run.
SettleReaped ==
    LET batch == {h \in Flying : outcome[h] # "none"}
    IN  /\ mode = "reaping" /\ todo = {}
        /\ place' = [h \in Exec |-> IF h \in batch THEN "settled" ELSE place[h]]
        /\ applied' = [h \in Exec |-> applied[h] + IF h \in batch THEN carried[h] ELSE 0]
        /\ mode' \in {"loop"} \cup IF batch # {} THEN {"crashed"} ELSE {}
        /\ UNCHANGED <<worker, pipe, told, signalled, overdue, hit, results, errors, pending,
                       outcome, carried, open, net, todo, current>>

-----------------------------------------------------------------------------
(* The abort.                                                               *)

\* A forced stop, or the crash net: the signals first.
StartAbort ==
    /\ mode \in {"loop", "crashed"} /\ Flying # {}
    /\ ApplyPendingSignals
    /\ mode' = "probing"
    /\ net' = (mode = "crashed")
    /\ todo' = Flying
    /\ UNCHANGED <<worker, told, signalled, overdue, hit, outcome, carried, open, place,
                   current>>

\* _consume_result_if_present: an interrupted worker is not done.
Done(h) == ~ ErrorAfter(h) /\ ResultAfter(h) = "result"

\* The first look, before the processes are killed.
Probe(h) ==
    /\ mode = "probing" /\ h \in todo
    /\ todo' = todo \ {h}
    /\ pipe' = [pipe EXCEPT ![h] = <<>>]
    /\ errors' = [errors EXCEPT ![h] = ErrorAfter(h)]
    /\ IF Done(h)
       THEN /\ outcome' = [outcome EXCEPT ![h] = "result"]
            /\ carried' = [carried EXCEPT ![h] = PendingAfter(h)]
            /\ results' = [results EXCEPT ![h] = "nothing"]
            /\ pending' = [pending EXCEPT ![h] = 0]
       ELSE /\ results' = [results EXCEPT ![h] = ResultAfter(h)]
            /\ pending' = [pending EXCEPT ![h] = PendingAfter(h)]
            /\ UNCHANGED <<outcome, carried>>
    /\ UNCHANGED <<worker, told, signalled, overdue, hit, applied, open, place, mode, net,
                   current>>

FinalizeProcesses ==
    /\ mode = "probing" /\ todo = {}
    /\ Killed(Flying)
    /\ mode' = "draining"
    /\ todo' = Flying
    /\ UNCHANGED <<pipe, told, signalled, overdue, hit, results, errors, pending, outcome,
                   carried, applied, open, place, net, current>>

FoundLate(h) == outcome[h] = "result" \/ Done(h)

\* Those found done come first.
NextToDrain(h) ==
    /\ mode = "draining" /\ h \in todo
    /\ outcome[h] = "result" \/ \A x \in todo : outcome[x] # "result"

\* The second look, at what was sent before the kill.  The signals travel
\* with the result, or with the AbortOutcome for the cancelled.
Drain(h) ==
    /\ NextToDrain(h)
    /\ todo' = todo \ {h}
    /\ Forget(h)
    /\ open' = open \ {h}
    /\ outcome' = [outcome EXCEPT ![h] = IF FoundLate(h) THEN "result" ELSE "cancelled"]
    /\ carried' = [carried EXCEPT ![h] = @ + PendingAfter(h)]
    /\ UNCHANGED <<worker, told, signalled, overdue, hit, applied, place, mode, net, current>>

\* Its pipe does not close, and the AbortOutcome is lost: out of the stop gate
\* into the crash net, which aborts once more; out of the crash net's abort,
\* which is only logged, with everything still in flight abandoned.
DrainRaises(h) ==
    /\ PipeFaults /\ NextToDrain(h) /\ h \in open
    /\ LoseOutcomes(h)
    /\ pipe' = [pipe EXCEPT ![h] = <<>>]
    /\ errors' = [errors EXCEPT ![h] = ErrorAfter(h)]
    /\ results' = [results EXCEPT ![h] = IF Done(h) THEN "nothing" ELSE ResultAfter(h)]
    /\ pending' = [pending EXCEPT ![h] = 0]
    /\ open' = open \ {h}
    /\ mode' = IF net THEN "down" ELSE "crashed"
    /\ place' = [x \in Exec |-> IF net /\ x \in Flying THEN "abandoned" ELSE place[x]]
    /\ todo' = {}
    /\ UNCHANGED <<worker, told, signalled, overdue, applied, net, current>>

SettleAborted ==
    /\ mode = "draining" /\ todo = {}
    /\ place' = [h \in Exec |-> IF h \in Flying THEN "settled" ELSE place[h]]
    /\ applied' = [h \in Exec |-> applied[h] + IF h \in Flying THEN carried[h] ELSE 0]
    /\ mode' = "down"
    /\ UNCHANGED <<worker, pipe, told, signalled, overdue, hit, results, errors, pending,
                   outcome, carried, open, net, todo, current>>

-----------------------------------------------------------------------------
Init ==
    /\ worker = [h \in Exec |-> "none"] /\ pipe = [h \in Exec |-> <<>>]
    /\ told = [h \in Exec |-> "nothing"] /\ signalled = [h \in Exec |-> 0]
    /\ overdue = [h \in Exec |-> FALSE] /\ hit = [h \in Exec |-> "no"]
    /\ results = [h \in Exec |-> "nothing"] /\ errors = [h \in Exec |-> FALSE]
    /\ pending = [h \in Exec |-> 0]
    /\ outcome = [h \in Exec |-> "none"] /\ carried = [h \in Exec |-> 0]
    /\ applied = [h \in Exec |-> 0]
    /\ place = [h \in Exec |-> "free"] /\ open = {}
    /\ mode = "loop" /\ net = FALSE /\ todo = {} /\ current = NoOne

Worker(h) == SendSuspend(h) \/ SendInvalid(h) \/ SendResult(h) \/ WorkerDies(h)

Main ==
    \/ StartReap \/ SettleReaped
    \/ \E h \in Exec : Reap(h) \/ Collect(h) \/ CollectRaises(h)
    \/ \E h \in Exec : Probe(h) \/ Drain(h) \/ DrainRaises(h)
    \/ FinalizeProcesses \/ SettleAborted
    \/ mode = "crashed" /\ StartAbort

Next ==
    \/ Main \/ DrainSignals \/ StartAbort
    \/ \E h \in Exec : Worker(h) \/ Spawn(h) \/ TimePasses(h)

Spec == Init /\ [][Next]_vars

\* The main loop goes on and time passes; workers owe nothing.
FairSpec == Spec /\ WF_vars(Main) /\ \A h \in Exec : WF_vars(TimePasses(h))

-----------------------------------------------------------------------------
(* Properties.                                                              *)

Outcomes == {"none", "result", "interrupted", "death", "timeout", "cancelled"}

TypeOK ==
    /\ worker \in [Exec -> {"none", "alive", "dead"}]
    /\ pipe \in [Exec -> Seq({"suspend", "invalid", "result", "interrupted"})]
    /\ told \in [Exec -> {"nothing", "result", "interrupted"}]
    /\ results \in [Exec -> {"nothing", "result", "interrupted"}]
    /\ errors \in [Exec -> BOOLEAN] /\ overdue \in [Exec -> BOOLEAN]
    /\ \A h \in Exec : {signalled[h], pending[h], carried[h], applied[h]} \subseteq 0..MaxSignals
    /\ outcome \in [Exec -> Outcomes] /\ hit \in [Exec -> {"no", "own", "batch"}]
    /\ place \in [Exec -> {"free", "flying", "settled", "abandoned"}]
    /\ mode \in {"loop", "reaping", "collecting", "crashed", "probing", "draining", "down"}
    /\ todo \subseteq Exec /\ open \subseteq Exec /\ net \in BOOLEAN
    /\ current = NoOne \/ current \in Exec \X {"ready", "overdue"}

SettledByResult(h) == outcome[h] = "result" <=> told[h] = "result"

\* An execution is settled by its result exactly when its worker got the result
\* into the pipe, however that races the timeout, the abort and the kill.  An
\* error on another pipe changes that at most for the executions that were
\* collected before it in the same reap, or classified before it in the same
\* abort.
ResultsCount ==
    \A h \in Exec : place[h] = "settled" /\ hit[h] = "no" => SettledByResult(h)

\* A finished job is neither run again nor killed by mistake, whatever happens
\* to the pipes of the others.
FinishedCount ==
    \A h \in Exec : place[h] = "settled" /\ hit[h] # "own" => SettledByResult(h)

\* Every suspend signal a worker sent is taken from its pipe and reaches the
\* resources, once, by the time its execution is settled: applied early, added
\* to its result, or salvaged from the pipe of a worker that was killed; errors
\* as in ResultsCount.  (What a successful result repeats of itself is part of
\* Resource.)
SignalsArrive ==
    \A h \in Exec : place[h] = "settled" /\ hit[h] = "no" => applied[h] = signalled[h]

\* No process survives the settlement of its execution, nor a run that ends
\* without settling it.
NoWorkerLeft == \A h \in Exec : place[h] \in {"settled", "abandoned"} => worker[h] = "dead"

\* Every execution is settled: its worker answers, dies, or is timed out, and
\* an error on the pipe of one ends in an abort that settles the others.  The
\* exception is a pipe that does not close within the crash net's own abort:
\* the executions in flight are then left to the next run, whose queue still
\* has their jobs.
EveryExecutionSettled ==
    \A h \in Exec : place[h] = "flying" ~>
        \/ place[h] = "settled"
        \/ place[h] = "abandoned" /\ net /\ \E x \in Exec : hit[x] = "own"
=============================================================================
