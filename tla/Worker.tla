------------------------------- MODULE Worker -------------------------------
(***************************************************************************)
(* One execution of a handler, from dispatch to the committed result.  In  *)
(* the worker process the handler declares an output, makes a request      *)
(* through HttpExecutor.execute (snapshot, guard, local retries), writes   *)
(* the output and ends one way or another; the worker entry turns the end  *)
(* into a report, or the worker dies or is timed out first.  In the main   *)
(* process the report is decoded, outputs are verified and cleaned up, and *)
(* only then is the result committed.  The jobs ask for the same page and  *)
(* share a snapshot of it.  The main process may die anywhere; its workers *)
(* then run on unheard until they end.                                     *)
(***************************************************************************)
EXTENDS FiniteSets, Http

CONSTANTS
    Jobs,
    Codes,          \* the statuses the server answers with
    Afters,         \* the values of Retry-After, 0 among them
    Inner,          \* guards around the fetch: "none", "bare" (no ctx) or "full"
    MaxRetries,     \* job.max_retries
    LocalRetries,   \* HttpExecutor.max_retries
    TimeoutIsTransient,
    Authorisations, \* what declare_output may be given: records of three BOOLEANs
    Writers,        \* the jobs that declare an output
    MaxLimited,     \* bound: answers that are a rate limit
    MaxFaults,      \* bound: deaths, time-outs, interrupts, disk faults, main crashes
    MaxReruns       \* bound: enqueues of a settled job

ASSUME WorkerAssumption ==
    /\ IsFiniteSet(Jobs) /\ Writers \subseteq Jobs
    /\ Codes \subseteq Nat \ {0} /\ Afters \subseteq Nat /\ 0 \in Afters
    /\ Inner \subseteq {"none", "bare", "full"}
    /\ {MaxRetries, LocalRetries, MaxLimited, MaxFaults, MaxReruns} \subseteq Nat
    /\ TimeoutIsTransient \in BOOLEAN
    /\ Authorisations \subseteq [existing: BOOLEAN, failure: BOOLEAN, success: BOOLEAN]

VARIABLES
    queued,     \* the queue table
    archive,    \* "none", "succeeded" or "failed"
    category,   \* error_category of the archived failure
    attempt,    \* attempt_no of the row
    up,         \* the main process
    pc,         \* where each job's execution is
    heard,      \* the main process that started it is still there
    tries,      \* local retries made
    resp,       \* the response in hand: its status and Retry-After, <<0, 0>> if none
    exc,        \* the exceptions under way: none or one
    snapshot,   \* the stored response, <<0, 0>> if none
    paced,      \* the longest suspension asked for in this execution
    declared,   \* the journal: its output is declared
    auth,       \* the authorisations of its declaration
    file,       \* its output path: "none", "foreign" (there before) or "made"
    result,     \* what the main process has decoded, once it has
    budget,     \* limited answers, faults and reruns so far
    answer,     \* history: the last answer of the server, and whether the response in
                \* hand is that answer
    muted,      \* history: the rate limit passed a bare guard as a library exception
    cause,      \* history: the category of what ended the execution
    stranded    \* history: a run ended while its output lay about

rows == <<queued, archive, category, attempt>>
request == <<tries, resp, exc, paced, answer, muted>>
disk == <<file, auth>>
vars == <<rows, up, pc, heard, request, snapshot, declared, disk, result, budget, cause, stranded>>

NoResponse == <<0, 0>>
NoResult == [kind |-> "none", transient |-> FALSE, code |-> "none", fatal |-> FALSE]
Working == {"declare", "lookup", "fetch", "put", "check", "guard", "write", "report"}

\* One more of a bounded kind of event.
Spend(what, limit) == budget[what] < limit /\ budget' = [budget EXCEPT ![what] = @ + 1]

-----------------------------------------------------------------------------
(* The worker process.                                                      *)

\* A fresh worker; no other may be alive for the job.
Dispatch(j) ==
    /\ up /\ queued[j] /\ pc[j] = "none"
    /\ pc' = [pc EXCEPT ![j] = IF j \in Writers THEN "declare" ELSE "lookup"]
    /\ heard' = [heard EXCEPT ![j] = TRUE]
    /\ UNCHANGED <<rows, up, request, snapshot, declared, disk, result, budget, cause, stranded>>

\* Nothing is left of what the workers of ks knew of their requests.
Clear(ks) ==
    /\ tries' = [j \in Jobs |-> IF j \in ks THEN 0 ELSE tries[j]]
    /\ resp' = [j \in Jobs |-> IF j \in ks THEN NoResponse ELSE resp[j]]
    /\ exc' = [j \in Jobs |-> IF j \in ks THEN {} ELSE exc[j]]
    /\ paced' = [j \in Jobs |-> IF j \in ks THEN 0 ELSE paced[j]]
    /\ answer' = [j \in Jobs |-> IF j \in ks THEN <<NoResponse, FALSE>> ELSE answer[j]]
    /\ muted' = [j \in Jobs |-> muted[j] /\ j \notin ks]

\* The executions of ks are over.
Idle(ks) ==
    /\ Clear(ks)
    /\ pc' = [j \in Jobs |-> IF j \in ks THEN "none" ELSE pc[j]]
    /\ heard' = [j \in Jobs |-> heard[j] /\ j \notin ks]

\* The exception of a handler's own fault, or of a path that exists already.
Other(classes) == [cls |-> classes, code |-> 0, header |-> 0, after |-> 0, suspended |-> FALSE]

\* send_output: a broken pipe, when the main process is gone, is an I/O error.
Sent(j) ==
    IF heard[j]
    THEN /\ declared' = [declared EXCEPT ![j] = TRUE]
         /\ pc' = [pc EXCEPT ![j] = "lookup"]
         /\ UNCHANGED exc
    ELSE /\ exc' = [exc EXCEPT ![j] = {Other({"ArtifactIOError"})}]
         /\ pc' = [pc EXCEPT ![j] = "report"]
         /\ UNCHANGED declared

\* Faulty variant: the declaration is sent before the path is looked at.
DeclareUnseen(j) ==
    /\ pc[j] = "declare"
    /\ IF file[j] # "none" /\ ~ auth[j].existing
       THEN /\ exc' = [exc EXCEPT ![j] = {Other({})}]
            /\ pc' = [pc EXCEPT ![j] = "report"]
            /\ declared' = [declared EXCEPT ![j] = heard[j]]
            /\ UNCHANGED <<file, stranded>>
       ELSE /\ file' = [file EXCEPT ![j] = "none"]
            /\ stranded' = [stranded EXCEPT ![j] = ~ heard[j]]
            /\ Sent(j)
    /\ UNCHANGED <<rows, up, heard, tries, resp, paced, answer, muted, snapshot, auth,
                   result, budget, cause>>

\* declare_output: an existing path is removed if that is authorised and is an
\* error otherwise; only then is the declaration sent to the main process.
Declare(j) ==
    /\ pc[j] = "declare"
    /\ IF file[j] # "none" /\ ~ auth[j].existing
       THEN /\ exc' = [exc EXCEPT ![j] = {Other({})}]
            /\ pc' = [pc EXCEPT ![j] = "report"]
            /\ UNCHANGED <<file, declared, stranded>>
       ELSE /\ file' = [file EXCEPT ![j] = "none"]
            /\ stranded' = [stranded EXCEPT ![j] = ~ heard[j]]
            /\ Sent(j)
    /\ UNCHANGED <<rows, up, heard, tries, resp, paced, answer, muted, snapshot, auth,
                   result, budget, cause>>

\* declare_cache: an output to be cleaned up whatever the outcome.
IsCache(j) == auth[j].failure /\ auth[j].success

\* The disk fails under the declaration.
DeclareFaults(j) ==
    /\ pc[j] = "declare" /\ Spend("faults", MaxFaults)
    /\ exc' = [exc EXCEPT ![j] = {Other({"ArtifactIOError"})}]
    /\ pc' = [pc EXCEPT ![j] = "report"]
    /\ UNCHANGED <<rows, up, heard, tries, resp, paced, answer, muted, snapshot, declared,
                   disk, result, cause, stranded>>

\* cached: a stored response is returned without asking.
Lookup(j) ==
    /\ pc[j] = "lookup"
    /\ IF snapshot # NoResponse
       THEN /\ resp' = [resp EXCEPT ![j] = snapshot]
            /\ answer' = [answer EXCEPT ![j] = <<@[1], FALSE>>]
            /\ pc' = [pc EXCEPT ![j] = "check"]
       ELSE /\ pc' = [pc EXCEPT ![j] = "fetch"]
            /\ UNCHANGED <<resp, answer>>
    /\ UNCHANGED <<rows, up, heard, tries, exc, paced, muted, snapshot, declared, disk, result,
                   budget, cause, stranded>>

\* What a fetch brings for an answer: the exceptions of it, none for a response.
\* urllib_fetch and requests_fetch check the response within a guard of their
\* own; other functions return it or raise it as a library exception.
Fetched(code, header, raises) ==
    IF raises THEN {StatusError(code, header)} ELSE Checked(code, header)

\* The server answers, or the transport fails.
Fetch(j) ==
    /\ pc[j] = "fetch"
    /\ \E code \in Codes \cup {0}, header \in Afters, inner \in Inner, raises \in BOOLEAN :
          LET x == IF code = 0 THEN {TransportError}
                   ELSE IF inner = "none" /\ ~ raises THEN {}
                   ELSE Fetched(code, header, raises)
              limited == code # 0 /\ ClassifyStatus(code) = "RateLimitHit"
          IN  /\ (raises => code >= 400) /\ (header # 0 => limited)
              /\ IF limited THEN Spend("limited", MaxLimited) ELSE UNCHANGED budget
              /\ answer' = [answer EXCEPT ![j] = <<<<code, header>>, TRUE>>]
              /\ resp' = [resp EXCEPT ![j] = IF x = {} THEN <<code, header>> ELSE NoResponse]
              /\ exc' = [exc EXCEPT ![j] =
                            IF inner = "none" THEN x ELSE {AfterGuard(inner = "full", y) : y \in x}]
              /\ paced' = [paced EXCEPT ![j] =
                            IF \E y \in x : Suspends(inner = "full", y) /\ RateLimitTtl(y) > @
                            THEN RateLimitTtl(CHOOSE y \in x : TRUE) ELSE @]
              /\ muted' = [muted EXCEPT ![j] = @ \/ (limited /\ raises /\ inner = "bare")]
              /\ pc' = [pc EXCEPT ![j] = IF x = {} THEN "put" ELSE "guard"]
    /\ UNCHANGED <<rows, up, heard, tries, snapshot, declared, disk, result, cause, stranded>>

Put(j) ==
    /\ pc[j] = "put"
    /\ snapshot' = IF Storable(resp[j][1]) THEN resp[j] ELSE snapshot
    /\ pc' = [pc EXCEPT ![j] = "check"]
    /\ UNCHANGED <<rows, up, heard, request, declared, disk, result, budget, cause, stranded>>

\* Another worker has asked for the same page and stores what it got; the last
\* one to store wins.
OthersPut ==
    /\ \E code \in Codes :
          Storable(code) /\ snapshot # <<code, 0>> /\ snapshot' = <<code, 0>>
    /\ UNCHANGED <<rows, up, pc, heard, request, declared, disk, result, budget, cause, stranded>>

\* The executor's own check of the response, stored or fresh.
Check(j) ==
    /\ pc[j] = "check"
    /\ exc' = [exc EXCEPT ![j] = Checked(resp[j][1], resp[j][2])]
    /\ pc' = [pc EXCEPT ![j] =
                 IF Checked(resp[j][1], resp[j][2]) # {} THEN "guard" ELSE "write"]
    /\ UNCHANGED <<rows, up, heard, tries, resp, paced, answer, muted, snapshot, declared,
                   disk, result, budget, cause, stranded>>

\* execute: rate limits and fatal errors leave at once, a RetryError after the
\* last local try.
TryAgain(j, x) ==
    "RetryError" \in x.cls /\ "RateLimitHit" \notin x.cls /\ tries[j] < LocalRetries

\* The executor's guard, with context and resource, on the way out.
Guard(j) ==
    /\ pc[j] = "guard"
    /\ \E x \in exc[j] :
          LET out == AfterGuard(TRUE, x) IN
          /\ paced' = [paced EXCEPT ![j] =
                          IF Suspends(TRUE, x) /\ RateLimitTtl(x) > @ THEN RateLimitTtl(x) ELSE @]
          /\ IF TryAgain(j, out)
             THEN /\ tries' = [tries EXCEPT ![j] = @ + 1]
                  /\ exc' = [exc EXCEPT ![j] = {}]
                  /\ pc' = [pc EXCEPT ![j] = "lookup"]
             ELSE /\ exc' = [exc EXCEPT ![j] = {out}]
                  /\ pc' = [pc EXCEPT ![j] = "report"]
                  /\ UNCHANGED tries
    /\ UNCHANGED <<rows, up, heard, resp, answer, muted, snapshot, declared, disk, result,
                   budget, cause, stranded>>

\* The rest of the handler: it writes its output, or forgets to, and returns.
Write(j) ==
    /\ pc[j] = "write"
    /\ IF j \in Writers
       THEN \E made \in {"made", "none"} : file' = [file EXCEPT ![j] = made]
       ELSE UNCHANGED file
    /\ pc' = [pc EXCEPT ![j] = "report"]
    /\ UNCHANGED <<rows, up, heard, request, snapshot, declared, auth, result, budget, cause, stranded>>

\* Exceptions a handler ends with for reasons of its own; the last is declared
\* fatal by a heuristic and registered as transient by the user.
OwnFaults == {{}, {"fatal_exceptions"}, {"transient_exceptions"}, {"SystemExit"},
              {"fatal_exceptions", "registered"}}

HandlerRaises(j) ==
    /\ pc[j] = "write" /\ Spend("faults", MaxFaults)
    /\ \E classes \in OwnFaults \cup {{"KeyboardInterrupt"}} :
          exc' = [exc EXCEPT ![j] = {Other(classes)}]
    /\ pc' = [pc EXCEPT ![j] = "report"]
    /\ UNCHANGED <<rows, up, heard, tries, resp, paced, answer, muted, snapshot, declared,
                   disk, result, cause, stranded>>

\* The worker entry sends its report and goes; an orphan's is not read.
Report(j) ==
    /\ pc[j] = "report"
    /\ IF heard[j]
       THEN pc' = [pc EXCEPT ![j] = "reported"] /\ UNCHANGED <<heard, request>>
       ELSE Idle({j})
    /\ UNCHANGED <<rows, up, snapshot, declared, disk, result, budget, cause, stranded>>

\* It is killed, or crashes, or the main process times it out and kills it.
Die(j) ==
    /\ pc[j] \in Working /\ Spend("faults", MaxFaults)
    /\ IF heard[j]
       THEN /\ \E how \in {"dead", "late"} : pc' = [pc EXCEPT ![j] = how]
            /\ UNCHANGED <<heard, request>>
       ELSE Idle({j})
    /\ UNCHANGED <<rows, up, snapshot, declared, disk, result, cause, stranded>>

-----------------------------------------------------------------------------
(* The main process.                                                        *)

\* _decode_ipc_result on the report of the worker entry.  A handler that ends
\* without an exception may still return what is not a success.
Decoded(j) ==
    IF exc[j] = {}
    THEN {[NoResult EXCEPT !.kind = k] : k \in {"success", "failure"}}
    ELSE {LET report == WorkerReport(x.cls) IN
          CASE report.status = "retry" ->
                  [NoResult EXCEPT !.kind = "retry", !.transient = report.kind # "none"]
            [] report.status = "interrupted" ->
                  [NoResult EXCEPT !.kind = "retry", !.transient = TRUE]
            [] report.status = "artifact_error" -> [NoResult EXCEPT !.kind = "artifact_error"]
            [] OTHER -> [NoResult EXCEPT !.kind = "failure", !.fatal = report.status = "fatal"]
          : x \in exc[j]}

\* _build_terminal_failure: a worker that is gone without a report.  The category
\* of the attribution is not kept, its retry wish and its error code are.
Attributed(exit, timedOut) ==
    LET d == ClassifyDeath(exit, timedOut, TimeoutIsTransient)
    IN  [NoResult EXCEPT !.kind = IF d.retry THEN "retry" ELSE "failure", !.code = d.code]

\* The category of what ended the execution, as errorclass.py states it.
CauseOf(r, exit) ==
    IF r.code # "none" THEN ClassifyDeath(exit, r.code = "TIMEOUT", TimeoutIsTransient).category
    ELSE IF r.kind = "retry" THEN "transient_exhausted"
    ELSE IF r.fatal THEN "fatal" ELSE "unknown"

Reap(j) ==
    /\ up /\ pc[j] \in {"reported", "dead", "late"}
    /\ \E exit \in Exits :
          \E r \in IF pc[j] = "reported" THEN Decoded(j) ELSE {Attributed(exit, pc[j] = "late")} :
             /\ result' = [result EXCEPT ![j] = r]
             /\ cause' = [cause EXCEPT ![j] = CauseOf(r, exit)]
    /\ pc' = [pc EXCEPT ![j] = "settle"]
    /\ UNCHANGED <<rows, up, heard, request, snapshot, declared, disk, budget, stranded>>

\* Faulty variant: nobody looks whether the output is there.
VerifiedNot(j) == result[j]

\* verify_artifacts: a success without an output it is to keep is a failure.
Verified(j) ==
    IF result[j].kind = "success" /\ declared[j] /\ ~ auth[j].success /\ file[j] = "none"
    THEN [result[j] EXCEPT !.kind = "failure"] ELSE result[j]

\* cleanup_declared_artifacts: the authorisation for this outcome; a retry is none.
CleanedUp(j, r) ==
    IF declared[j] /\ (IF r.kind = "success" THEN auth[j].success ELSE auth[j].failure)
    THEN "none" ELSE file[j]

\* apply_result up to the transaction.
Settle(j) ==
    /\ up /\ pc[j] = "settle" /\ result[j].kind # "artifact_error"
    /\ result' = [result EXCEPT ![j] = Verified(j)]
    /\ cause' = [cause EXCEPT ![j] = IF Verified(j) = result[j] THEN @ ELSE "unknown"]
    /\ file' = [file EXCEPT ![j] = CleanedUp(j, Verified(j))]
    /\ pc' = [pc EXCEPT ![j] = "commit"]
    /\ UNCHANGED <<rows, up, heard, request, snapshot, declared, auth, budget, stranded>>

Archive(j, meta) ==
    /\ archive' = [archive EXCEPT ![j] = "failed"]
    /\ category' = [category EXCEPT ![j] = FailureCategory(meta)]
    /\ queued' = [queued EXCEPT ![j] = FALSE]
    /\ UNCHANGED attempt

\* Faulty variant: the snapshot for the next attempt keeps the number.
ApplyRetrySame(j) ==
    IF ~ result[j].transient /\ attempt[j] > MaxRetries
    THEN Archive(j, [fatal |-> FALSE, code |-> "MAX_RETRIES_EXCEEDED"])
    ELSE UNCHANGED rows

\* _apply_retry: a transient signal costs nothing and ends nothing.
ApplyRetry(j) ==
    IF ~ result[j].transient /\ attempt[j] > MaxRetries
    THEN Archive(j, [fatal |-> FALSE, code |-> "MAX_RETRIES_EXCEEDED"])
    ELSE /\ attempt' = [attempt EXCEPT ![j] = IF result[j].transient THEN @ ELSE @ + 1]
         /\ UNCHANGED <<queued, archive, category>>

ApplySuccess(j) ==
    /\ archive' = [archive EXCEPT ![j] = "succeeded"]
    /\ category' = [category EXCEPT ![j] = "none"]
    /\ queued' = [queued EXCEPT ![j] = FALSE]
    /\ UNCHANGED attempt

\* The transaction, and the journal cleared after it.
Commit(j) ==
    /\ up /\ pc[j] = "commit"
    /\ CASE result[j].kind = "retry" -> ApplyRetry(j)
         [] result[j].kind = "success" -> ApplySuccess(j)
         [] OTHER -> Archive(j, result[j])
    /\ result' = [result EXCEPT ![j] = NoResult]
    /\ Idle({j})
    /\ declared' = [declared EXCEPT ![j] = FALSE]
    /\ UNCHANGED <<up, snapshot, disk, budget, cause, stranded>>

-----------------------------------------------------------------------------
(* The end of a run.                                                        *)

\* What no run knows of any more: results and declarations.  The outputs of the
\* executions in cleaned go as after a failure; others leave what they have written.
EndRun(cleaned) ==
    /\ up' = FALSE
    /\ result' = [j \in Jobs |-> NoResult]
    /\ declared' = [j \in Jobs |-> FALSE]
    /\ file' = [j \in Jobs |-> IF j \in cleaned /\ declared[j] /\ auth[j].failure
                               THEN "none" ELSE file[j]]
    /\ stranded' = [j \in Jobs |-> stranded[j] \/ (pc[j] # "none" /\ j \notin cleaned)]

\* The main process dies; workers that are still at it go on unheard.
Crash ==
    /\ up /\ Spend("faults", MaxFaults)
    /\ EndRun({})
    /\ Clear({j \in Jobs : pc[j] \notin Working})
    /\ pc' = [j \in Jobs |-> IF pc[j] \in Working THEN pc[j] ELSE "none"]
    /\ heard' = [j \in Jobs |-> FALSE]
    /\ UNCHANGED <<rows, snapshot, auth, cause>>

\* settle_aborted: workers still at it are killed, their rows stay queued and their
\* outputs are cleaned up, unless the disk fails under that as well.
Cancel ==
    /\ \E cleaned \in SUBSET {k \in Jobs : heard[k] /\ pc[k] \in Working} : EndRun(cleaned)
    /\ Idle({k \in Jobs : heard[k]})
    /\ UNCHANGED <<rows, snapshot, auth, cause>>

\* The run is aborted, by a second stop request or an error of the main process;
\* finished executions are settled first.
AbortRun ==
    /\ up /\ Spend("faults", MaxFaults)
    /\ \A k \in Jobs : pc[k] \in Working \cup {"none"}
    /\ Cancel

\* The disk failed under a declaration or fails under the cleanup: the run ends,
\* its row is put back as it was, and the others are aborted.
StopRun(j) ==
    /\ up /\ pc[j] = "settle"
    /\ IF result[j].kind = "artifact_error" THEN UNCHANGED budget ELSE Spend("faults", MaxFaults)
    /\ \A k \in Jobs \ {j} : \/ pc[k] \in Working \cup {"none"}
                             \/ pc[k] = "settle" /\ result[k].kind = "artifact_error"
    /\ Cancel

Restart ==
    /\ ~ up
    /\ up' = TRUE
    /\ UNCHANGED <<rows, pc, heard, request, snapshot, declared, disk, result, budget, cause, stranded>>

\* A settled job is enqueued again; its record stays until the new outcome.
Enqueue(j) ==
    /\ ~ queued[j] /\ pc[j] = "none" /\ Spend("reruns", MaxReruns)
    /\ queued' = [queued EXCEPT ![j] = TRUE]
    /\ attempt' = [attempt EXCEPT ![j] = 1]
    /\ UNCHANGED <<archive, category, up, pc, heard, request, snapshot, declared, disk, result,
                   cause, stranded>>

-----------------------------------------------------------------------------
Init ==
    /\ queued = [j \in Jobs |-> TRUE] /\ archive = [j \in Jobs |-> "none"]
    /\ category = [j \in Jobs |-> "none"] /\ attempt = [j \in Jobs |-> 1]
    /\ up = TRUE /\ pc = [j \in Jobs |-> "none"] /\ heard = [j \in Jobs |-> FALSE]
    /\ tries = [j \in Jobs |-> 0] /\ resp = [j \in Jobs |-> NoResponse]
    /\ exc = [j \in Jobs |-> {}] /\ paced = [j \in Jobs |-> 0]
    /\ answer = [j \in Jobs |-> <<NoResponse, FALSE>>] /\ muted = [j \in Jobs |-> FALSE]
    /\ snapshot = NoResponse /\ declared = [j \in Jobs |-> FALSE]
    /\ \E a \in Authorisations : auth = [j \in Jobs |-> a]
    /\ file \in [Jobs -> {"none", "foreign"}] /\ \A j \in Jobs \ Writers : file[j] = "none"
    /\ result = [j \in Jobs |-> NoResult]
    /\ budget = [limited |-> 0, faults |-> 0, reruns |-> 0]
    /\ cause = [j \in Jobs |-> "none"] /\ stranded = [j \in Jobs |-> FALSE]

InWorker(j) ==
    \/ Declare(j) \/ Lookup(j) \/ Fetch(j) \/ Put(j) \/ Check(j) \/ Guard(j) \/ Write(j) \/ Report(j)

InMain(j) == Dispatch(j) \/ Reap(j) \/ Settle(j) \/ Commit(j)

Next ==
    \/ \E j \in Jobs : \/ InWorker(j) \/ InMain(j)
                       \/ DeclareFaults(j) \/ HandlerRaises(j) \/ Die(j)
                       \/ StopRun(j) \/ Enqueue(j)
    \/ Crash \/ AbortRun \/ Restart \/ OthersPut

Spec == Init /\ [][Next]_vars

\* Workers and the main process go on as long as they can, a run that must stop
\* stops, and someone starts the next.
FairSpec ==
    /\ Spec
    /\ \A j \in Jobs : WF_vars(InWorker(j)) /\ WF_vars(InMain(j)) /\ WF_vars(StopRun(j))
    /\ WF_vars(Restart)

-----------------------------------------------------------------------------
TypeOK ==
    /\ queued \in [Jobs -> BOOLEAN] /\ archive \in [Jobs -> {"none", "succeeded", "failed"}]
    /\ category \in [Jobs -> Categories \cup {"none"}]
    /\ attempt \in [Jobs -> 1 .. MaxRetries + 1]
    /\ pc \in [Jobs -> Working \cup {"none", "reported", "dead", "late", "settle", "commit"}]
    /\ tries \in [Jobs -> 0 .. LocalRetries]
    /\ \A j \in Jobs : /\ exc[j] = {} \/ \E x \in exc[j] : exc[j] = {x}
                       /\ pc[j] = "guard" => exc[j] # {}
                       /\ declared[j] => heard[j] /\ pc[j] # "none"
                       /\ (pc[j] # "none" /\ heard[j]) => queued[j]
    /\ file \in [Jobs -> {"none", "foreign", "made"}]

\* A transient exception of the request stems from what the server answered in this
\* very try: a retry, local or by the queue, is not answered with the old failure out of
\* the snapshot store (SnapshotStore.cached, HttpExecutor.execute).  The store knows the
\* statuses that are transient by themselves and those it is told to ignore, but not the
\* policy: where HttpPolicy calls another status transient, and only there, the stored
\* answer does come again.
TransientIsFresh ==
    \A j \in Jobs : \A x \in exc[j] :
        pc[j] = "guard" /\ RaisedClass(x) \in {"RetryError", "RateLimitHit"} /\ ~ answer[j][2]
            => resp[j][1] < 500 /\ resp[j][1] \notin {408, 425, 429} \cup IgnoreStatuses

\* Retry-After of the answer in hand, the server's or the stored one.
Asked(j) == IF answer[j][2] THEN answer[j][1][2] ELSE resp[j][2]

\* When a rate limit reaches the worker entry, the worker has asked for the resource to
\* be suspended for as long as the server said, whichever of the nested guards could do
\* it and however the 429 came, except when it came as a library exception through a
\* guard without context, which loses the header (http_guard.__exit__).  The main process
\* then clamps what it is asked for.
ServerPaceKept ==
    \A j \in Jobs : \A x \in exc[j] :
        pc[j] = "report" /\ "RateLimitHit" \in x.cls
            => paced[j] >= IF muted[j] THEN DefaultTtl ELSE Ttl(Asked(j))

\* A rate limit that the worker could report never costs an attempt nor ends the job
\* (RateLimitHit's docstring; guard, worker entry, decoding and _apply_retry together).
RateLimitIsFree ==
    [][\A j \in Jobs :
          (attempt'[j] > attempt[j] \/ (queued[j] /\ ~ queued'[j]))
          /\ result[j].code = "none" /\ result[j].kind # "success"
             => ~ (answer[j][2] /\ ClassifyStatus(answer[j][1][1]) = "RateLimitHit")]_vars

\* The category a failure is archived under, which the console selects by, is that of
\* what ended the job, though deaths are attributed by one table of errorclass.py and
\* archived by another.
CategoryAgrees ==
    \A j \in Jobs : archive[j] = "failed" /\ ~ queued[j] => category[j] = cause[j]

\* The output of a job on record as a success, and not due to run again, is there
\* (verify_artifacts before the commit; a rerun removes it only while it is queued).
PublishedExists ==
    \A j \in Writers :
        archive[j] = "succeeded" /\ ~ queued[j] /\ ~ auth[j].success => file[j] = "made"

\* A declared cache is gone once its job is settled, unless a run ended under it.
CacheGone ==
    \A j \in Writers :
        /\ ~ queued[j] /\ archive[j] # "none" /\ IsCache(j)
        /\ ~ stranded[j]
        => file[j] # "made"

\* After a commit the output path is as the declaration says (verify_artifacts and
\* cleanup_artifacts come before it): a published output is there, and a cache is not.
OutputsKept == PublishedExists /\ CacheGone

\* What lay at the output path before is removed under delete_existing only: neither
\* the cleanup after a failure nor a retry may take it (record_artifact).
ForeignKept ==
    [][\A j \in Writers : file[j] = "foreign" /\ file'[j] # "foreign" => auth[j].existing]_vars

\* Once the server stops limiting, every queued job gets its record: local retries,
\* retries and reruns after crashes come to an end.
EveryJobSettled == \A j \in Jobs : queued[j] ~> ~ queued[j]
=============================================================================
