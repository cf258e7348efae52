----------------------------- MODULE ErrorClass -----------------------------
(***************************************************************************)
(* The decision tables of errorclass.py: what the worker makes of an       *)
(* exception, what the main process makes of a worker's death, and the     *)
(* category under which a failure is archived.  An exception is the set of *)
(* classes it is an instance of, as far as the tables ask; an error text   *)
(* is the code it begins with.                                             *)
(***************************************************************************)
\* The classes isinstance is asked about: the framework's own, those the
\* user registered as transient, and the two heuristic tuples.
Classes == {"KeyboardInterrupt", "SystemExit", "ArtifactIOError", "RetryError",
            "RateLimitHit", "FatalError", "registered", "fatal_exceptions",
            "transient_exceptions"}

Categories == {"fatal", "transient_exhausted", "dependency", "deadlock", "no_handler",
               "validation", "commit_failure", "dispatch", "unknown"}

-----------------------------------------------------------------------------
(* Exceptions.                                                              *)

\* _classify_exception: the priority of the branches is the whole point, an
\* exception may be an instance of several of the classes.
ClassifyException(e) ==
    IF "KeyboardInterrupt" \in e THEN "interrupted"
    ELSE IF e \cap {"RetryError", "registered"} # {} THEN "retry"
    ELSE IF e \cap {"FatalError", "fatal_exceptions"} # {} THEN "fatal"
    ELSE IF "transient_exceptions" \in e THEN "retry"
    ELSE "error"

\* Faulty variant: a rate limit is reported like any other retry.
WorkerReportPlain(e) ==
    IF e \cap {"RetryError", "FatalError"} # {}
    THEN [status |-> ClassifyException(e), kind |-> "none"]
    ELSE IF "ArtifactIOError" \in e THEN [status |-> "artifact_error", kind |-> "none"]
    ELSE IF "SystemExit" \in e THEN [status |-> "error", kind |-> "none"]
    ELSE [status |-> ClassifyException(e), kind |-> "none"]

\* What the worker entry writes to the pipe when the handler raises e: the
\* except clauses in their order, then the classifier for any other Exception.
WorkerReport(e) ==
    IF "ArtifactIOError" \in e THEN [status |-> "artifact_error", kind |-> "none"]
    ELSE IF "RetryError" \in e
        THEN [status |-> "retry",
              kind |-> IF "RateLimitHit" \in e THEN "rate_limited" ELSE "none"]
    ELSE IF "FatalError" \in e THEN [status |-> "fatal", kind |-> "none"]
    ELSE IF "SystemExit" \in e THEN [status |-> "error", kind |-> "none"]
    ELSE [status |-> ClassifyException(e), kind |-> "none"]

-----------------------------------------------------------------------------
(* Error codes.                                                             *)

\* Faulty variant: the table has no row for the timeout text.
ClassifyCodeUntimed(code) ==
    CASE code = "JOB_DEPENDENCY" -> "dependency"
      [] code = "NO_HANDLER" -> "no_handler"
      [] code \in {"MAX_RETRIES_EXCEEDED", "PROCESS_CRASH_EXITCODE", "NO_IPC_RESULT"} -> "transient_exhausted"
      [] OTHER -> "unknown"

\* _classify_string: the category of a text that begins with a framework code.
ClassifyCode(code) ==
    CASE code \in {"DEPENDENCY_DEADLOCK", "RESOURCE_DEADLOCK", "MALFORMED_JOB",
                   "DEADLOCK_CLASSIFICATION_GAP"} -> "deadlock"
      [] code = "JOB_DEPENDENCY" -> "dependency"
      [] code = "NO_HANDLER" -> "no_handler"
      [] code = "PAYLOAD_VALIDATION_FAILED" -> "validation"
      [] code = "TIMEOUT" -> "fatal"
      [] code \in {"MAX_RETRIES_EXCEEDED", "PROCESS_CRASH_EXITCODE", "NO_IPC_RESULT",
                   "PROCESS_SIGNAL_DEATH", "IPC_RESULT_WRITE_DEGRADED"} -> "transient_exhausted"
      [] code = "COMMIT_FAILURE" -> "commit_failure"
      [] code = "DISPATCH_FAILURE" -> "dispatch"
      [] OTHER -> "unknown"

\* normalize_failure_metadata with _classify_dict, for the metadata of a worker's
\* failure: an error code and the is_fatal mark, with no category of its own.
FailureCategory(meta) == IF meta.fatal THEN "fatal" ELSE ClassifyCode(meta.code)


-----------------------------------------------------------------------------
(* classify_process_death: a worker that is gone without a result.          *)

Exits == {"signal", "crash", "silent"}   \* exit code < 0, > 0, None or 0

DeathCode(exit) ==
    IF exit = "silent" THEN "NO_IPC_RESULT" ELSE "PROCESS_CRASH_EXITCODE"

ClassifyDeath(exit, timedOut, timeoutTransient) ==
    IF timedOut
    THEN [retry |-> timeoutTransient,
          code |-> "TIMEOUT",
          category |-> IF timeoutTransient THEN "transient_exhausted" ELSE "fatal"]
    ELSE [retry |-> TRUE, code |-> DeathCode(exit), category |-> "transient_exhausted"]

=============================================================================
