-------------------------------- MODULE Http --------------------------------
(***************************************************************************)
(* The HTTP tools a handler uses: how a status or an exception is          *)
(* classified, what a guard does on its way out, and what a snapshot store *)
(* keeps.  Status codes are numbers.  A Retry-After header is a number of  *)
(* seconds, 0 standing for a header that is missing, unreadable, zero,     *)
(* negative or expired.                                                    *)
(***************************************************************************)
EXTENDS Integers, ErrorClass

CONSTANTS
    RateLimitStatuses,  \* HttpPolicy.rate_limit_statuses
    FatalStatuses,      \* HttpPolicy.fatal_statuses
    RetryStatuses,      \* HttpPolicy.retry_statuses
    StatusClassifier,   \* status_classifier, a function on the codes it decides
    IgnoreStatuses,     \* what cached() is told not to store
    DefaultTtl          \* default_suspend_ttl of every guard

ASSUME HttpAssumption ==
    /\ DefaultTtl \in Nat \ {0}
    /\ 0 \notin RateLimitStatuses \cup FatalStatuses \cup RetryStatuses \cup DOMAIN StatusClassifier
    /\ \A c \in DOMAIN StatusClassifier :
          StatusClassifier[c] \in {"RateLimitHit", "FatalError", "RetryError"}

-----------------------------------------------------------------------------
(* HttpPolicy.                                                              *)

ClassifyStatus(code) ==
    IF code \in DOMAIN StatusClassifier THEN StatusClassifier[code]
    ELSE IF code \in RateLimitStatuses THEN "RateLimitHit"
    ELSE IF code \in FatalStatuses THEN "FatalError"
    ELSE IF code \in RetryStatuses THEN "RetryError"
    ELSE IF code \in 200 .. 399 THEN "none"
    ELSE IF code \in 400 .. 499 THEN "FatalError"
    ELSE IF code >= 500 THEN "RetryError"
    ELSE "none"

\* Extracting Retry-After leaves the caller its default when there is no wait in it.
Ttl(header) == IF header # 0 THEN header ELSE DefaultTtl

-----------------------------------------------------------------------------
(* Exceptions under way: their classes, the status of the response they     *)
(* carry (0: none), and the marks the guards leave on the object.           *)

\* A library exception that carries a response, as raise_for_status() raises it.
StatusError(code, header) ==
    [cls |-> {}, code |-> code, header |-> header, after |-> 0, suspended |-> FALSE]

\* Time-outs, resets, DNS failures and the like.
TransportError ==
    [cls |-> {"transport"}, code |-> 0, header |-> 0, after |-> 0, suspended |-> FALSE]

\* An instance of one of the three framework classes, made by a guard.
Raised(class, after) ==
    [cls |-> IF class = "RateLimitHit" THEN {"RetryError", "RateLimitHit"} ELSE {class},
     code |-> 0, header |-> 0, after |-> after, suspended |-> FALSE]

\* classify_exception and _resolve_category: the framework's own class, else
\* the status it carries, else a transport fault.
RaisedClass(x) ==
    IF "RateLimitHit" \in x.cls THEN "RateLimitHit"
    ELSE IF "FatalError" \in x.cls THEN "FatalError"
    ELSE IF "RetryError" \in x.cls THEN "RetryError"
    ELSE IF x.code # 0 THEN ClassifyStatus(x.code)
    ELSE IF "transport" \in x.cls THEN "RetryError"
    ELSE "none"

-----------------------------------------------------------------------------
(* http_guard.                                                              *)

\* check_response: the exception it raises for a response, if any.
Checked(code, header) ==
    LET class == ClassifyStatus(code)
    IN  IF class = "none" THEN {}
        ELSE {Raised(class, IF class = "RateLimitHit" THEN Ttl(header) ELSE 0)}

\* _rate_limit_ttl.
RateLimitTtl(x) == IF x.after # 0 THEN x.after ELSE Ttl(x.header)

\* _emit_suspension: nothing twice for one exception object, nothing without a
\* context, a resource and a registered name ("full").
Suspends(full, x) == full /\ RaisedClass(x) = "RateLimitHit" /\ ~ x.suspended

\* Faulty variant: the mark is set although this guard could not suspend.
AfterGuardMarked(full, x) ==
    IF RaisedClass(x) = "none" THEN x
    ELSE IF RaisedClass(x) \in x.cls THEN [x EXCEPT !.suspended = RaisedClass(x) = "RateLimitHit"]
    ELSE Raised(RaisedClass(x), 0)

\* __exit__: an exception of the right class goes on as it is, marked when it was
\* suspended for; any other that the policy knows is replaced by a new one, which
\* carries neither the mark nor the server's Retry-After.
AfterGuard(full, x) ==
    IF RaisedClass(x) = "none" THEN x
    ELSE IF RaisedClass(x) \in x.cls THEN [x EXCEPT !.suspended = @ \/ Suspends(full, x)]
    ELSE Raised(RaisedClass(x), 0)

-----------------------------------------------------------------------------
(* SnapshotStore.cached.                                                    *)

\* Faulty variant: only what the caller asks to ignore is left out.
StorableOnRequest(code) == code \notin IgnoreStatuses

\* What may be stored: never a transient status, whatever the caller ignores.
Storable(code) ==
    /\ code \notin {408, 425, 429}
    /\ code < 500
    /\ code \notin IgnoreStatuses

=============================================================================
