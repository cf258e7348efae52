------------------------------- MODULE Ledger -------------------------------
(***************************************************************************)
(* What the persistence contract of tasklite promises of a job: the        *)
(* AbstractStateBackend tables seen from outside.  A job is accepted once  *)
(* while it is pending; it stops being pending only in the transaction     *)
(* that records its success (and accepts the children it spawned), its     *)
(* failure, or its skip; nothing else moves it, so nothing is lost and     *)
(* nothing is executed that was not accepted.                              *)
(***************************************************************************)
EXTENDS Naturals

CONSTANT Jobs

VARIABLES
    pending,    \* the uids of the queue table
    succeeded,  \* the successes table
    failed      \* the failed table

ledger == <<pending, succeeded, failed>>

Init ==
    /\ pending = {}
    /\ succeeded \in SUBSET Jobs
    /\ failed \in SUBSET Jobs
    /\ succeeded \cap failed = {}

\* enqueue_jobs: a uid the queue already holds is skipped.
Accept(u) ==
    /\ u \notin pending
    /\ pending' = pending \cup {u}
    /\ UNCHANGED <<succeeded, failed>>

\* commit_job_success, with the children in the same transaction.
Succeed(u, kids) ==
    /\ u \in pending
    /\ kids \cap pending = {}
    /\ pending' = (pending \ {u}) \cup kids
    /\ succeeded' = succeeded \cup {u}
    /\ failed' = failed \ {u}

\* commit_job_failure and commit_job_failures.
Fail(us) ==
    /\ us \subseteq pending
    /\ pending' = pending \ us
    /\ succeeded' = succeeded \ us
    /\ failed' = failed \cup us

\* commit_skip.
Skip(u) ==
    /\ u \in pending
    /\ pending' = pending \ {u}
    /\ UNCHANGED <<succeeded, failed>>

Next ==
    \/ \E u \in Jobs :
          \/ Accept(u) \/ Skip(u)
          \/ \E kids \in SUBSET Jobs : Succeed(u, kids)
    \/ \E us \in SUBSET Jobs : Fail(us)

Spec == Init /\ [][Next]_ledger
=============================================================================
