------------------------------ MODULE MCWorker ------------------------------
(* A job that asks for a page others ask for too, and declares an output.    *)
EXTENDS Worker

CONSTANT a

NoClassifier == <<>>

\* A plain output, one that is cleaned up after failures, one that replaces what
\* was there, and a cache.
Declarations ==
    {[existing |-> FALSE, failure |-> FALSE, success |-> FALSE],
     [existing |-> FALSE, failure |-> TRUE, success |-> FALSE],
     [existing |-> TRUE, failure |-> FALSE, success |-> FALSE],
     [existing |-> TRUE, failure |-> TRUE, success |-> TRUE]}
=============================================================================
