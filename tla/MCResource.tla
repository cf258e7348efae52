----------------------------- MODULE MCResource -----------------------------
(* Instances of Resource for TLC.                                           *)
EXTENDS Resource

\* a and b call the api and go together, c takes all the workers, any other job
\* asks for more than there are.
PoolCap == [r \in Capacities |-> 2]
PoolInterval == [r \in Rates |-> 1]
PoolNeeds == [j \in Job |-> CASE j \in {"a", "b"} -> [workers |-> 1, api |-> 1]
                              [] j = "c" -> [workers |-> 2]
                              [] OTHER -> [workers |-> 3]]
=============================================================================
