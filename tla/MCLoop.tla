------------------------------- MODULE MCLoop -------------------------------
(***************************************************************************)
(* Loop with three jobs: no dependencies, chains along and against the     *)
(* queue, a fork, joins, a cycle with a job behind it, a ring.             *)
(***************************************************************************)
EXTENDS Loop

CONSTANTS a, b, c

MCOrder == <<a, b, c>>

Graph(da, db, dc) == [u \in {a, b, c} |-> IF u = a THEN da ELSE IF u = b THEN db ELSE dc]

MCShapes ==
    {Graph({}, {}, {}), Graph({}, {a}, {b}), Graph({b}, {c}, {}), Graph({}, {a}, {a}),
     Graph({}, {}, {a, b}), Graph({b, c}, {}, {}), Graph({b}, {a}, {b}), Graph({b}, {c}, {a})}
=============================================================================
