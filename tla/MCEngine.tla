------------------------------ MODULE MCEngine ------------------------------
(* Instances of Engine for TLC. *)
EXTENDS Engine, TLC

CONSTANTS a, b, c

\* A chain: b waits for a, and a's handler may spawn b.
PairDeps == a :> {} @@ b :> {a}
PairSpawns == a :> {b} @@ b :> {}
PairOnce == a :> "once" @@ b :> "once"
PairMixed == a :> "always" @@ b :> "on_failure"

\* b and c wait for each other and b for a, whose handler may spawn both.
KnotDeps == a :> {} @@ b :> {a, c} @@ c :> {b}
KnotSpawns == a :> {b, c} @@ b :> {} @@ c :> {}
KnotTriggers == a :> "once" @@ b :> "on_failure" @@ c :> "custom"

Budget(enqueue, fault, kill, transient, halt, interrupt) ==
    "enqueue" :> enqueue @@ "fault" :> fault @@ "kill" :> kill
      @@ "transient" :> transient @@ "stop" :> halt @@ "interrupt" :> interrupt

FaultLimits == Budget(3, 3, 1, 1, 1, 0)
InterruptLimits == Budget(2, 1, 1, 0, 1, 2)
KnotLimits == Budget(2, 2, 1, 0, 1, 0)
=============================================================================
