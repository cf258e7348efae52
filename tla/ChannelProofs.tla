--------------------------- MODULE ChannelProofs ----------------------------
(***************************************************************************)
(* Results count, signals arrive and no worker is left, for every set of   *)
(* executions and any number of signals.  The argument follows each        *)
(* execution through what a drain of its pipe would make of it (ErrorAfter,*)
(* ResultAfter, PendingAfter): drains do not change that, and the rest of  *)
(* the invariant says where the main thread is with it.                    *)
(***************************************************************************)
EXTENDS Channel, FiniteSetTheorems, TLAPS

Frame == {"suspend", "invalid", "result", "interrupted"}

Suspends(p) == {i \in DOMAIN p : p[i] = "suspend"}
Frames(p) == {p[i] : i \in DOMAIN p}

-----------------------------------------------------------------------------
(* The inductive invariant.                                                 *)

Typed ==
    /\ worker \in [Exec -> {"none", "alive", "dead"}]
    /\ pipe \in [Exec -> Seq(Frame)]
    /\ told \in [Exec -> {"nothing", "result", "interrupted"}]
    /\ results \in [Exec -> {"nothing", "result", "interrupted"}]
    /\ errors \in [Exec -> BOOLEAN] /\ overdue \in [Exec -> BOOLEAN]
    /\ signalled \in [Exec -> 0..MaxSignals] /\ pending \in [Exec -> Nat]
    /\ carried \in [Exec -> Nat] /\ applied \in [Exec -> Nat]
    /\ outcome \in [Exec -> Outcomes] /\ hit \in [Exec -> {"no", "own", "batch"}]
    /\ place \in [Exec -> {"free", "flying", "settled", "abandoned"}]
    /\ mode \in {"loop", "reaping", "collecting", "crashed", "probing", "draining", "down"}
    /\ todo \subseteq Exec
    /\ current = NoOne \/ current \in Exec \X {"ready", "overdue"}

FreeOK(h) ==
    /\ worker[h] = "none" /\ told[h] = "nothing" /\ signalled[h] = 0
    /\ ~ ErrorAfter(h) /\ ResultAfter(h) = "nothing" /\ PendingAfter(h) = 0
    /\ outcome[h] = "none" /\ carried[h] = 0 /\ applied[h] = 0

\* In flight: no signal is counted twice, and without an error none is lost.  As long
\* as there is no verdict, what the channel would find is what the worker told.
FlyingOK(h) ==
    /\ worker[h] # "none" /\ ResultAfter(h) \in {"nothing", told[h]}
    /\ applied[h] + carried[h] + PendingAfter(h) <= signalled[h]
    /\ outcome[h] = "none" => carried[h] = 0
    /\ outcome[h] # "none" => PendingAfter(h) = 0 /\ ~ Working(h)
    /\ hit[h] = "no" =>
         /\ applied[h] + carried[h] + PendingAfter(h) = signalled[h]
         /\ outcome[h] = "none" => ~ ErrorAfter(h) /\ ResultAfter(h) = told[h]
         /\ outcome[h] # "none" => SettledByResult(h)

SettledOK(h) ==
    /\ worker[h] = "dead" /\ PendingAfter(h) = 0
    /\ applied[h] <= signalled[h] /\ carried[h] <= signalled[h]
    /\ hit[h] = "no" => applied[h] = signalled[h] /\ SettledByResult(h)

\* Left in flight by a run that is over.
AbandonedOK(h) ==
    worker[h] = "dead" /\ applied[h] + carried[h] + PendingAfter(h) <= signalled[h]

ExecOK(h) ==
    /\ place[h] = "free" => FreeOK(h)
    /\ place[h] = "flying" => FlyingOK(h)
    /\ place[h] = "settled" => SettledOK(h)
    /\ place[h] = "abandoned" => AbandonedOK(h)

\* Where the main thread is: which executions have a verdict, and whose worker is gone.
ModeOK ==
    /\ todo \subseteq Flying
    /\ mode \in {"loop", "crashed", "down"} => \A h \in Flying : outcome[h] = "none"
    /\ mode \in {"reaping", "collecting"} =>
          /\ \A h \in todo : outcome[h] = "none"
          /\ \A h \in Flying : outcome[h] # "none" => worker[h] = "dead"
    /\ mode = "collecting" => current # NoOne /\ current[1] \in todo
    /\ mode = "probing" =>
          /\ \A h \in todo : outcome[h] = "none"
          /\ \A h \in Flying : outcome[h] \in {"none", "result"}
    /\ mode = "draining" =>
          /\ \A h \in Flying : worker[h] = "dead"
          /\ \A h \in todo : outcome[h] \in {"none", "result"}
          /\ \A h \in Flying \ todo : outcome[h] # "none"

ChannelInv == Typed /\ ModeOK /\ \A h \in Exec : ExecOK(h)

\* Nothing above depends on these two; they have their types.
NetTyped == open \subseteq Exec /\ net \in BOOLEAN

-----------------------------------------------------------------------------
(* Pipes.                                                                   *)

LEMMA EmptyPipe == Frames(<<>>) = {} /\ Cardinality(Suspends(<<>>)) = 0
<1>1. Frames(<<>>) = {} /\ Suspends(<<>>) = {}
  BY DEF Frames, Suspends
<1> QED BY <1>1, FS_EmptySet

LEMMA CountType ==
  ASSUME NEW p \in Seq(Frame)
  PROVE  IsFiniteSet(Suspends(p)) /\ Cardinality(Suspends(p)) \in Nat
<1>1. Suspends(p) \subseteq 1..Len(p) /\ Len(p) \in Nat
  BY DEF Suspends
<1>2. IsFiniteSet(1..Len(p))
  BY <1>1, FS_Interval
<1> QED BY <1>1, <1>2, FS_Subset, FS_CardinalityType

LEMMA SentFrame ==
  ASSUME NEW p \in Seq(Frame), NEW f \in Frame
  PROVE  /\ Append(p, f) \in Seq(Frame) /\ Frames(Append(p, f)) = Frames(p) \cup {f}
         /\ Cardinality(Suspends(Append(p, f))) =
               Cardinality(Suspends(p)) + (IF f = "suspend" THEN 1 ELSE 0)
<1> DEFINE q == Append(p, f)
           n == Len(p) + 1
<1>1. /\ q \in Seq(Frame) /\ DOMAIN q = DOMAIN p \cup {n} /\ n \notin DOMAIN p
      /\ q[n] = f /\ \A i \in DOMAIN p : q[i] = p[i]
  OBVIOUS
<1> HIDE DEF q, n
<1>2. Frames(q) = Frames(p) \cup {f}
  BY <1>1 DEF Frames
<1>3. CASE f = "suspend"
  <2>1. Suspends(q) = Suspends(p) \cup {n} /\ n \notin Suspends(p)
    BY <1>1, <1>3 DEF Suspends
  <2> QED BY <1>1, <1>2, <1>3, <2>1, CountType, FS_AddElement DEF q
<1>4. CASE f # "suspend"
  <2>1. Suspends(q) = Suspends(p)
    BY <1>1, <1>4 DEF Suspends
  <2> QED BY <1>1, <1>2, <1>4, <2>1, CountType DEF q
<1> QED BY <1>3, <1>4

\* The same in the names of the model.
LEMMA AfterDef ==
  ASSUME NEW h \in Exec
  PROVE  /\ Received(h) = Frames(pipe[h])
         /\ PendingAfter(h) = pending[h] + Cardinality(Suspends(pipe[h]))
  BY DEF Received, Frames, PendingAfter, Suspends

LEMMA AfterTypes ==
  ASSUME Typed, NEW h \in Exec
  PROVE  /\ ErrorAfter(h) \in BOOLEAN /\ PendingAfter(h) \in Nat
         /\ ResultAfter(h) \in {"nothing", "result", "interrupted"}
<1>1. PendingAfter(h) \in Nat
  BY AfterDef, CountType DEF Typed
<1>2. ErrorAfter(h) \in BOOLEAN
  BY DEF ErrorAfter, Typed
<1>3. ResultAfter(h) \in {"nothing", "result", "interrupted"}
  BY DEF ResultAfter, Typed
<1> QED BY <1>1, <1>2, <1>3

\* What the next state's drain would find, after the four things a step may do to the
\* pipe of an execution.
LEMMA AfterPrimed ==
  ASSUME NEW h \in Exec
  PROVE  /\ Received(h)' = Frames(pipe'[h])
         /\ PendingAfter(h)' = pending'[h] + Cardinality(Suspends(pipe'[h]))
  BY DEF Received, Frames, PendingAfter, Suspends

LEMMA AfterSame ==
  ASSUME NEW h \in Exec, pipe'[h] = pipe[h], errors'[h] = errors[h],
         results'[h] = results[h], pending'[h] = pending[h]
  PROVE  /\ ErrorAfter(h)' <=> ErrorAfter(h)
         /\ ResultAfter(h)' = ResultAfter(h) /\ PendingAfter(h)' = PendingAfter(h)
<1>1. Received(h)' = Received(h) /\ PendingAfter(h)' = PendingAfter(h)
  BY AfterDef, AfterPrimed
<1>2. ErrorAfter(h)' <=> ErrorAfter(h)
  BY <1>1 DEF ErrorAfter
<1>3. ResultAfter(h)' = ResultAfter(h)
  BY <1>1, <1>2 DEF ResultAfter
<1> QED BY <1>1, <1>2, <1>3

LEMMA AfterSent ==
  ASSUME Typed, NEW h \in Exec, NEW f \in Frame, pipe'[h] = Append(pipe[h], f),
         errors'[h] = errors[h], results'[h] = results[h], pending'[h] = pending[h]
  PROVE  /\ ErrorAfter(h)' <=> ErrorAfter(h) \/ f = "invalid"
         /\ f = "suspend" => ResultAfter(h)' = ResultAfter(h)
         /\ ~ ErrorAfter(h) /\ ResultAfter(h) = "nothing" /\ f \in {"result", "interrupted"} =>
               ResultAfter(h)' = f
         /\ ErrorAfter(h)' => ResultAfter(h)' = "nothing"
         /\ PendingAfter(h)' = PendingAfter(h) + (IF f = "suspend" THEN 1 ELSE 0)
<1>0. pipe[h] \in Seq(Frame)
  BY DEF Typed
<1>1. Received(h)' = Received(h) \cup {f}
  BY <1>0, AfterDef, AfterPrimed, SentFrame
<1>2. PendingAfter(h)' = PendingAfter(h) + (IF f = "suspend" THEN 1 ELSE 0)
  <2>1. Cardinality(Suspends(pipe[h])) \in Nat /\ pending[h] \in Nat
    BY CountType DEF Typed
  <2>2. Cardinality(Suspends(pipe'[h])) =
           Cardinality(Suspends(pipe[h])) + (IF f = "suspend" THEN 1 ELSE 0)
    BY <1>0, SentFrame
  <2>3. PendingAfter(h) = pending[h] + Cardinality(Suspends(pipe[h]))
    BY AfterDef
  <2>4. PendingAfter(h)' = pending[h] + Cardinality(Suspends(pipe'[h]))
    BY AfterPrimed
  <2> QED BY <2>1, <2>2, <2>3, <2>4
<1>3. ErrorAfter(h)' <=> ErrorAfter(h) \/ f = "invalid"
  BY <1>1 DEF ErrorAfter
<1>4. f = "suspend" => ResultAfter(h)' = ResultAfter(h)
  BY <1>1, <1>3 DEF ResultAfter
<1>5. ASSUME ~ ErrorAfter(h), ResultAfter(h) = "nothing", f \in {"result", "interrupted"}
      PROVE  ResultAfter(h)' = f
  <2>1. ~ ErrorAfter(h)'
    BY <1>3, <1>5
  <2>2. "result" \notin Received(h)
    BY <1>5 DEF ResultAfter
  <2> QED BY <1>1, <1>5, <2>1, <2>2 DEF ResultAfter
<1>6. ErrorAfter(h)' => ResultAfter(h)' = "nothing"
  BY DEF ResultAfter
<1> QED BY <1>2, <1>3, <1>4, <1>5, <1>6

LEMMA AfterDrained ==
  ASSUME Typed, NEW h \in Exec, pipe'[h] = <<>>, errors'[h] = ErrorAfter(h),
         results'[h] = ResultAfter(h), pending'[h] \in Nat
  PROVE  /\ ErrorAfter(h)' <=> ErrorAfter(h)
         /\ ResultAfter(h)' = ResultAfter(h) /\ PendingAfter(h)' = pending'[h]
<1>1. Received(h)' = {} /\ PendingAfter(h)' = pending'[h]
  BY AfterPrimed, EmptyPipe
<1>2. ErrorAfter(h)' <=> ErrorAfter(h)
  BY <1>1 DEF ErrorAfter
<1>3. ResultAfter(h)' = ResultAfter(h)
  <2>1. CASE ErrorAfter(h)
    BY <1>2, <2>1 DEF ResultAfter
  <2>2. CASE ~ ErrorAfter(h)
    <3>1. ResultAfter(h)' = results'[h]
      BY <1>1, <1>2, <2>2 DEF ResultAfter
    <3> QED BY <3>1
  <2> QED BY <2>1, <2>2
<1> QED BY <1>1, <1>2, <1>3

LEMMA AfterForgotten ==
  ASSUME NEW h \in Exec, pipe'[h] = <<>>, errors'[h] = FALSE,
         results'[h] = "nothing", pending'[h] = 0
  PROVE  ~ ErrorAfter(h)' /\ ResultAfter(h)' = "nothing" /\ PendingAfter(h)' = 0
<1>1. Received(h)' = {} /\ PendingAfter(h)' = 0
  BY AfterPrimed, EmptyPipe
<1>2. ~ ErrorAfter(h)'
  BY <1>1 DEF ErrorAfter
<1> QED BY <1>1, <1>2 DEF ResultAfter

-----------------------------------------------------------------------------
(* What the steps share.                                                    *)

\* A step that leaves alone an execution, its worker and its pipe.
LEMMA ExecKept ==
  ASSUME NEW h \in Exec, ExecOK(h),
         pipe'[h] = pipe[h], errors'[h] = errors[h], results'[h] = results[h],
         pending'[h] = pending[h], worker'[h] = worker[h], told'[h] = told[h],
         signalled'[h] = signalled[h], outcome'[h] = outcome[h], carried'[h] = carried[h],
         applied'[h] = applied[h], place'[h] = place[h], hit'[h] = hit[h]
  PROVE  ExecOK(h)'
<1>1. /\ ErrorAfter(h)' <=> ErrorAfter(h)
      /\ ResultAfter(h)' = ResultAfter(h) /\ PendingAfter(h)' = PendingAfter(h)
  BY AfterSame
<1> QED BY <1>1 DEF ExecOK, FreeOK, FlyingOK, SettledOK, AbandonedOK, Working, SettledByResult

LEMMA ChannelInit == Init => ChannelInv
<1> SUFFICES ASSUME Init PROVE ChannelInv
  OBVIOUS
<1> USE ChannelAssumption
<1>1. Typed
  <2>1. errors \in [Exec -> BOOLEAN] /\ overdue \in [Exec -> BOOLEAN]
    BY DEF Init
  <2>2. pipe \in [Exec -> Seq(Frame)]
    BY DEF Init
  <2>3. signalled \in [Exec -> 0..MaxSignals] /\ pending \in [Exec -> Nat]
        /\ carried \in [Exec -> Nat] /\ applied \in [Exec -> Nat]
    BY DEF Init
  <2> QED BY <2>1, <2>2, <2>3 DEF Init, Typed, Outcomes
<1>2. ModeOK
  BY DEF Init, ModeOK, Flying
<1>3. ASSUME NEW h \in Exec PROVE ExecOK(h)
  <2>1. Received(h) = {} /\ PendingAfter(h) = 0
    BY AfterDef, EmptyPipe DEF Init
  <2>2. ~ ErrorAfter(h)
    BY <2>1 DEF ErrorAfter, Init
  <2>3. ResultAfter(h) = "nothing"
    BY <2>1, <2>2 DEF ResultAfter, Init
  <2> QED BY <2>1, <2>2, <2>3 DEF ExecOK, FreeOK, Init
<1> QED BY <1>1, <1>2, <1>3 DEF ChannelInv

\* The place, the verdict and the mode stay, and no worker comes back to life.
LEMMA ModeKept ==
  ASSUME ModeOK, UNCHANGED <<place, outcome, mode, todo, current>>,
         \A h \in Exec : worker[h] = "dead" => worker'[h] = "dead"
  PROVE  ModeOK'
<1>1. Flying' = Flying /\ Flying \subseteq Exec
  BY DEF Flying
<1> QED BY <1>1 DEF ModeOK

-----------------------------------------------------------------------------
(* The workers and the clock.                                               *)

\* A worker that can send is in flight and has no verdict yet.
LEMMA WorkingFlies ==
  ASSUME ChannelInv, NEW h \in Exec, worker[h] = "alive"
  PROVE  place[h] = "flying" /\ FlyingOK(h) /\ (Working(h) => outcome[h] = "none")
  BY DEF ChannelInv, Typed, ExecOK, FreeOK, SettledOK, FlyingOK, AbandonedOK

LEMMA SendSuspendStep ==
  ASSUME ChannelInv, NEW h \in Exec, SendSuspend(h)
  PROVE  ChannelInv'
<1> USE DEF main
<1>1. /\ Working(h) /\ signalled[h] < MaxSignals
      /\ pipe' = [pipe EXCEPT ![h] = Append(@, "suspend")]
      /\ signalled' = [signalled EXCEPT ![h] = @ + 1]
      /\ UNCHANGED <<worker, told, overdue, hit, main>>
  BY DEF SendSuspend
<1>2. place[h] = "flying" /\ FlyingOK(h) /\ outcome[h] = "none"
  BY <1>1, WorkingFlies DEF Working
<1>3. "suspend" \in Frame /\ Typed
  BY DEF Frame, ChannelInv
<1>4. /\ pipe'[h] = Append(pipe[h], "suspend") /\ signalled'[h] = signalled[h] + 1
      /\ \A x \in Exec \ {h} : pipe'[x] = pipe[x] /\ signalled'[x] = signalled[x]
      /\ pipe' \in [Exec -> Seq(Frame)] /\ signalled' \in [Exec -> 0..MaxSignals]
  BY <1>1, <1>3, ChannelAssumption DEF Typed
<1>5. Typed'
  BY <1>1, <1>3, <1>4 DEF Typed
<1>6. ModeOK'
  BY <1>1, ModeKept DEF ChannelInv
<1>7. ExecOK(h)'
  <2>1. /\ ErrorAfter(h)' <=> ErrorAfter(h)
        /\ ResultAfter(h)' = ResultAfter(h) /\ PendingAfter(h)' = PendingAfter(h) + 1
    BY <1>1, <1>3, <1>4, AfterSent
  <2>2. /\ PendingAfter(h) \in Nat /\ applied[h] \in Nat /\ carried[h] \in Nat
        /\ signalled[h] \in Nat
    BY <1>3, AfterTypes, ChannelAssumption DEF Typed
  <2>3. /\ applied'[h] + carried'[h] + PendingAfter(h)' <= signalled'[h]
        /\ applied[h] + carried[h] + PendingAfter(h) = signalled[h] =>
              applied'[h] + carried'[h] + PendingAfter(h)' = signalled'[h]
    BY <1>1, <1>2, <1>4, <2>1, <2>2 DEF FlyingOK
  <2>4. FlyingOK(h)'
    BY <1>1, <1>2, <2>1, <2>3 DEF FlyingOK
  <2> QED BY <1>1, <1>2, <2>4 DEF ExecOK
<1>8. ASSUME NEW x \in Exec, x # h PROVE ExecOK(x)'
  BY <1>1, <1>4, <1>8, ExecKept DEF ChannelInv
<1> QED BY <1>5, <1>6, <1>7, <1>8 DEF ChannelInv

LEMMA SendInvalidStep ==
  ASSUME ChannelInv, NEW h \in Exec, SendInvalid(h)
  PROVE  ChannelInv'
<1> USE DEF main
<1>1. /\ Working(h)
      /\ pipe' = [pipe EXCEPT ![h] = Append(@, "invalid")]
      /\ hit' = [hit EXCEPT ![h] = "own"]
      /\ UNCHANGED <<worker, told, signalled, overdue, main>>
  BY DEF SendInvalid
<1>2. place[h] = "flying" /\ FlyingOK(h) /\ outcome[h] = "none"
  BY <1>1, WorkingFlies DEF Working
<1>3. "invalid" \in Frame /\ Typed
  BY DEF Frame, ChannelInv
<1>4. /\ pipe'[h] = Append(pipe[h], "invalid") /\ hit'[h] = "own"
      /\ \A x \in Exec \ {h} : pipe'[x] = pipe[x] /\ hit'[x] = hit[x]
      /\ pipe' \in [Exec -> Seq(Frame)] /\ hit' \in [Exec -> {"no", "own", "batch"}]
  BY <1>1, <1>3 DEF Typed
<1>5. Typed'
  BY <1>1, <1>3, <1>4 DEF Typed
<1>6. ModeOK'
  BY <1>1, ModeKept DEF ChannelInv
<1>7. ExecOK(h)'
  <2>1. PendingAfter(h)' = PendingAfter(h)
    <3>1. PendingAfter(h)' = PendingAfter(h) + 0 /\ PendingAfter(h) \in Nat
      BY <1>1, <1>3, <1>4, AfterSent, AfterTypes
    <3> QED BY <3>1
  <2>2. ResultAfter(h)' = "nothing"
    BY <1>1, <1>3, <1>4, AfterSent
  <2>3. FlyingOK(h)'
    BY <1>1, <1>2, <1>4, <2>1, <2>2 DEF FlyingOK
  <2> QED BY <1>1, <1>2, <2>3 DEF ExecOK
<1>8. ASSUME NEW x \in Exec, x # h PROVE ExecOK(x)'
  BY <1>1, <1>4, <1>8, ExecKept DEF ChannelInv
<1> QED BY <1>5, <1>6, <1>7, <1>8 DEF ChannelInv

LEMMA SendResultStep ==
  ASSUME ChannelInv, NEW h \in Exec, SendResult(h)
  PROVE  ChannelInv'
<1> USE DEF main
<1>1. PICK r \in {"result", "interrupted"} :
          /\ pipe' = [pipe EXCEPT ![h] = Append(@, r)]
          /\ told' = [told EXCEPT ![h] = r]
  BY DEF SendResult
<1>2. Working(h) /\ UNCHANGED <<worker, signalled, overdue, hit, main>>
  BY DEF SendResult
<1>3. place[h] = "flying" /\ FlyingOK(h) /\ outcome[h] = "none" /\ told[h] = "nothing"
  BY <1>2, WorkingFlies DEF Working
<1>4. r \in Frame /\ r # "suspend" /\ r # "invalid" /\ Typed
  BY DEF Frame, ChannelInv
<1>5. /\ pipe'[h] = Append(pipe[h], r) /\ told'[h] = r
      /\ \A x \in Exec \ {h} : pipe'[x] = pipe[x] /\ told'[x] = told[x]
      /\ pipe' \in [Exec -> Seq(Frame)]
      /\ told' \in [Exec -> {"nothing", "result", "interrupted"}]
  BY <1>1, <1>4 DEF Typed
<1>6. Typed'
  BY <1>2, <1>4, <1>5 DEF Typed
<1>7. ModeOK'
  BY <1>2, ModeKept DEF ChannelInv
<1>8. ExecOK(h)'
  <2>1. /\ ErrorAfter(h)' <=> ErrorAfter(h)
        /\ ~ ErrorAfter(h) /\ ResultAfter(h) = "nothing" => ResultAfter(h)' = r
        /\ ErrorAfter(h) => ResultAfter(h)' = "nothing"
        /\ PendingAfter(h)' = PendingAfter(h) + 0 /\ PendingAfter(h) \in Nat
    BY <1>2, <1>4, <1>5, AfterSent, AfterTypes
  <2>2. PendingAfter(h)' = PendingAfter(h)
    BY <2>1
  <2>3. FlyingOK(h)'
    BY <1>2, <1>3, <1>5, <2>1, <2>2 DEF FlyingOK
  <2> QED BY <1>2, <1>3, <2>3 DEF ExecOK
<1>9. ASSUME NEW x \in Exec, x # h PROVE ExecOK(x)'
  BY <1>2, <1>5, <1>9, ExecKept DEF ChannelInv
<1> QED BY <1>6, <1>7, <1>8, <1>9 DEF ChannelInv

LEMMA WorkerDiesStep ==
  ASSUME ChannelInv, NEW h \in Exec, WorkerDies(h)
  PROVE  ChannelInv'
<1> USE DEF main
<1>1. /\ worker[h] = "alive" /\ worker' = [worker EXCEPT ![h] = "dead"]
      /\ UNCHANGED <<pipe, told, signalled, overdue, hit, main>>
  BY DEF WorkerDies
<1>2. place[h] = "flying" /\ FlyingOK(h)
  BY <1>1, WorkingFlies
<1>3. /\ worker'[h] = "dead" /\ \A x \in Exec \ {h} : worker'[x] = worker[x]
      /\ worker' \in [Exec -> {"none", "alive", "dead"}]
  BY <1>1 DEF ChannelInv, Typed
<1>4. Typed'
  BY <1>1, <1>3 DEF ChannelInv, Typed
<1>5. ModeOK'
  BY <1>1, <1>3, ModeKept DEF ChannelInv
<1>6. ExecOK(h)'
  <2>1. /\ ErrorAfter(h)' <=> ErrorAfter(h)
        /\ ResultAfter(h)' = ResultAfter(h) /\ PendingAfter(h)' = PendingAfter(h)
    BY <1>1, AfterSame
  <2> QED BY <1>1, <1>2, <1>3, <2>1 DEF ExecOK, FlyingOK, Working, SettledByResult
<1>7. ASSUME NEW x \in Exec, x # h PROVE ExecOK(x)'
  BY <1>1, <1>3, <1>7, ExecKept DEF ChannelInv
<1> QED BY <1>4, <1>5, <1>6, <1>7 DEF ChannelInv

LEMMA TimePassesStep ==
  ASSUME ChannelInv, NEW h \in Exec, TimePasses(h)
  PROVE  ChannelInv'
<1> USE DEF main
<1>1. /\ overdue' = [overdue EXCEPT ![h] = TRUE]
      /\ UNCHANGED <<worker, pipe, told, signalled, hit, main>>
  BY DEF TimePasses
<1>2. overdue' \in [Exec -> BOOLEAN]
  BY <1>1 DEF ChannelInv, Typed
<1>3. Typed'
  BY <1>1, <1>2 DEF ChannelInv, Typed
<1>4. ModeOK'
  BY <1>1, ModeKept DEF ChannelInv
<1>5. ASSUME NEW x \in Exec PROVE ExecOK(x)'
  BY <1>1, ExecKept DEF ChannelInv
<1> QED BY <1>3, <1>4, <1>5 DEF ChannelInv

LEMMA SpawnStep ==
  ASSUME ChannelInv, NEW h \in Exec, Spawn(h)
  PROVE  ChannelInv'
<1>1. /\ mode = "loop" /\ place[h] = "free"
      /\ place' = [place EXCEPT ![h] = "flying"]
      /\ worker' = [worker EXCEPT ![h] = "alive"]
      /\ UNCHANGED <<pipe, told, signalled, overdue, hit, results, errors, pending, outcome,
                     carried, applied, mode, todo, current>>
  BY DEF Spawn
<1>2. FreeOK(h) /\ Typed
  BY <1>1 DEF ChannelInv, ExecOK
<1>3. /\ place'[h] = "flying" /\ worker'[h] = "alive"
      /\ \A x \in Exec \ {h} : place'[x] = place[x] /\ worker'[x] = worker[x]
      /\ place' \in [Exec -> {"free", "flying", "settled", "abandoned"}]
      /\ worker' \in [Exec -> {"none", "alive", "dead"}]
  BY <1>1, <1>2 DEF Typed
<1>4. Typed'
  BY <1>1, <1>2, <1>3 DEF Typed
<1>5. ModeOK'
  <2>1. Flying' = Flying \cup {h}
    BY <1>3 DEF Flying
  <2> QED BY <1>1, <1>2, <2>1 DEF ChannelInv, ModeOK, FreeOK
<1>6. ExecOK(h)'
  <2>1. /\ ErrorAfter(h)' <=> ErrorAfter(h)
        /\ ResultAfter(h)' = ResultAfter(h) /\ PendingAfter(h)' = PendingAfter(h)
    BY <1>1, AfterSame
  <2> QED BY <1>1, <1>2, <1>3, <2>1 DEF ExecOK, FreeOK, FlyingOK
<1>7. ASSUME NEW x \in Exec, x # h PROVE ExecOK(x)'
  BY <1>1, <1>3, <1>7, ExecKept DEF ChannelInv
<1> QED BY <1>4, <1>5, <1>6, <1>7 DEF ChannelInv

-----------------------------------------------------------------------------
(* The main loop.                                                           *)

LEMMA NumbersOf ==
  ASSUME Typed, NEW h \in Exec
  PROVE  /\ PendingAfter(h) \in Nat /\ applied[h] \in Nat /\ carried[h] \in Nat
         /\ signalled[h] \in Nat /\ pending[h] \in Nat
  BY AfterTypes, ChannelAssumption DEF Typed

\* A drain keeps the types of what it writes.
LEMMA ReceiveTypes ==
  ASSUME Typed, NEW hs \in SUBSET Exec, ReceiveAvailable(hs)
  PROVE  /\ pipe' \in [Exec -> Seq(Frame)] /\ errors' \in [Exec -> BOOLEAN]
         /\ results' \in [Exec -> {"nothing", "result", "interrupted"}]
         /\ \A h \in hs : /\ pipe'[h] = <<>> /\ errors'[h] = ErrorAfter(h)
                          /\ results'[h] = ResultAfter(h)
         /\ \A h \in Exec \ hs : /\ pipe'[h] = pipe[h] /\ errors'[h] = errors[h]
                                 /\ results'[h] = results[h]
<1>1. \A h \in Exec : ErrorAfter(h) \in BOOLEAN /\ errors[h] \in BOOLEAN
  BY AfterTypes DEF Typed
<1>2. errors' \in [Exec -> BOOLEAN]
  BY <1>1 DEF ReceiveAvailable
<1>3. pipe' \in [Exec -> Seq(Frame)]
  BY DEF ReceiveAvailable, Typed
<1>4. results' \in [Exec -> {"nothing", "result", "interrupted"}]
  BY AfterTypes DEF ReceiveAvailable, Typed
<1> QED BY <1>2, <1>3, <1>4 DEF ReceiveAvailable

\* apply_pending_signals, before any verdict: what was pending is applied.
LEMMA Applies ==
  ASSUME ChannelInv, mode \in {"loop", "crashed"}, ApplyPendingSignals,
         UNCHANGED <<worker, told, signalled, overdue, hit, outcome, carried, place, current>>,
         mode' \in {"loop", "reaping", "probing"}, todo' \in {todo, Flying},
         mode' = "loop" => todo' = todo
  PROVE  ChannelInv'
<1>1. /\ ReceiveAvailable(Flying)
      /\ applied' = [h \in Exec |-> applied[h] + IF h \in Flying THEN PendingAfter(h) ELSE 0]
      /\ pending' = [h \in Exec |-> IF h \in Flying THEN 0 ELSE pending[h]]
  BY DEF ApplyPendingSignals
<1>2. Typed /\ ModeOK /\ Flying \subseteq Exec /\ \A h \in Flying : outcome[h] = "none"
  BY DEF ChannelInv, ModeOK, Flying
<1>3. /\ pipe' \in [Exec -> Seq(Frame)] /\ errors' \in [Exec -> BOOLEAN]
      /\ results' \in [Exec -> {"nothing", "result", "interrupted"}]
      /\ \A h \in Flying : /\ pipe'[h] = <<>> /\ errors'[h] = ErrorAfter(h)
                           /\ results'[h] = ResultAfter(h)
      /\ \A h \in Exec \ Flying : /\ pipe'[h] = pipe[h] /\ errors'[h] = errors[h]
                                  /\ results'[h] = results[h]
  BY <1>1, <1>2, ReceiveTypes
<1>4. applied' \in [Exec -> Nat] /\ pending' \in [Exec -> Nat]
  <2>1. \A h \in Exec : PendingAfter(h) \in Nat /\ applied[h] \in Nat /\ pending[h] \in Nat
    BY <1>2, NumbersOf
  <2> QED BY <1>1, <2>1
<1>5. Typed'
  BY <1>2, <1>3, <1>4 DEF Typed
<1>6. ModeOK'
  <2>1. Flying' = Flying /\ todo' \subseteq Flying
    BY <1>2 DEF Flying, ModeOK
  <2> QED BY <1>2, <2>1 DEF ModeOK
<1>7. ASSUME NEW h \in Exec PROVE ExecOK(h)'
  <2>1. CASE h \notin Flying
    <3>1. applied'[h] = applied[h] /\ pending'[h] = pending[h]
      <4>1. applied[h] \in Nat
        BY <1>2, NumbersOf
      <4> QED BY <1>1, <2>1, <4>1
    <3> QED BY <1>3, <2>1, <3>1, ExecKept DEF ChannelInv
  <2>2. CASE h \in Flying
    <3>1. FlyingOK(h) /\ outcome[h] = "none" /\ place[h] = "flying"
      BY <1>2, <2>2 DEF ChannelInv, ExecOK, Flying
    <3>2. applied'[h] = applied[h] + PendingAfter(h) /\ pending'[h] = 0
      BY <1>1, <2>2
    <3>3. /\ ErrorAfter(h)' <=> ErrorAfter(h)
          /\ ResultAfter(h)' = ResultAfter(h) /\ PendingAfter(h)' = 0
      BY <1>2, <1>3, <2>2, <3>2, AfterDrained
    <3>4. applied'[h] + carried'[h] + PendingAfter(h)' = applied[h] + carried[h] + PendingAfter(h)
      BY <1>2, <3>2, <3>3, NumbersOf
    <3>5. FlyingOK(h)'
      BY <3>1, <3>3, <3>4 DEF FlyingOK
    <3> QED BY <3>1, <3>5 DEF ExecOK
  <2> QED BY <2>1, <2>2
<1> QED BY <1>5, <1>6, <1>7 DEF ChannelInv

LEMMA ReapStep ==
  ASSUME ChannelInv, NEW h \in Exec, Reap(h)
  PROVE  ChannelInv'
<1>1. /\ mode = "reaping" /\ h \in todo /\ ReceiveAvailable({h})
      /\ pending' = [pending EXCEPT ![h] = PendingAfter(h)]
      /\ UNCHANGED <<worker, told, signalled, overdue, hit, outcome, carried, applied, place>>
  BY DEF Reap
<1>2. \/ mode' = "collecting" /\ UNCHANGED todo /\ current' \in Exec \X {"ready", "overdue"}
         /\ current' # NoOne /\ current'[1] = h
      \/ mode' = "reaping" /\ todo' = todo \ {h} /\ UNCHANGED current
  BY <1>1 DEF Reap, NoOne
<1>3. Typed /\ ModeOK
  BY DEF ChannelInv
<1>4. /\ pipe' \in [Exec -> Seq(Frame)] /\ errors' \in [Exec -> BOOLEAN]
      /\ results' \in [Exec -> {"nothing", "result", "interrupted"}]
      /\ pipe'[h] = <<>> /\ errors'[h] = ErrorAfter(h) /\ results'[h] = ResultAfter(h)
      /\ \A x \in Exec \ {h} : /\ pipe'[x] = pipe[x] /\ errors'[x] = errors[x]
                               /\ results'[x] = results[x]
  BY <1>1, <1>3, ReceiveTypes
<1>5. /\ pending' \in [Exec -> Nat] /\ pending'[h] = PendingAfter(h) /\ PendingAfter(h) \in Nat
      /\ \A x \in Exec \ {h} : pending'[x] = pending[x]
  BY <1>1, <1>3, NumbersOf DEF Typed
<1>6. Typed'
  BY <1>1, <1>2, <1>3, <1>4, <1>5 DEF Typed
<1>7. ModeOK'
  <2>1. Flying' = Flying
    BY <1>1 DEF Flying
  <2> QED BY <1>1, <1>2, <1>3, <2>1 DEF ModeOK
<1>8. ExecOK(h)'
  <2>1. /\ ErrorAfter(h)' <=> ErrorAfter(h)
        /\ ResultAfter(h)' = ResultAfter(h) /\ PendingAfter(h)' = PendingAfter(h)
    BY <1>3, <1>4, <1>5, AfterDrained
  <2> QED BY <1>1, <2>1
    DEF ChannelInv, ExecOK, FreeOK, FlyingOK, SettledOK, AbandonedOK, Working, SettledByResult
<1>9. ASSUME NEW x \in Exec, x # h PROVE ExecOK(x)'
  BY <1>1, <1>4, <1>5, <1>9, ExecKept DEF ChannelInv
<1> QED BY <1>6, <1>7, <1>8, <1>9 DEF ChannelInv

\* The channel forgets an execution and kills its worker.
LEMMA ForgetTypes ==
  ASSUME Typed, NEW h \in Exec, Forget(h)
  PROVE  /\ pipe' \in [Exec -> Seq(Frame)] /\ errors' \in [Exec -> BOOLEAN]
         /\ results' \in [Exec -> {"nothing", "result", "interrupted"}]
         /\ pending' \in [Exec -> Nat]
         /\ ~ ErrorAfter(h)' /\ ResultAfter(h)' = "nothing" /\ PendingAfter(h)' = 0
         /\ \A x \in Exec \ {h} : /\ pipe'[x] = pipe[x] /\ errors'[x] = errors[x]
                                  /\ results'[x] = results[x] /\ pending'[x] = pending[x]
<1>1. errors' \in [Exec -> BOOLEAN] /\ errors'[h] = FALSE
  BY DEF Forget, Typed
<1>2. /\ pipe' \in [Exec -> Seq(Frame)] /\ pending' \in [Exec -> Nat]
      /\ results' \in [Exec -> {"nothing", "result", "interrupted"}]
      /\ pipe'[h] = <<>> /\ results'[h] = "nothing" /\ pending'[h] = 0
  BY DEF Forget, Typed
<1>3. ~ ErrorAfter(h)' /\ ResultAfter(h)' = "nothing" /\ PendingAfter(h)' = 0
  BY <1>1, <1>2, AfterForgotten
<1> QED BY <1>1, <1>2, <1>3 DEF Forget, Typed

LEMMA KilledTypes ==
  ASSUME Typed, NEW hs \in SUBSET Exec, Killed(hs)
  PROVE  /\ worker' \in [Exec -> {"none", "alive", "dead"}]
         /\ \A h \in hs : worker'[h] = "dead"
         /\ \A h \in Exec \ hs : worker'[h] = worker[h]
         /\ \A h \in Exec : worker[h] = "dead" => worker'[h] = "dead"
  BY DEF Typed, Killed

\* The handle being collected is in flight and has no verdict.
LEMMA Collecting ==
  ASSUME ChannelInv, NEW h \in Exec, mode = "collecting", current[1] = h
  PROVE  h \in todo /\ place[h] = "flying" /\ outcome[h] = "none" /\ FlyingOK(h)
<1>1. h \in todo /\ todo \subseteq Flying /\ outcome[h] = "none"
  BY DEF ChannelInv, ModeOK
<1> QED BY <1>1 DEF ChannelInv, ExecOK, Flying

LEMMA CollectStep ==
  ASSUME ChannelInv, NEW h \in Exec, Collect(h)
  PROVE  ChannelInv'
<1>1. /\ mode = "collecting" /\ current[1] = h
      /\ outcome' = [outcome EXCEPT ![h] = Verdict(h)]
      /\ carried' = [carried EXCEPT ![h] = PendingAfter(h)]
      /\ Killed({h}) /\ Forget(h)
      /\ mode' = "reaping" /\ todo' = todo \ {h} /\ current' = NoOne
      /\ UNCHANGED <<told, signalled, overdue, hit, applied, place>>
  BY DEF Collect
<1>2. Typed /\ ModeOK /\ h \in todo /\ place[h] = "flying" /\ outcome[h] = "none" /\ FlyingOK(h)
  BY <1>1, Collecting DEF ChannelInv
<1>3. /\ pipe' \in [Exec -> Seq(Frame)] /\ errors' \in [Exec -> BOOLEAN]
      /\ results' \in [Exec -> {"nothing", "result", "interrupted"}]
      /\ pending' \in [Exec -> Nat] /\ PendingAfter(h)' = 0 /\ ResultAfter(h)' = "nothing"
      /\ \A x \in Exec \ {h} : /\ pipe'[x] = pipe[x] /\ errors'[x] = errors[x]
                               /\ results'[x] = results[x] /\ pending'[x] = pending[x]
  BY <1>1, <1>2, ForgetTypes
<1>4. /\ worker' \in [Exec -> {"none", "alive", "dead"}] /\ worker'[h] = "dead"
      /\ \A x \in Exec \ {h} : worker'[x] = worker[x]
  BY <1>1, <1>2, KilledTypes
<1>5. /\ Verdict(h) \in Outcomes \ {"none"}
      /\ Verdict(h) = "result" <=> ResultAfter(h) = "result"
  BY <1>2, AfterTypes DEF Verdict, Outcomes
<1>6. /\ outcome' \in [Exec -> Outcomes] /\ outcome'[h] = Verdict(h)
      /\ carried' \in [Exec -> Nat] /\ carried'[h] = PendingAfter(h)
      /\ \A x \in Exec \ {h} : outcome'[x] = outcome[x] /\ carried'[x] = carried[x]
  BY <1>1, <1>2, <1>5, NumbersOf DEF Typed
<1>7. Typed'
  BY <1>1, <1>2, <1>3, <1>4, <1>6 DEF Typed
<1>8. ModeOK'
  <2>1. Flying' = Flying /\ Flying \subseteq Exec
    BY <1>1 DEF Flying
  <2> QED BY <1>1, <1>2, <1>4, <1>6, <2>1 DEF ModeOK
<1>9. ExecOK(h)'
  <2>1. applied'[h] + carried'[h] + PendingAfter(h)' = applied[h] + carried[h] + PendingAfter(h)
    BY <1>1, <1>2, <1>3, <1>6, NumbersOf DEF FlyingOK
  <2>2. outcome'[h] # "none" /\ ~ Working(h)'
    BY <1>4, <1>5, <1>6 DEF Working
  <2>3. hit[h] = "no" => SettledByResult(h)'
    BY <1>1, <1>2, <1>5, <1>6 DEF FlyingOK, SettledByResult
  <2>4. FlyingOK(h)'
    BY <1>1, <1>2, <1>3, <1>4, <2>1, <2>2, <2>3 DEF FlyingOK
  <2> QED BY <1>1, <1>2, <2>4 DEF ExecOK
<1>10. ASSUME NEW x \in Exec, x # h PROVE ExecOK(x)'
  BY <1>1, <1>3, <1>4, <1>6, <1>10, ExecKept DEF ChannelInv
<1> QED BY <1>7, <1>8, <1>9, <1>10 DEF ChannelInv

\* A lost list of outcomes: the execution whose pipe raised, and the others.
LEMMA OutcomeLostOwn ==
  ASSUME Typed, NEW h \in Exec, h \in Flying, FlyingOK(h), LoseOutcomes(h),
         worker'[h] = "dead", PendingAfter(h)' = 0, ResultAfter(h)' \in {"nothing", told[h]},
         UNCHANGED <<told, signalled, applied>>
  PROVE  FlyingOK(h)'
<1>1. outcome'[h] = "none" /\ carried'[h] = 0 /\ hit'[h] = "own"
  BY DEF LoseOutcomes
<1>2. applied'[h] + carried'[h] + PendingAfter(h)' <= signalled'[h]
  BY <1>1, NumbersOf DEF FlyingOK
<1> QED BY <1>1, <1>2 DEF FlyingOK

LEMMA OutcomeLost ==
  ASSUME Typed, NEW h \in Exec, NEW x \in Exec, x # h, x \in Flying, FlyingOK(x),
         LoseOutcomes(h), worker'[x] = worker[x], UNCHANGED <<told, signalled, applied>>,
         pipe'[x] = pipe[x], errors'[x] = errors[x], results'[x] = results[x],
         pending'[x] = pending[x]
  PROVE  FlyingOK(x)'
<1>1. /\ ErrorAfter(x)' <=> ErrorAfter(x)
      /\ ResultAfter(x)' = ResultAfter(x) /\ PendingAfter(x)' = PendingAfter(x)
  BY AfterSame
<1>2. outcome'[x] = "none" /\ carried'[x] = 0
  BY DEF LoseOutcomes
<1>3. applied'[x] + carried'[x] + PendingAfter(x)' <= signalled'[x]
  BY <1>1, <1>2, NumbersOf DEF FlyingOK
<1>4. ASSUME hit'[x] = "no"
      PROVE  /\ applied'[x] + carried'[x] + PendingAfter(x)' = signalled'[x]
             /\ ~ ErrorAfter(x)' /\ ResultAfter(x)' = told'[x]
  <2>1. hit[x] = "no" /\ outcome[x] = "none"
    BY <1>4 DEF LoseOutcomes
  <2> QED BY <1>1, <1>2, <2>1 DEF FlyingOK
<1> QED BY <1>1, <1>2, <1>3, <1>4 DEF FlyingOK

LEMMA LoseTypes ==
  ASSUME Typed, NEW h \in Exec, LoseOutcomes(h)
  PROVE  /\ outcome' \in [Exec -> Outcomes] /\ carried' \in [Exec -> Nat]
         /\ hit' \in [Exec -> {"no", "own", "batch"}]
         /\ \A x \in Flying : outcome'[x] = "none"
         /\ \A x \in Exec \ Flying : /\ outcome'[x] = outcome[x] /\ carried'[x] = carried[x]
                                     /\ x # h => hit'[x] = hit[x]
  BY DEF LoseOutcomes, Typed, Outcomes, Flying

LEMMA CollectRaisesStep ==
  ASSUME ChannelInv, NEW h \in Exec, CollectRaises(h)
  PROVE  ChannelInv'
<1>1. /\ mode = "collecting" /\ current[1] = h
      /\ LoseOutcomes(h) /\ Killed({h}) /\ Forget(h)
      /\ mode' = "crashed" /\ todo' = {} /\ current' = NoOne
      /\ UNCHANGED <<told, signalled, overdue, applied, place>>
  BY DEF CollectRaises
<1>2. Typed /\ ModeOK /\ h \in todo /\ place[h] = "flying" /\ outcome[h] = "none" /\ FlyingOK(h)
  BY <1>1, Collecting DEF ChannelInv
<1>3. /\ pipe' \in [Exec -> Seq(Frame)] /\ errors' \in [Exec -> BOOLEAN]
      /\ results' \in [Exec -> {"nothing", "result", "interrupted"}]
      /\ pending' \in [Exec -> Nat] /\ PendingAfter(h)' = 0 /\ ResultAfter(h)' = "nothing"
      /\ \A x \in Exec \ {h} : /\ pipe'[x] = pipe[x] /\ errors'[x] = errors[x]
                               /\ results'[x] = results[x] /\ pending'[x] = pending[x]
  BY <1>1, <1>2, ForgetTypes
<1>4. /\ worker' \in [Exec -> {"none", "alive", "dead"}] /\ worker'[h] = "dead"
      /\ \A x \in Exec \ {h} : worker'[x] = worker[x]
  BY <1>1, <1>2, KilledTypes
<1>5. /\ outcome' \in [Exec -> Outcomes] /\ carried' \in [Exec -> Nat]
      /\ hit' \in [Exec -> {"no", "own", "batch"}]
      /\ \A x \in Flying : outcome'[x] = "none"
      /\ \A x \in Exec \ Flying : /\ outcome'[x] = outcome[x] /\ carried'[x] = carried[x]
                                  /\ x # h => hit'[x] = hit[x]
  BY <1>1, <1>2, LoseTypes
<1>6. Typed'
  BY <1>1, <1>2, <1>3, <1>4, <1>5 DEF Typed
<1>7. ModeOK'
  <2>1. Flying' = Flying /\ Flying \subseteq Exec
    BY <1>1 DEF Flying
  <2> QED BY <1>1, <1>5, <2>1 DEF ModeOK
<1>8. ExecOK(h)'
  <2>1. FlyingOK(h)'
    BY <1>1, <1>2, <1>3, <1>4, OutcomeLostOwn DEF Flying
  <2> QED BY <1>1, <1>2, <2>1 DEF ExecOK
<1>9. ASSUME NEW x \in Exec, x # h PROVE ExecOK(x)'
  <2>1. CASE x \notin Flying
    BY <1>1, <1>3, <1>4, <1>5, <1>9, <2>1, ExecKept DEF ChannelInv
  <2>2. CASE x \in Flying
    <3>1. FlyingOK(x) /\ place[x] = "flying"
      BY <2>2 DEF ChannelInv, ExecOK, Flying
    <3>2. FlyingOK(x)'
      BY <1>1, <1>2, <1>3, <1>4, <1>9, <2>2, <3>1, OutcomeLost
    <3> QED BY <1>1, <3>1, <3>2 DEF ExecOK
  <2> QED BY <2>1, <2>2
<1> QED BY <1>6, <1>7, <1>8, <1>9 DEF ChannelInv

\* Executions with a verdict and a dead worker are settled.
LEMMA Settles ==
  ASSUME ChannelInv, NEW batch \in SUBSET Flying,
         \A h \in batch : outcome[h] # "none" /\ worker[h] = "dead",
         place' = [h \in Exec |-> IF h \in batch THEN "settled" ELSE place[h]],
         applied' = [h \in Exec |-> applied[h] + IF h \in batch THEN carried[h] ELSE 0],
         UNCHANGED <<worker, pipe, told, signalled, overdue, hit, results, errors, pending,
                     outcome, carried, current>>,
         mode' \in {"loop", "crashed", "down"}, todo' = {},
         \A h \in Flying \ batch : outcome[h] = "none"
  PROVE  ChannelInv'
<1>1. Typed /\ Flying \subseteq Exec
  BY DEF ChannelInv, Flying
<1>2. applied' \in [Exec -> Nat] /\ place' \in [Exec -> {"free", "flying", "settled", "abandoned"}]
  <2>1. \A h \in Exec : applied[h] \in Nat /\ carried[h] \in Nat
    BY <1>1, NumbersOf
  <2> QED BY <1>1, <2>1 DEF Typed
<1>3. Typed'
  BY <1>1, <1>2 DEF Typed
<1>4. ModeOK'
  <2>1. Flying' = Flying \ batch
    BY <1>1 DEF Flying
  <2> QED BY <2>1 DEF ModeOK
<1>5. ASSUME NEW h \in Exec PROVE ExecOK(h)'
  <2>1. CASE h \notin batch
    <3>1. applied'[h] = applied[h] /\ place'[h] = place[h]
      <4>1. applied[h] \in Nat
        BY <1>1, NumbersOf
      <4> QED BY <2>1, <4>1
    <3> QED BY <3>1, ExecKept DEF ChannelInv
  <2>2. CASE h \in batch
    <3>1. FlyingOK(h) /\ outcome[h] # "none" /\ worker[h] = "dead"
      BY <1>1, <2>2 DEF ChannelInv, ExecOK, Flying
    <3>2. applied'[h] = applied[h] + carried[h] /\ place'[h] = "settled"
      BY <2>2
    <3>3. PendingAfter(h)' = PendingAfter(h)
      BY AfterSame
    <3>4. PendingAfter(h)' = 0 /\ applied'[h] <= signalled'[h] /\ carried'[h] <= signalled'[h]
      BY <1>1, <3>1, <3>2, <3>3, NumbersOf DEF FlyingOK
    <3>5. hit[h] = "no" => applied'[h] = signalled'[h] /\ SettledByResult(h)'
      BY <1>1, <3>1, <3>2, NumbersOf DEF FlyingOK, SettledByResult
    <3> QED BY <3>1, <3>2, <3>4, <3>5 DEF ExecOK, SettledOK
  <2> QED BY <2>1, <2>2
<1> QED BY <1>3, <1>4, <1>5 DEF ChannelInv

LEMMA SettleReapedStep ==
  ASSUME ChannelInv, SettleReaped
  PROVE  ChannelInv'
<1> DEFINE batch == {h \in Flying : outcome[h] # "none"}
<1>1. /\ mode = "reaping" /\ todo = {} /\ mode' \in {"loop", "crashed"}
      /\ place' = [h \in Exec |-> IF h \in batch THEN "settled" ELSE place[h]]
      /\ applied' = [h \in Exec |-> applied[h] + IF h \in batch THEN carried[h] ELSE 0]
      /\ UNCHANGED <<worker, pipe, told, signalled, overdue, hit, results, errors, pending,
                     outcome, carried, todo, current>>
  BY DEF SettleReaped
<1>2. /\ \A h \in batch : outcome[h] # "none" /\ worker[h] = "dead"
      /\ \A h \in Flying \ batch : outcome[h] = "none"
      /\ batch \in SUBSET Flying
  BY <1>1 DEF ChannelInv, ModeOK
<1> HIDE DEF batch
<1> QED BY <1>1, <1>2, Settles

-----------------------------------------------------------------------------
(* The abort.                                                               *)

LEMMA ProbeStep ==
  ASSUME ChannelInv, NEW h \in Exec, Probe(h)
  PROVE  ChannelInv'
<1>1. /\ mode = "probing" /\ h \in todo /\ todo' = todo \ {h}
      /\ pipe' = [pipe EXCEPT ![h] = <<>>]
      /\ errors' = [errors EXCEPT ![h] = ErrorAfter(h)]
      /\ UNCHANGED <<worker, told, signalled, overdue, hit, applied, place, mode, current>>
  BY DEF Probe
<1>2. Typed /\ ModeOK /\ outcome[h] = "none" /\ place[h] = "flying" /\ FlyingOK(h)
  BY <1>1 DEF ChannelInv, ModeOK, ExecOK, Flying
<1>3. /\ ErrorAfter(h) \in BOOLEAN /\ ResultAfter(h) \in {"nothing", "result", "interrupted"}
      /\ PendingAfter(h) \in Nat
  BY <1>2, AfterTypes
<1>4. /\ pipe' \in [Exec -> Seq(Frame)] /\ pipe'[h] = <<>>
      /\ \A x \in Exec \ {h} : pipe'[x] = pipe[x] /\ errors'[x] = errors[x]
  BY <1>1, <1>2 DEF Typed
<1>5. errors' \in [Exec -> BOOLEAN] /\ errors'[h] = ErrorAfter(h)
  BY <1>1, <1>2, <1>3 DEF Typed
<1>6. /\ results' \in [Exec -> {"nothing", "result", "interrupted"}]
      /\ pending' \in [Exec -> Nat] /\ carried' \in [Exec -> Nat] /\ outcome' \in [Exec -> Outcomes]
      /\ \A x \in Exec \ {h} : /\ results'[x] = results[x] /\ pending'[x] = pending[x]
                               /\ carried'[x] = carried[x] /\ outcome'[x] = outcome[x]
      /\ Done(h) => /\ outcome'[h] = "result" /\ carried'[h] = PendingAfter(h)
                    /\ results'[h] = "nothing" /\ pending'[h] = 0
      /\ ~ Done(h) => /\ outcome'[h] = "none" /\ carried'[h] = carried[h]
                      /\ results'[h] = ResultAfter(h) /\ pending'[h] = PendingAfter(h)
  <2>1. CASE Done(h)
    <3>1. /\ outcome' = [outcome EXCEPT ![h] = "result"]
          /\ carried' = [carried EXCEPT ![h] = PendingAfter(h)]
          /\ results' = [results EXCEPT ![h] = "nothing"]
          /\ pending' = [pending EXCEPT ![h] = 0]
      BY <2>1 DEF Probe
    <3> QED BY <1>2, <1>3, <2>1, <3>1 DEF Typed, Outcomes
  <2>2. CASE ~ Done(h)
    <3>1. /\ results' = [results EXCEPT ![h] = ResultAfter(h)]
          /\ pending' = [pending EXCEPT ![h] = PendingAfter(h)]
          /\ UNCHANGED <<outcome, carried>>
      BY <2>2 DEF Probe
    <3> QED BY <1>2, <1>3, <2>2, <3>1 DEF Typed
  <2> QED BY <2>1, <2>2
<1>7. Typed'
  BY <1>1, <1>2, <1>4, <1>5, <1>6 DEF Typed
<1>8. ModeOK'
  <2>1. Flying' = Flying /\ Flying \subseteq Exec
    BY <1>1 DEF Flying
  <2> QED BY <1>1, <1>2, <1>6, <2>1 DEF ModeOK
<1>9. ExecOK(h)'
  <2>1. CASE Done(h)
    <3>1. PendingAfter(h)' = 0
      <4>1. PendingAfter(h)' = pending'[h] + 0
        BY <1>4, AfterPrimed, EmptyPipe
      <4> QED BY <1>6, <2>1, <4>1
    <3>2. applied'[h] + carried'[h] + PendingAfter(h)' = applied[h] + carried[h] + PendingAfter(h)
      BY <1>1, <1>2, <1>6, <2>1, <3>1, NumbersOf DEF FlyingOK
    <3>3. ASSUME hit[h] = "no" PROVE SettledByResult(h)'
      BY <1>1, <1>2, <1>6, <2>1, <3>3 DEF FlyingOK, SettledByResult, Done
    <3>4. outcome'[h] # "none" /\ outcome'[h] = "result"
      BY <1>6, <2>1
    <3>5. ~ Working(h)'
      BY <1>1, <1>2, <2>1 DEF FlyingOK, Done, Working
    <3>6. ResultAfter(h)' = "nothing"
      <4>1. Received(h)' = {}
        BY <1>4, AfterPrimed, EmptyPipe
      <4> QED BY <1>6, <2>1, <4>1 DEF ResultAfter
    <3>7. FlyingOK(h)'
      BY <1>1, <1>2, <3>1, <3>2, <3>3, <3>4, <3>5, <3>6 DEF FlyingOK
    <3> QED BY <1>1, <1>2, <3>7 DEF ExecOK
  <2>2. CASE ~ Done(h)
    <3>1. /\ ErrorAfter(h)' <=> ErrorAfter(h)
          /\ ResultAfter(h)' = ResultAfter(h) /\ PendingAfter(h)' = PendingAfter(h)
      BY <1>2, <1>3, <1>4, <1>5, <1>6, <2>2, AfterDrained
    <3>2. FlyingOK(h)'
      BY <1>1, <1>2, <1>6, <2>2, <3>1 DEF FlyingOK
    <3> QED BY <1>1, <1>2, <3>2 DEF ExecOK
  <2> QED BY <2>1, <2>2
<1>10. ASSUME NEW x \in Exec, x # h PROVE ExecOK(x)'
  BY <1>1, <1>4, <1>6, <1>10, ExecKept DEF ChannelInv
<1> QED BY <1>7, <1>8, <1>9, <1>10 DEF ChannelInv

LEMMA FinalizeStep ==
  ASSUME ChannelInv, FinalizeProcesses
  PROVE  ChannelInv'
<1>1. /\ mode = "probing" /\ todo = {} /\ Killed(Flying) /\ mode' = "draining" /\ todo' = Flying
      /\ UNCHANGED <<pipe, told, signalled, overdue, hit, results, errors, pending, outcome,
                     carried, applied, place, current>>
  BY DEF FinalizeProcesses
<1>2. Typed /\ ModeOK /\ Flying \in SUBSET Exec /\ Flying' = Flying
  BY <1>1 DEF ChannelInv, Flying
<1>3. /\ worker' \in [Exec -> {"none", "alive", "dead"}]
      /\ \A h \in Flying : worker'[h] = "dead"
      /\ \A h \in Exec \ Flying : worker'[h] = worker[h]
  BY <1>1, <1>2, KilledTypes
<1>4. Typed'
  BY <1>1, <1>2, <1>3 DEF Typed
<1>5. ModeOK'
  BY <1>1, <1>2, <1>3 DEF ModeOK
<1>6. ASSUME NEW h \in Exec PROVE ExecOK(h)'
  <2>1. CASE h \notin Flying
    BY <1>1, <1>3, <2>1, ExecKept DEF ChannelInv
  <2>2. CASE h \in Flying
    <3>1. /\ ErrorAfter(h)' <=> ErrorAfter(h)
          /\ ResultAfter(h)' = ResultAfter(h) /\ PendingAfter(h)' = PendingAfter(h)
      BY <1>1, AfterSame
    <3>2. FlyingOK(h) /\ place[h] = "flying" /\ worker'[h] = "dead"
      BY <1>3, <2>2 DEF ChannelInv, ExecOK, Flying
    <3>3. FlyingOK(h)'
      BY <1>1, <3>1, <3>2 DEF FlyingOK, Working, SettledByResult
    <3> QED BY <1>1, <3>2, <3>3 DEF ExecOK
  <2> QED BY <2>1, <2>2
<1> QED BY <1>4, <1>5, <1>6 DEF ChannelInv

LEMMA DrainStep ==
  ASSUME ChannelInv, NEW h \in Exec, Drain(h)
  PROVE  ChannelInv'
<1>1. /\ mode = "draining" /\ h \in todo /\ todo' = todo \ {h} /\ Forget(h)
      /\ outcome' = [outcome EXCEPT ![h] = IF FoundLate(h) THEN "result" ELSE "cancelled"]
      /\ carried' = [carried EXCEPT ![h] = @ + PendingAfter(h)]
      /\ UNCHANGED <<worker, told, signalled, overdue, hit, applied, place, mode, current>>
  BY DEF Drain, NextToDrain
<1>2. /\ Typed /\ ModeOK /\ outcome[h] \in {"none", "result"} /\ worker[h] = "dead"
      /\ place[h] = "flying" /\ FlyingOK(h)
  BY <1>1 DEF ChannelInv, ModeOK, ExecOK, Flying
<1>3. /\ pipe' \in [Exec -> Seq(Frame)] /\ errors' \in [Exec -> BOOLEAN]
      /\ results' \in [Exec -> {"nothing", "result", "interrupted"}]
      /\ pending' \in [Exec -> Nat] /\ PendingAfter(h)' = 0 /\ ResultAfter(h)' = "nothing"
      /\ \A x \in Exec \ {h} : /\ pipe'[x] = pipe[x] /\ errors'[x] = errors[x]
                               /\ results'[x] = results[x] /\ pending'[x] = pending[x]
  BY <1>1, <1>2, ForgetTypes
<1>4. /\ PendingAfter(h) \in Nat /\ applied[h] \in Nat /\ carried[h] \in Nat
      /\ signalled[h] \in Nat
  BY <1>2, NumbersOf
<1>5. /\ outcome' \in [Exec -> Outcomes] /\ carried' \in [Exec -> Nat]
      /\ \A x \in Exec \ {h} : outcome'[x] = outcome[x] /\ carried'[x] = carried[x]
      /\ outcome'[h] = IF FoundLate(h) THEN "result" ELSE "cancelled"
      /\ carried'[h] = carried[h] + PendingAfter(h)
  BY <1>1, <1>2, <1>4 DEF Typed, Outcomes
<1>6. Typed'
  BY <1>1, <1>2, <1>3, <1>5 DEF Typed
<1>7. outcome'[h] # "none"
  BY <1>5
<1>8. ModeOK'
  <2>1. Flying' = Flying /\ Flying \subseteq Exec
    BY <1>1 DEF Flying
  <2> QED BY <1>1, <1>2, <1>5, <1>7, <2>1 DEF ModeOK
<1>9. ExecOK(h)'
  <2>1. applied'[h] + carried'[h] + PendingAfter(h)' = applied[h] + carried[h] + PendingAfter(h)
    <3>1. applied'[h] + carried'[h] = applied[h] + carried[h] + PendingAfter(h)
      BY <1>1, <1>4, <1>5
    <3>2. applied'[h] + carried'[h] \in Nat
      BY <1>1, <1>4, <1>5
    <3> QED BY <1>3, <3>1, <3>2
  <2>2. ASSUME hit[h] = "no" PROVE SettledByResult(h)'
    <3>1. CASE outcome[h] = "result"
      BY <1>1, <1>2, <1>5, <2>2, <3>1 DEF FlyingOK, SettledByResult, FoundLate
    <3>2. CASE outcome[h] = "none"
      <4>1. ~ ErrorAfter(h) /\ ResultAfter(h) = told[h]
        BY <1>2, <2>2, <3>2 DEF FlyingOK
      <4>2. FoundLate(h) <=> told[h] = "result"
        BY <3>2, <4>1 DEF FoundLate, Done
      <4> QED BY <1>1, <1>5, <4>2 DEF SettledByResult
    <3> QED BY <1>2, <3>1, <3>2
  <2>3. FlyingOK(h)'
    BY <1>1, <1>2, <1>3, <1>7, <2>1, <2>2 DEF FlyingOK, Working
  <2> QED BY <1>1, <1>2, <2>3 DEF ExecOK
<1>10. ASSUME NEW x \in Exec, x # h PROVE ExecOK(x)'
  BY <1>1, <1>3, <1>5, <1>10, ExecKept DEF ChannelInv
<1> QED BY <1>6, <1>8, <1>9, <1>10 DEF ChannelInv

LEMMA DrainRaisesStep ==
  ASSUME ChannelInv, NEW h \in Exec, DrainRaises(h)
  PROVE  ChannelInv'
<1>1. /\ mode = "draining" /\ h \in todo /\ LoseOutcomes(h)
      /\ pipe' = [pipe EXCEPT ![h] = <<>>]
      /\ errors' = [errors EXCEPT ![h] = ErrorAfter(h)]
      /\ results' = [results EXCEPT ![h] = IF Done(h) THEN "nothing" ELSE ResultAfter(h)]
      /\ pending' = [pending EXCEPT ![h] = 0]
      /\ mode' \in {"down", "crashed"} /\ todo' = {}
      /\ place' = [x \in Exec |-> IF net /\ x \in Flying THEN "abandoned" ELSE place[x]]
      /\ UNCHANGED <<worker, told, signalled, overdue, applied, current>>
  BY DEF DrainRaises, NextToDrain
<1>2. /\ Typed /\ ModeOK /\ h \in Flying /\ FlyingOK(h) /\ Flying \subseteq Exec
      /\ \A x \in Flying : worker[x] = "dead"
  BY <1>1 DEF ChannelInv, ModeOK, ExecOK, Flying
<1>3. /\ ErrorAfter(h) \in BOOLEAN /\ ResultAfter(h) \in {"nothing", "result", "interrupted"}
  BY <1>2, AfterTypes
<1>4. errors' \in [Exec -> BOOLEAN] /\ errors'[h] = ErrorAfter(h)
  BY <1>1, <1>2, <1>3 DEF Typed
<1>5. /\ pipe' \in [Exec -> Seq(Frame)] /\ pipe'[h] = <<>>
      /\ results' \in [Exec -> {"nothing", "result", "interrupted"}]
      /\ results'[h] \in {"nothing", ResultAfter(h)}
      /\ pending' \in [Exec -> Nat] /\ pending'[h] = 0
      /\ place' \in [Exec -> {"free", "flying", "settled", "abandoned"}]
      /\ \A x \in Exec \ {h} : /\ pipe'[x] = pipe[x] /\ errors'[x] = errors[x]
                               /\ results'[x] = results[x] /\ pending'[x] = pending[x]
  BY <1>1, <1>2, <1>3 DEF Typed
<1>6. /\ outcome' \in [Exec -> Outcomes] /\ carried' \in [Exec -> Nat]
      /\ hit' \in [Exec -> {"no", "own", "batch"}]
      /\ \A x \in Flying : outcome'[x] = "none"
      /\ \A x \in Exec \ Flying : /\ outcome'[x] = outcome[x] /\ carried'[x] = carried[x]
                                  /\ x # h => hit'[x] = hit[x]
  BY <1>1, <1>2, LoseTypes
<1>7. Typed'
  BY <1>1, <1>2, <1>4, <1>5, <1>6 DEF Typed
<1>8. ModeOK'
  <2>1. Flying' \subseteq Flying
    BY <1>1 DEF Flying
  <2> QED BY <1>1, <1>6, <2>1 DEF ModeOK
<1>9. ASSUME NEW x \in Flying PROVE FlyingOK(x)'
  <2>1. CASE x = h
    <3>1. Received(h)' = {} /\ PendingAfter(h)' = 0
      BY <1>5, AfterPrimed, EmptyPipe
    <3>2. ResultAfter(h)' \in {"nothing", results'[h]}
      BY <3>1 DEF ResultAfter
    <3>3. ResultAfter(h)' \in {"nothing", told[h]}
      BY <1>2, <1>5, <3>2 DEF FlyingOK
    <3> QED BY <1>1, <1>2, <2>1, <3>1, <3>3, OutcomeLostOwn
  <2>2. CASE x # h
    <3>1. FlyingOK(x) /\ x \in Exec
      BY <1>2 DEF ChannelInv, ExecOK, Flying
    <3> QED BY <1>1, <1>2, <1>5, <2>2, <3>1, OutcomeLost
  <2> QED BY <2>1, <2>2
<1>10. ASSUME NEW x \in Exec PROVE ExecOK(x)'
  <2>1. CASE x \notin Flying
    <3>1. place'[x] = place[x] /\ x # h
      BY <1>1, <1>2, <2>1
    <3> QED BY <1>1, <1>5, <1>6, <2>1, <3>1, ExecKept DEF ChannelInv
  <2>2. CASE x \in Flying
    <3>1. FlyingOK(x)' /\ worker'[x] = "dead" /\ place'[x] \in {"flying", "abandoned"}
      BY <1>1, <1>2, <1>9, <2>2 DEF Flying
    <3> QED BY <3>1 DEF ExecOK, FlyingOK, AbandonedOK
  <2> QED BY <2>1, <2>2
<1> QED BY <1>7, <1>8, <1>10 DEF ChannelInv

LEMMA SettleAbortedStep ==
  ASSUME ChannelInv, SettleAborted
  PROVE  ChannelInv'
<1>1. /\ mode = "draining" /\ todo = {} /\ mode' = "down"
      /\ place' = [h \in Exec |-> IF h \in Flying THEN "settled" ELSE place[h]]
      /\ applied' = [h \in Exec |-> applied[h] + IF h \in Flying THEN carried[h] ELSE 0]
      /\ UNCHANGED <<worker, pipe, told, signalled, overdue, hit, results, errors, pending,
                     outcome, carried, todo, current>>
  BY DEF SettleAborted
<1>2. \A h \in Flying : outcome[h] # "none" /\ worker[h] = "dead"
  BY <1>1 DEF ChannelInv, ModeOK
<1> QED BY <1>1, <1>2, Settles

-----------------------------------------------------------------------------
(* The theorems.                                                            *)

LEMMA ChannelStep == ChannelInv /\ [Next]_vars => ChannelInv'
<1> SUFFICES ASSUME ChannelInv, [Next]_vars PROVE ChannelInv'
  OBVIOUS
<1>1. CASE UNCHANGED vars
  <2>1. UNCHANGED <<worker, pipe, told, signalled, overdue, hit, results, errors, pending, outcome,
                    carried, applied, place, mode, todo, current>>
    BY <1>1 DEF vars, main
  <2>2. \A h \in Exec : ExecOK(h)'
    BY <2>1, ExecKept DEF ChannelInv
  <2>3. Typed'
    BY <2>1 DEF ChannelInv, Typed
  <2>4. ModeOK'
    BY <2>1, ModeKept DEF ChannelInv
  <2> QED BY <2>2, <2>3, <2>4 DEF ChannelInv
<1>2. CASE DrainSignals
  BY <1>2, Applies DEF DrainSignals
<1>3. CASE StartReap
  BY <1>3, Applies DEF StartReap
<1>4. CASE StartAbort
  BY <1>4, Applies DEF StartAbort
<1>5. CASE Main
  BY <1>3, <1>4, <1>5, ReapStep, CollectStep, CollectRaisesStep, SettleReapedStep, ProbeStep,
     FinalizeStep, DrainStep, DrainRaisesStep, SettleAbortedStep DEF Main
<1>6. ASSUME NEW h \in Exec, Worker(h) \/ Spawn(h) \/ TimePasses(h) PROVE ChannelInv'
  BY <1>6, SendSuspendStep, SendInvalidStep, SendResultStep, WorkerDiesStep, SpawnStep,
     TimePassesStep DEF Worker
<1> QED BY <1>1, <1>2, <1>4, <1>5, <1>6 DEF Next

LEMMA NetInit == Init => NetTyped
  BY DEF Init, NetTyped

LEMMA NetStep == NetTyped /\ [Next]_vars => NetTyped'
<1> SUFFICES ASSUME NetTyped, [Next]_vars PROVE NetTyped'
  OBVIOUS
<1> USE DEF NetTyped
<1>1. CASE UNCHANGED vars
  BY <1>1 DEF vars, main
<1>2. CASE DrainSignals \/ StartReap \/ SettleReaped \/ FinalizeProcesses \/ SettleAborted
  BY <1>2 DEF DrainSignals, StartReap, SettleReaped, FinalizeProcesses, SettleAborted
<1>3. CASE StartAbort
  BY <1>3 DEF StartAbort
<1>4. ASSUME NEW h \in Exec, Reap(h) \/ Collect(h) \/ CollectRaises(h) \/ Probe(h) \/ Drain(h)
                             \/ DrainRaises(h)
      PROVE  NetTyped'
  BY <1>4 DEF Reap, Collect, CollectRaises, Probe, Drain, DrainRaises
<1>5. ASSUME NEW h \in Exec, Worker(h) \/ Spawn(h) \/ TimePasses(h) PROVE NetTyped'
  BY <1>5 DEF Worker, SendSuspend, SendInvalid, SendResult, WorkerDies, Spawn, TimePasses, main
<1> QED BY <1>1, <1>2, <1>3, <1>4, <1>5 DEF Next, Main

\* The channel's tables keep their types; no count of signals ever exceeds what the
\* worker may send.
THEOREM ChannelTypes == Spec => []TypeOK
<1>1. ChannelInv /\ NetTyped => TypeOK
  <2> SUFFICES ASSUME ChannelInv, NetTyped PROVE TypeOK
    OBVIOUS
  <2>1. ASSUME NEW h \in Exec
        PROVE  {signalled[h], pending[h], carried[h], applied[h]} \subseteq 0..MaxSignals
    <3>1. /\ PendingAfter(h) \in Nat /\ applied[h] \in Nat /\ carried[h] \in Nat
          /\ signalled[h] \in 0..MaxSignals /\ pending[h] \in Nat
      BY NumbersOf DEF ChannelInv, Typed
    <3>2. pending[h] <= PendingAfter(h)
      <4>1. Cardinality(Suspends(pipe[h])) \in Nat
        BY CountType DEF ChannelInv, Typed
      <4> QED BY <3>1, <4>1, AfterDef
    <3>3. /\ PendingAfter(h) <= signalled[h] /\ carried[h] <= signalled[h]
          /\ applied[h] <= signalled[h]
      <4>1. CASE place[h] = "free"
        BY <3>1, <4>1 DEF ChannelInv, ExecOK, FreeOK
      <4>2. CASE place[h] = "flying"
        BY <3>1, <4>2 DEF ChannelInv, ExecOK, FlyingOK
      <4>3. CASE place[h] = "settled"
        BY <3>1, <4>3 DEF ChannelInv, ExecOK, SettledOK
      <4>4. CASE place[h] = "abandoned"
        BY <3>1, <4>4 DEF ChannelInv, ExecOK, AbandonedOK
      <4> QED BY <4>1, <4>2, <4>3, <4>4 DEF ChannelInv, Typed
    <3> QED BY <3>1, <3>2, <3>3, ChannelAssumption
  <2> QED BY <2>1 DEF ChannelInv, NetTyped, Typed, TypeOK, Frame
<1> QED BY <1>1, ChannelInit, ChannelStep, NetInit, NetStep, PTL DEF Spec

\* An execution is settled by its result exactly when its worker sent one, in any race
\* of the result with the timeout, the abort and the kill (reap_completed,
\* _collect_outcome, _consume_result_if_present), errors on pipes apart.
THEOREM ResultsCountHolds == Spec => []ResultsCount
<1>1. ChannelInv => ResultsCount
  BY DEF ChannelInv, ExecOK, SettledOK, ResultsCount
<1> QED BY <1>1, ChannelInit, ChannelStep, PTL DEF Spec

\* Every suspend signal reaches the resources exactly once (apply_pending_signals, the
\* signals carried by an outcome, those salvaged from an aborted worker's pipe).
THEOREM SignalsArriveHolds == Spec => []SignalsArrive
<1>1. ChannelInv => SignalsArrive
  BY DEF ChannelInv, ExecOK, SettledOK, SignalsArrive
<1> QED BY <1>1, ChannelInit, ChannelStep, PTL DEF Spec

\* No process survives the settlement of its execution, nor the end of a run that
\* abandons it (_collect_outcome and finalize_processes kill it first).
THEOREM NoWorkerLeftHolds == Spec => []NoWorkerLeft
<1>1. ChannelInv => NoWorkerLeft
  BY DEF ChannelInv, ExecOK, SettledOK, AbandonedOK, NoWorkerLeft
<1> QED BY <1>1, ChannelInit, ChannelStep, PTL DEF Spec
=============================================================================
