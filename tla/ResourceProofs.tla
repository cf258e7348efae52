--------------------------- MODULE ResourceProofs ---------------------------
(***************************************************************************)
(* The accounts of the capacities and the life of a suspension, for any    *)
(* jobs, resources, needs, limits and clocks.                              *)
(***************************************************************************)
EXTENDS Resource, FiniteSetTheorems, TLAPS

\* No job is given a time slice longer than a suspension may last.  A restored deadline
\* is cut to that limit, so a longer slice would not survive a restart.
SlicesWithinLimit == \A j \in Job, r \in Rates : Interval[r] * Amount(j, r) <= MaxSuspend

-----------------------------------------------------------------------------
(* The inductive invariants.                                                *)

Signals == Names \X Requests

TypedRun ==
    /\ phase \in {"up", "aborting", "ended", "killed"}
    /\ stage \in {"idle", "chosen", "drained", "reserved"}
    /\ at \in [Job -> {"queued", "running", "done"}]
    /\ lease \in [Job -> {"none", "reserved", "claimed", "released"}]
    /\ used \in [Capacities -> Nat]

TypedTime ==
    /\ now \in 0..MaxTime /\ skew \in 0..MaxSkew
    /\ until \in [Names -> Nat] /\ owed \in [Names -> Nat] /\ due \in [Names -> Nat]
    /\ DOMAIN saved \subseteq Names /\ \A r \in DOMAIN saved : saved[r] \in Nat

TypedSignals ==
    /\ inPipe \in [Job -> SUBSET Signals] /\ asked \in [Job -> SUBSET Signals]
    /\ \A j \in Job : inPipe[j] \subseteq asked[j]

\* One job is dispatched at a time, and while it is the run is up.
StageOK ==
    /\ stage = "idle" => chosen = {}
    /\ stage # "idle" => phase = "up" /\ \E j \in Job : chosen = {j} /\ at[j] = "queued"
    /\ phase \in {"ended", "killed"} => \A j \in Job : at[j] # "running"

Holders == {j \in Job : Holds(j)}

\* Who holds a lease: the job that is being started, and those that run until they abort.
LeaseOK(j) ==
    /\ lease[j] = "reserved" <=> stage = "reserved" /\ chosen = {j}
    /\ lease[j] = "claimed" <=> phase = "up" /\ at[j] = "running"

\* What is in use is what the holders need, and there is room for the chosen job.
UsedOK(c) ==
    /\ used[c] = Load(Holders, c) /\ used[c] <= Cap[c]
    /\ stage \in {"chosen", "drained"} => \A j \in chosen : used[c] + Amount(j, c) <= Cap[c]

LeaseInv ==
    /\ TypedRun /\ StageOK
    /\ \A j \in Job : LeaseOK(j)
    /\ \A c \in Capacities : UsedOK(c)

\* What is owed is in force, or on disk for the next process to restore within the limit.
TimeOK(r) ==
    /\ phase # "killed" /\ owed[r] > now => until[r] >= owed[r]
    /\ phase # "killed" /\ due[r] > now => until[r] >= due[r]
    /\ phase = "killed" => due[r] = owed[r]
    /\ owed[r] > now => r \in DOMAIN saved /\ saved[r] >= owed[r] + skew
    /\ until[r] <= now + MaxSuspend /\ owed[r] <= now + MaxSuspend

\* A job that is being started has found its rates free, and they stay so.
RatesOK == stage = "reserved" => \A j \in chosen : \A r \in DOMAIN Needs[j] \cap Rates : until[r] <= now

TimeInv == RatesOK /\ \A r \in Names : TimeOK(r)

-----------------------------------------------------------------------------
(* Maxima and loads.                                                        *)

LEMMA MaxOfTwo == ASSUME NEW a \in Int, NEW b \in Int PROVE Max({a, b}) = IF a >= b THEN a ELSE b
<1>1. PICK m \in {a, b} : m = IF a >= b THEN a ELSE b
  OBVIOUS
<1>2. /\ m \in Int /\ m >= a /\ m >= b
      /\ \A x \in {a, b} : (\A y \in {a, b} : x >= y) => x = m
  BY <1>1
<1> QED BY <1>1, <1>2 DEF Max

\* A bounded set of numbers has a greatest one.
LEMMA MaxBounded ==
  ASSUME NEW S \in SUBSET Nat, S # {}, NEW b \in Nat, \A x \in S : x <= b
  PROVE  Max(S) \in S /\ \A x \in S : Max(S) >= x
<1> DEFINE T == {n \in Nat : \E x \in S : n = b - x}
<1>1. T \subseteq Nat /\ T # {}
  <2>1. PICK x \in S : TRUE
    OBVIOUS
  <2>2. b - x \in Nat
    BY <2>1
  <2> QED BY <2>2
<1>2. PICK n \in T : \A k \in T : ~ (<<k, n>> \in OpToRel(<, Nat))
  BY <1>1, NatLessThanWellFounded, WFMin
<1>3. PICK x \in S : n = b - x
  OBVIOUS
<1>4. \A y \in S : x >= y
  <2> SUFFICES ASSUME NEW y \in S, ~ (x >= y) PROVE FALSE
    OBVIOUS
  <2>1. b - y \in T /\ b - y < n /\ b - y \in Nat /\ n \in Nat
    BY <1>3
  <2>2. <<b - y, n>> \in OpToRel(<, Nat)
    BY <2>1 DEF OpToRel
  <2> QED BY <1>2, <2>1, <2>2
<1> QED BY <1>4 DEF Max

Units(js, r) == UNION {{j} \X (1 .. Amount(j, r)) : j \in js}

LEMMA Amounts == ASSUME NEW j \in Job, NEW r PROVE Amount(j, r) \in Nat
  BY ResourceAssumption DEF Amount

LEMMA UnitsFinite == ASSUME NEW js \in SUBSET Job, NEW r PROVE IsFiniteSet(Units(js, r))
<1> DEFINE Of(j) == {j} \X (1 .. Amount(j, r))
           f == [j \in js |-> Of(j)]
           F == {Of(j) : j \in js}
<1>1. \A j \in js : IsFiniteSet(Of(j))
  <2> SUFFICES ASSUME NEW j \in js PROVE IsFiniteSet(Of(j))
    OBVIOUS
  <2>1. PICK n \in Nat : n = Amount(j, r)
    BY Amounts
  <2>2. IsFiniteSet(1 .. n)
    BY FS_Interval
  <2>3. IsFiniteSet({j})
    BY FS_Singleton
  <2>4. IsFiniteSet({j} \X (1 .. n))
    BY <2>2, <2>3, FS_Product
  <2> QED BY <2>1, <2>4
<1>2. IsFiniteSet(js)
  BY ResourceAssumption, FS_Subset
<1>3. f \in Surjection(js, F)
  BY DEF Surjection
<1>4. IsFiniteSet(F)
  <2> HIDE DEF f, F
  <2> QED BY <1>2, <1>3, FS_Surjection
<1> QED BY <1>1, <1>4, FS_UNION DEF Units

LEMMA LoadOfOne == ASSUME NEW j \in Job, NEW r PROVE Load({j}, r) = Amount(j, r)
<1>1. PICK n \in Nat : n = Amount(j, r)
  BY Amounts
<1>2. Cardinality({j}) = 1 /\ IsFiniteSet({j})
  BY FS_Singleton
<1>3. PICK m : m = Cardinality(1 .. n)
  OBVIOUS
<1>4. IsFiniteSet(1 .. n) /\ m = n
  <2>1. IsFiniteSet(1 .. n) /\ Cardinality(1 .. n) = IF 1 > n THEN 0 ELSE n - 1 + 1
    BY FS_Interval
  <2> QED BY <1>3, <2>1
<1>5. Cardinality({j} \X (1 .. n)) = Cardinality({j}) * Cardinality(1 .. n)
  BY <1>2, <1>4, FS_Product
<1>6. Cardinality({j} \X (1 .. n)) = 1 * n
  BY <1>2, <1>3, <1>4, <1>5
<1>7. UNION {{k} \X (1 .. Amount(k, r)) : k \in {j}} = {j} \X (1 .. n)
  BY <1>1
<1> QED BY <1>1, <1>6, <1>7 DEF Load

\* Loads add up.
LEMMA LoadOfUnion ==
  ASSUME NEW ks, ks \subseteq Job, NEW ls, ls \subseteq Job, \A j \in ks : j \notin ls,
         NEW ms, ms = ks \cup ls, NEW r
  PROVE  /\ Load(ks, r) \in Nat /\ Load(ls, r) \in Nat
         /\ Load(ms, r) = Load(ks, r) + Load(ls, r)
<1> DEFINE U == Units(ks, r)  V == Units(ls, r)
<1>1. IsFiniteSet(U) /\ IsFiniteSet(V)
  BY UnitsFinite
<1>2. Units(ks \cup ls, r) = U \cup V /\ U \cap V = {}
  BY DEF Units
<1>3. Load(ks, r) = Cardinality(U) /\ Load(ls, r) = Cardinality(V)
  BY DEF Load, Units
<1>4. Load(ks \cup ls, r) = Cardinality(U \cup V)
  BY <1>2 DEF Load, Units
<1> HIDE DEF U, V
<1>5. Cardinality(U \cup V) = Cardinality(U) + Cardinality(V) - Cardinality(U \cap V)
  BY <1>1, FS_Union
<1>6. Cardinality(U) \in Nat /\ Cardinality(V) \in Nat /\ Cardinality(U \cap V) = 0
  BY <1>1, <1>2, FS_CardinalityType, FS_EmptySet
<1> QED BY <1>3, <1>4, <1>5, <1>6

LEMMA LoadOfNone == ASSUME NEW r PROVE Load({}, r) = 0
<1>1. Units({}, r) = {}
  BY DEF Units
<1> QED BY <1>1, FS_EmptySet DEF Load, Units

LEMMA LoadOfPart ==
  ASSUME NEW ks \in SUBSET Job, NEW ls \in SUBSET ks, NEW r
  PROVE  /\ Load(ks, r) \in Nat /\ Load(ls, r) \in Nat /\ Load(ks \ ls, r) \in Nat
         /\ Load(ks \ ls, r) = Load(ks, r) - Load(ls, r)
<1>1. PICK ms \in SUBSET Job : ms = ks \ ls
  OBVIOUS
<1>2. ms \cup ls = ks
  BY <1>1
<1>3. /\ Load(ms, r) \in Nat /\ Load(ls, r) \in Nat
      /\ Load(ms \cup ls, r) = Load(ms, r) + Load(ls, r)
  <2>1. ls \subseteq Job /\ \A j \in ms : j \notin ls
    BY <1>1
  <2> QED BY <2>1, LoadOfUnion
<1>4. PICK a \in Nat, b \in Nat : a = Load(ms, r) /\ b = Load(ls, r)
  BY <1>3
<1>5. Load(ks, r) = a + b
  BY <1>2, <1>3, <1>4
<1>6. a + b \in Nat /\ a = a + b - b
  OBVIOUS
<1> QED BY <1>1, <1>4, <1>5, <1>6

-----------------------------------------------------------------------------
(* The accounts.                                                            *)

LEMMA LeaseSame ==
  ASSUME LeaseInv, UNCHANGED <<phase, stage, chosen, leases>> PROVE LeaseInv'
<1>1. Holders' = Holders
  BY DEF Holders, Holds, leases
<1>2. TypedRun' /\ StageOK'
  BY DEF LeaseInv, TypedRun, StageOK, leases
<1>3. \A j \in Job : LeaseOK(j)'
  BY DEF LeaseInv, LeaseOK, leases
<1>4. \A c \in Capacities : UsedOK(c)'
  BY <1>1 DEF LeaseInv, UsedOK, leases
<1> QED BY <1>2, <1>3, <1>4 DEF LeaseInv

\* What a release gives back is what was taken.
LEMMA Released ==
  ASSUME LeaseInv, NEW js \in SUBSET Job, Release(js)
  PROVE  /\ used' \in [Capacities -> Nat]
         /\ lease' \in [Job -> {"none", "reserved", "claimed", "released"}]
         /\ \A j \in Job : lease'[j] = IF j \in js /\ Holds(j) THEN "released" ELSE lease[j]
         /\ Holders' = Holders \ js
         /\ \A c \in Capacities : used'[c] = Load(Holders', c) /\ used'[c] <= used[c]
<1> DEFINE back == {j \in js : Holds(j)}
<1>1. /\ used' = [c \in Capacities |-> Max({0, used[c] - Load(back, c)})]
      /\ lease' = [j \in Job |-> IF j \in back THEN "released" ELSE lease[j]]
  BY DEF Release
<1>2. back \in SUBSET Holders /\ Holders \in SUBSET Job
  BY DEF Holders
<1>3. \A j \in Job : j \in back <=> j \in js /\ Holds(j)
  OBVIOUS
<1>4. /\ lease' \in [Job -> {"none", "reserved", "claimed", "released"}]
      /\ \A j \in Job : lease'[j] = IF j \in back THEN "released" ELSE lease[j]
  BY <1>1 DEF LeaseInv, TypedRun
<1>5. Holders' = Holders \ back /\ Holders' = Holders \ js
  BY <1>3, <1>4 DEF Holders, Holds
<1> HIDE DEF back
<1>6. ASSUME NEW c \in Capacities
      PROVE  used'[c] = Load(Holders', c) /\ used'[c] <= used[c] /\ used'[c] \in Nat
  <2>1. /\ Load(Holders, c) \in Nat /\ Load(back, c) \in Nat /\ Load(Holders \ back, c) \in Nat
        /\ Load(Holders \ back, c) = Load(Holders, c) - Load(back, c)
    BY <1>2, LoadOfPart
  <2>2. PICK a \in Nat, b \in Nat, d \in Nat :
            a = Load(Holders, c) /\ b = Load(back, c) /\ d = Load(Holders \ back, c) /\ d = a - b
    BY <2>1
  <2>3. used'[c] = Max({0, a - b})
    <3>1. used[c] = a
      BY <2>2 DEF LeaseInv, UsedOK
    <3> QED BY <1>1, <2>2, <3>1
  <2>4. used'[c] = d /\ d <= a
    <3>1. used'[c] = IF 0 >= a - b THEN 0 ELSE a - b
      BY <2>3, MaxOfTwo
    <3> QED BY <2>2, <3>1
  <2>5. a = used[c]
    BY <2>2 DEF LeaseInv, UsedOK
  <2> QED BY <1>5, <2>2, <2>4, <2>5
<1>7. used' \in [Capacities -> Nat]
  BY <1>1, <1>6
<1> QED BY <1>3, <1>4, <1>5, <1>6, <1>7

LEMMA ChooseLease == ASSUME LeaseInv, NEW j \in Job, Choose(j) PROVE LeaseInv'
<1>1. /\ phase = "up" /\ stage = "idle" /\ at[j] = "queued" /\ Available(j)
      /\ chosen' = {j} /\ stage' = "chosen" /\ UNCHANGED <<phase, at, lease, used>>
  BY DEF Choose, Idle, leases
<1>2. Holders' = Holders
  BY <1>1 DEF Holders, Holds
<1>3. TypedRun' /\ StageOK'
  BY <1>1 DEF LeaseInv, TypedRun, StageOK
<1>4. \A k \in Job : LeaseOK(k)'
  BY <1>1 DEF LeaseInv, LeaseOK
<1>5. ASSUME NEW c \in Capacities PROVE UsedOK(c)'
  <2>1. used[c] = Load(Holders, c) /\ used[c] <= Cap[c] /\ used[c] \in Nat /\ Cap[c] \in Nat
    BY ResourceAssumption DEF LeaseInv, UsedOK, TypedRun
  <2>2. c \in DOMAIN Needs[j] => used[c] + Needs[j][c] <= Cap[c]
    BY <1>1 DEF Available, CanAcquire
  <2>3. used[c] + Amount(j, c) <= Cap[c]
    BY <2>1, <2>2 DEF Amount
  <2> QED BY <1>1, <1>2, <2>1, <2>3 DEF UsedOK
<1> QED BY <1>3, <1>4, <1>5 DEF LeaseInv

LEMMA ArchiveLease == ASSUME LeaseInv, NEW j \in Job, Archive(j) PROVE LeaseInv'
<1>1. /\ phase = "up" /\ stage = "idle" /\ at[j] = "queued" /\ at' = [at EXCEPT ![j] = "done"]
      /\ UNCHANGED <<phase, stage, chosen, lease, used>>
  BY DEF Archive, Idle
<1>2. Holders' = Holders
  BY <1>1 DEF Holders, Holds
<1>3. TypedRun' /\ StageOK'
  BY <1>1 DEF LeaseInv, TypedRun, StageOK
<1>4. \A k \in Job : LeaseOK(k)'
  BY <1>1 DEF LeaseInv, LeaseOK, TypedRun
<1>5. \A c \in Capacities : UsedOK(c)'
  BY <1>1, <1>2 DEF LeaseInv, UsedOK
<1> QED BY <1>3, <1>4, <1>5 DEF LeaseInv

LEMMA DrainLease == ASSUME LeaseInv, DrainSignals PROVE LeaseInv'
<1>1. /\ phase = "up" /\ stage \in {"idle", "chosen"}
      /\ stage' = IF stage = "chosen" THEN "drained" ELSE "idle"
      /\ UNCHANGED <<phase, chosen, at, lease, used>>
  BY DEF DrainSignals, leases
<1>2. Holders' = Holders
  BY <1>1 DEF Holders, Holds
<1>3. TypedRun' /\ StageOK'
  BY <1>1 DEF LeaseInv, TypedRun, StageOK
<1>4. \A k \in Job : LeaseOK(k)'
  BY <1>1 DEF LeaseInv, LeaseOK
<1>5. \A c \in Capacities : UsedOK(c)'
  BY <1>1, <1>2 DEF LeaseInv, UsedOK
<1> QED BY <1>3, <1>4, <1>5 DEF LeaseInv

LEMMA ReserveLease == ASSUME LeaseInv, NEW j \in Job, Reserve(j) PROVE LeaseInv'
<1>1. /\ phase = "up" /\ stage = "drained" /\ chosen = {j} /\ UNCHANGED <<phase, at>>
  BY DEF Reserve
<1>2. CASE stage' = "idle" /\ chosen' = {} /\ UNCHANGED <<used, lease>>
  <2>1. Holders' = Holders
    BY <1>2 DEF Holders, Holds
  <2>2. TypedRun' /\ StageOK'
    BY <1>1, <1>2 DEF LeaseInv, TypedRun, StageOK
  <2>3. \A k \in Job : LeaseOK(k)'
    BY <1>1, <1>2 DEF LeaseInv, LeaseOK
  <2>4. \A c \in Capacities : UsedOK(c)'
    BY <1>1, <1>2, <2>1 DEF LeaseInv, UsedOK
  <2> QED BY <2>2, <2>3, <2>4 DEF LeaseInv
<1>3. CASE /\ used' = [c \in Capacities |-> used[c] + Amount(j, c)]
           /\ lease' = [lease EXCEPT ![j] = "reserved"]
           /\ stage' = "reserved" /\ UNCHANGED chosen
  <2>1. lease[j] \notin {"reserved", "claimed"} /\ at[j] = "queued"
    BY <1>1 DEF LeaseInv, LeaseOK, StageOK
  <2>2. Holders' = Holders \cup {j} /\ j \notin Holders /\ Holders \subseteq Job
    BY <1>3, <2>1 DEF Holders, Holds, LeaseInv, TypedRun
  <2>3. ASSUME NEW c \in Capacities PROVE UsedOK(c)' /\ used'[c] \in Nat
    <3>1. /\ used[c] = Load(Holders, c) /\ used[c] + Amount(j, c) <= Cap[c] /\ used[c] \in Nat
      BY <1>1 DEF LeaseInv, UsedOK, TypedRun
    <3>2. Load(Holders', c) = Load(Holders, c) + Load({j}, c)
      <4>1. {j} \subseteq Job /\ \A k \in Holders : k \notin {j}
        BY <2>2
      <4> QED BY <2>2, <4>1, LoadOfUnion
    <3>3. Load({j}, c) = Amount(j, c) /\ Amount(j, c) \in Nat
      BY LoadOfOne, Amounts
    <3>4. used'[c] = used[c] + Amount(j, c)
      BY <1>3
    <3> QED BY <1>3, <3>1, <3>2, <3>3, <3>4 DEF UsedOK
  <2>4. TypedRun'
    <3>1. used' \in [Capacities -> Nat]
      BY <1>3, <2>3
    <3> QED BY <1>1, <1>3, <3>1 DEF LeaseInv, TypedRun
  <2>5. StageOK'
    BY <1>1, <1>3 DEF LeaseInv, StageOK
  <2>6. \A k \in Job : LeaseOK(k)'
    BY <1>1, <1>3, <2>1 DEF LeaseInv, LeaseOK, TypedRun
  <2> QED BY <2>3, <2>4, <2>5, <2>6 DEF LeaseInv
<1> QED BY <1>2, <1>3 DEF Reserve

LEMMA SpawnFailsLease == ASSUME LeaseInv, NEW j \in Job, SpawnFails(j) PROVE LeaseInv'
<1>1. /\ phase = "up" /\ stage = "reserved" /\ chosen = {j} /\ Release({j})
      /\ stage' = "idle" /\ chosen' = {} /\ UNCHANGED phase
  BY DEF SpawnFails
<1>2. PICK place \in {"queued", "done"} : at' = [at EXCEPT ![j] = place]
  BY DEF SpawnFails
<1>3. /\ used' \in [Capacities -> Nat]
      /\ lease' \in [Job -> {"none", "reserved", "claimed", "released"}]
      /\ \A k \in Job : lease'[k] = IF k \in {j} /\ Holds(k) THEN "released" ELSE lease[k]
      /\ \A c \in Capacities : used'[c] = Load(Holders', c) /\ used'[c] <= used[c]
  BY <1>1, Released
<1>4. TypedRun' /\ StageOK'
  BY <1>1, <1>2, <1>3 DEF LeaseInv, TypedRun, StageOK
<1>5. \A k \in Job : LeaseOK(k)'
  <2>1. at[j] = "queued" /\ lease[j] = "reserved"
    BY <1>1 DEF LeaseInv, StageOK, LeaseOK
  <2> QED BY <1>1, <1>2, <1>3, <2>1 DEF LeaseInv, LeaseOK, Holds, TypedRun
<1>6. \A c \in Capacities : UsedOK(c)'
  <2> SUFFICES ASSUME NEW c \in Capacities PROVE UsedOK(c)'
    OBVIOUS
  <2>1. used'[c] <= Cap[c]
    <3>1. used[c] <= Cap[c] /\ used[c] \in Nat /\ Cap[c] \in Nat
      BY ResourceAssumption DEF LeaseInv, UsedOK, TypedRun
    <3>2. used'[c] <= used[c] /\ used'[c] \in Nat
      BY <1>3
    <3> QED BY <3>1, <3>2
  <2> QED BY <1>1, <1>3, <2>1 DEF UsedOK
<1> QED BY <1>4, <1>5, <1>6 DEF LeaseInv

LEMMA SpawnLease == ASSUME LeaseInv, NEW j \in Job, Spawn(j) PROVE LeaseInv'
<1>1. /\ phase = "up" /\ stage = "reserved" /\ chosen = {j}
      /\ lease' = [lease EXCEPT ![j] = "claimed"] /\ at' = [at EXCEPT ![j] = "running"]
      /\ stage' = "idle" /\ chosen' = {} /\ UNCHANGED <<phase, used>>
  BY DEF Spawn
<1>2. lease[j] = "reserved"
  BY <1>1 DEF LeaseInv, LeaseOK
<1>3. Holders' = Holders
  BY <1>1, <1>2 DEF Holders, Holds, LeaseInv, TypedRun
<1>4. TypedRun' /\ StageOK'
  BY <1>1 DEF LeaseInv, TypedRun, StageOK
<1>5. \A k \in Job : LeaseOK(k)'
  BY <1>1, <1>2 DEF LeaseInv, LeaseOK, TypedRun
<1>6. \A c \in Capacities : UsedOK(c)'
  BY <1>1, <1>3 DEF LeaseInv, UsedOK
<1> QED BY <1>4, <1>5, <1>6 DEF LeaseInv

LEMMA SettleLease ==
  ASSUME LeaseInv, NEW j \in Job, NEW place \in {"queued", "done"}, at[j] = "running",
         stage = "idle", phase \in {"up", "aborting"}, Settle(j, place),
         UNCHANGED <<phase, stage, chosen>>
  PROVE  LeaseInv'
<1>1. Release({j}) /\ at' = [at EXCEPT ![j] = place]
  BY DEF Settle
<1>2. /\ used' \in [Capacities -> Nat]
      /\ lease' \in [Job -> {"none", "reserved", "claimed", "released"}]
      /\ \A k \in Job : lease'[k] = IF k \in {j} /\ Holds(k) THEN "released" ELSE lease[k]
      /\ \A c \in Capacities : used'[c] = Load(Holders', c) /\ used'[c] <= used[c]
  BY <1>1, Released
<1>3. TypedRun' /\ StageOK'
  BY <1>1, <1>2 DEF LeaseInv, TypedRun, StageOK
<1>4. \A k \in Job : LeaseOK(k)'
  BY <1>1, <1>2 DEF LeaseInv, LeaseOK, Holds, TypedRun
<1>5. \A c \in Capacities : UsedOK(c)'
  <2> SUFFICES ASSUME NEW c \in Capacities PROVE UsedOK(c)'
    OBVIOUS
  <2>1. used'[c] <= Cap[c]
    <3>1. used[c] <= Cap[c] /\ used[c] \in Nat /\ Cap[c] \in Nat
      BY ResourceAssumption DEF LeaseInv, UsedOK, TypedRun
    <3>2. used'[c] <= used[c] /\ used'[c] \in Nat
      BY <1>2
    <3> QED BY <3>1, <3>2
  <2> QED BY <1>2, <2>1 DEF UsedOK
<1> QED BY <1>3, <1>4, <1>5 DEF LeaseInv

LEMMA StartAbortLease == ASSUME LeaseInv, StartAbort PROVE LeaseInv'
<1>1. /\ phase = "up" /\ stage = "idle" /\ Release(Running) /\ phase' = "aborting"
      /\ UNCHANGED <<stage, chosen, at>>
  BY DEF StartAbort, Idle
<1>2. Running \in SUBSET Job /\ \A k \in Job : k \in Running <=> at[k] = "running"
  BY DEF Running
<1>3. /\ used' \in [Capacities -> Nat]
      /\ lease' \in [Job -> {"none", "reserved", "claimed", "released"}]
      /\ \A k \in Job : lease'[k] = IF k \in Running /\ Holds(k) THEN "released" ELSE lease[k]
      /\ \A c \in Capacities : used'[c] = Load(Holders', c) /\ used'[c] <= used[c]
  BY <1>1, <1>2, Released
<1>4. TypedRun' /\ StageOK'
  BY <1>1, <1>3 DEF LeaseInv, TypedRun, StageOK
<1>5. \A k \in Job : LeaseOK(k)'
  BY <1>1, <1>2, <1>3 DEF LeaseInv, LeaseOK, Holds, TypedRun
<1>6. \A c \in Capacities : UsedOK(c)'
  <2> SUFFICES ASSUME NEW c \in Capacities PROVE UsedOK(c)'
    OBVIOUS
  <2>1. used'[c] <= Cap[c]
    <3>1. used[c] <= Cap[c] /\ used[c] \in Nat /\ Cap[c] \in Nat
      BY ResourceAssumption DEF LeaseInv, UsedOK, TypedRun
    <3>2. used'[c] <= used[c] /\ used'[c] \in Nat
      BY <1>3
    <3> QED BY <3>1, <3>2
  <2> QED BY <1>1, <1>3, <2>1 DEF UsedOK
<1> QED BY <1>4, <1>5, <1>6 DEF LeaseInv

LEMMA EndLease == ASSUME LeaseInv, End PROVE LeaseInv'
<1>1. /\ stage = "idle" /\ phase' = "ended" /\ UNCHANGED <<stage, chosen, at, lease, used>>
      /\ \A j \in Job : at[j] # "running"
  BY DEF End, Idle, leases, Running, LeaseInv, StageOK
<1>2. Holders' = Holders
  BY <1>1 DEF Holders, Holds
<1>3. TypedRun' /\ StageOK'
  BY <1>1 DEF LeaseInv, TypedRun, StageOK
<1>4. \A k \in Job : LeaseOK(k)'
  BY <1>1 DEF LeaseInv, LeaseOK
<1>5. \A c \in Capacities : UsedOK(c)'
  BY <1>1, <1>2 DEF LeaseInv, UsedOK
<1> QED BY <1>3, <1>4, <1>5 DEF LeaseInv

LEMMA KillLease == ASSUME LeaseInv, Kill PROVE LeaseInv'
<1>1. /\ phase' = "killed" /\ stage' = "idle" /\ chosen' = {}
      /\ at' = [j \in Job |-> IF at[j] = "running" THEN "queued" ELSE at[j]]
      /\ lease' = [j \in Job |-> "none"] /\ used' = [c \in Capacities |-> 0]
  BY DEF Kill
<1>2. Holders' = {}
  BY <1>1 DEF Holders, Holds
<1>3. TypedRun' /\ StageOK'
  BY <1>1 DEF LeaseInv, TypedRun, StageOK
<1>4. \A k \in Job : LeaseOK(k)'
  BY <1>1 DEF LeaseInv, LeaseOK
<1>5. ASSUME NEW c \in Capacities PROVE UsedOK(c)'
  <2>1. Load(Holders', c) = 0
    BY <1>2, LoadOfNone
  <2>2. used'[c] = 0 /\ 0 <= Cap[c]
    BY <1>1, ResourceAssumption
  <2> QED BY <1>1, <2>1, <2>2 DEF UsedOK
<1> QED BY <1>3, <1>4, <1>5 DEF LeaseInv

LEMMA StartLease == ASSUME LeaseInv, Start \/ StartUnloaded PROVE LeaseInv'
<1>1. /\ phase \in {"ended", "killed"} /\ phase' = "up" /\ UNCHANGED <<stage, chosen, at, lease, used>>
  BY DEF Start, StartUnloaded, leases
<1>2. Holders' = Holders /\ stage = "idle" /\ \A j \in Job : at[j] # "running"
  BY <1>1 DEF Holders, Holds, LeaseInv, StageOK
<1>3. TypedRun' /\ StageOK'
  BY <1>1, <1>2 DEF LeaseInv, TypedRun, StageOK
<1>4. \A k \in Job : LeaseOK(k)'
  BY <1>1, <1>2 DEF LeaseInv, LeaseOK
<1>5. \A c \in Capacities : UsedOK(c)'
  BY <1>1, <1>2 DEF LeaseInv, UsedOK
<1> QED BY <1>3, <1>4, <1>5 DEF LeaseInv

LEMMA LeaseInit == Init => LeaseInv
<1> SUFFICES ASSUME Init PROVE LeaseInv
  OBVIOUS
<1>1. Holders = {}
  BY DEF Init, Holders, Holds
<1>2. ASSUME NEW c \in Capacities PROVE UsedOK(c)
  <2>1. Load(Holders, c) = 0
    BY <1>1, LoadOfNone
  <2> QED BY <2>1, ResourceAssumption DEF UsedOK, Init
<1>3. TypedRun /\ StageOK /\ \A j \in Job : LeaseOK(j)
  BY DEF Init, TypedRun, StageOK, LeaseOK
<1> QED BY <1>2, <1>3 DEF LeaseInv

LEMMA LeaseStep == LeaseInv /\ [Next]_vars => LeaseInv'
<1> SUFFICES ASSUME LeaseInv, [Next]_vars PROVE LeaseInv'
  OBVIOUS
<1>1. ASSUME NEW j \in Job, Ask(j) PROVE LeaseInv'
  BY <1>1, LeaseSame DEF Ask
<1>2. ASSUME NEW j \in Job, Complete(j) \/ SettleAborted(j) PROVE LeaseInv'
  <2>1. /\ at[j] = "running" /\ phase \in {"up", "aborting"} /\ UNCHANGED <<phase, stage, chosen>>
        /\ \E place \in {"queued", "done"} : Settle(j, place)
    BY <1>2 DEF Complete, SettleAborted, Idle
  <2>2. stage = "idle"
    BY <1>2 DEF Complete, SettleAborted, Idle, LeaseInv, StageOK
  <2> QED BY <2>1, <2>2, SettleLease
<1>3. CASE Tick \/ SetClock \/ UNCHANGED vars
  BY <1>3, LeaseSame DEF Tick, SetClock, vars, leases
<1> QED BY <1>1, <1>2, <1>3, ChooseLease, ArchiveLease, DrainLease, ReserveLease, SpawnFailsLease,
       SpawnLease, StartAbortLease, EndLease, KillLease, StartLease DEF Next

LEMMA LeaseInvariant == Spec => []LeaseInv
  BY LeaseInit, LeaseStep, PTL DEF Spec

\* The accounts of the capacities are right through failing spawns, retries, aborts and
\* second runs, for any jobs and needs (reserve, claim, release, release_all).
THEOREM CapacityKeptHolds == Spec => []CapacityKept
<1>1. LeaseInv => CapacityKept
  <2> SUFFICES ASSUME LeaseInv PROVE CapacityKept
    OBVIOUS
  <2>1. ASSUME phase = "up", NEW c \in Capacities PROVE Load(Running, c) <= Cap[c]
    <3>1. Running \in SUBSET Holders /\ Holders \in SUBSET Job
      BY <2>1 DEF Running, Holders, Holds, LeaseInv, LeaseOK
    <3>2. /\ Load(Holders, c) \in Nat /\ Load(Running, c) \in Nat /\ Load(Holders \ Running, c) \in Nat
          /\ Load(Holders \ Running, c) = Load(Holders, c) - Load(Running, c)
      BY <3>1, LoadOfPart
    <3>3. Load(Holders, c) <= Cap[c] /\ Cap[c] \in Nat
      BY ResourceAssumption DEF LeaseInv, UsedOK
    <3> QED BY <3>2, <3>3
  <2>2. ASSUME Running = {}, chosen = {}, NEW c \in Capacities PROVE used[c] = 0
    <3>1. Holders = {}
      BY <2>2 DEF Running, Holders, Holds, LeaseInv, LeaseOK
    <3>2. Load(Holders, c) = 0
      BY <3>1, LoadOfNone
    <3> QED BY <3>2 DEF LeaseInv, UsedOK
  <2> QED BY <2>1, <2>2 DEF CapacityKept, NeverOversubscribed, NothingLeaks
<1> QED BY <1>1, LeaseInvariant, PTL
-----------------------------------------------------------------------------
(* What suspend and persist compute.                                        *)

LEMMA ClampBounds ==
  ASSUME NEW s \in Nat
  PROVE  /\ Clamp(s) \in Nat /\ Clamp(s) <= MaxSuspend
         /\ \A t \in Nat : t <= s /\ t <= MaxSuspend => t <= Clamp(s)
  BY ResourceAssumption DEF Clamp

\* The latest of a deadline and of what the signals for r ask for.
Latest(d, sigs, r) == Max({d} \cup {now + Clamp(s[2]) : s \in {q \in sigs : q[1] = r}})

LEMMA LatestBounds ==
  ASSUME now \in Nat, NEW d \in Nat, NEW sigs, sigs \subseteq Names \X Nat, NEW r
  PROVE  /\ Latest(d, sigs, r) \in Nat /\ Latest(d, sigs, r) >= d
         /\ \A s \in sigs : s[1] = r => Latest(d, sigs, r) >= now + Clamp(s[2])
         /\ Latest(d, sigs, r) = d \/ \E s \in sigs : s[1] = r /\ Latest(d, sigs, r) = now + Clamp(s[2])
<1> DEFINE S == {d} \cup {now + Clamp(s[2]) : s \in {q \in sigs : q[1] = r}}
<1>1. \A s \in sigs : s[2] \in Nat /\ Clamp(s[2]) \in Nat /\ Clamp(s[2]) <= MaxSuspend
  BY ClampBounds
<1>2. MaxSuspend \in Nat
  BY ResourceAssumption
<1>3. S \in SUBSET Nat /\ S # {} /\ d + now + MaxSuspend \in Nat
  BY <1>1, <1>2
<1>4. \A x \in S : x <= d + now + MaxSuspend
  BY <1>1, <1>2
<1>5. Max(S) \in S /\ \A x \in S : Max(S) >= x
  <2> HIDE DEF S
  <2> QED BY <1>3, <1>4, MaxBounded
<1>6. Latest(d, sigs, r) = Max(S)
  BY DEF Latest
<1>7. PICK m : m = Max(S)
  OBVIOUS
<1>8. m \in S /\ \A x \in S : m >= x
  BY <1>5, <1>7
<1>9. m \in Nat /\ m >= d /\ \A s \in sigs : s[1] = r => m >= now + Clamp(s[2])
  BY <1>3, <1>8
<1>10. m = d \/ \E s \in sigs : s[1] = r /\ m = now + Clamp(s[2])
  BY <1>8
<1> QED BY <1>6, <1>7, <1>9, <1>10

\* A suspension is never shortened, and the latest stands within the limit.
LEMMA SuspendedBounds ==
  ASSUME now \in Nat, until \in [Names -> Nat], NEW sigs, sigs \subseteq Names \X Nat
  PROVE  /\ Suspended(sigs) \in [Names -> Nat]
         /\ \A r \in Names :
              /\ Suspended(sigs)[r] >= until[r]
              /\ \A s \in sigs : s[1] = r => Suspended(sigs)[r] >= now + Clamp(s[2])
              /\ until[r] <= now + MaxSuspend => Suspended(sigs)[r] <= now + MaxSuspend
<1>1. /\ \A r \in Names : Suspended(sigs)[r] = Latest(until[r], sigs, r)
      /\ Suspended(sigs) = [r \in Names |-> Latest(until[r], sigs, r)]
  BY DEF Suspended, Latest
<1>2. ASSUME NEW r \in Names
      PROVE  /\ Suspended(sigs)[r] \in Nat /\ Suspended(sigs)[r] >= until[r]
             /\ \A s \in sigs : s[1] = r => Suspended(sigs)[r] >= now + Clamp(s[2])
             /\ until[r] <= now + MaxSuspend => Suspended(sigs)[r] <= now + MaxSuspend
  <2>1. PICK l : l = Latest(until[r], sigs, r)
    OBVIOUS
  <2>2. /\ l \in Nat /\ l >= until[r]
        /\ \A s \in sigs : s[1] = r => l >= now + Clamp(s[2])
        /\ l = until[r] \/ \E s \in sigs : s[1] = r /\ l = now + Clamp(s[2])
    BY <2>1, LatestBounds
  <2>3. until[r] <= now + MaxSuspend => l <= now + MaxSuspend
    <3>1. \A s \in sigs : Clamp(s[2]) \in Nat /\ Clamp(s[2]) <= MaxSuspend
      BY ClampBounds
    <3> QED BY <2>2, <3>1, ResourceAssumption
  <2> QED BY <1>1, <2>1, <2>2, <2>3
<1>3. Suspended(sigs) \in [Names -> Nat]
  BY <1>1, <1>2
<1> QED BY <1>2, <1>3

TypedStore == owed \in [Names -> Nat] /\ DOMAIN saved \subseteq Names /\ \A r \in DOMAIN saved : saved[r] \in Nat

LEMMA PersistTypes ==
  ASSUME TypedTime, NEW d \in [Names -> Nat], Persist(d) PROVE TypedStore'
<1>1. now \in Nat /\ skew \in Nat
  BY ResourceAssumption DEF TypedTime
<1>2. CASE UNCHANGED <<saved, owed>>
  BY <1>2 DEF TypedTime, TypedStore
<1>3. CASE /\ saved' = Collected(d)
           /\ owed' = [r \in Names |-> IF d[r] > now THEN Max({owed[r], d[r]}) ELSE owed[r]]
  <2>1. DOMAIN saved' \subseteq Names /\ \A r \in DOMAIN saved' : saved'[r] \in Nat
    BY <1>1, <1>3 DEF Collected, Wall
  <2>2. ASSUME NEW r \in Names PROVE Max({owed[r], d[r]}) \in Nat /\ owed[r] \in Nat
    <3>1. owed[r] \in Nat /\ d[r] \in Nat
      BY DEF TypedTime
    <3> QED BY <3>1, MaxOfTwo
  <2>3. owed' \in [Names -> Nat]
    BY <1>3, <2>2
  <2> QED BY <2>1, <2>3 DEF TypedStore
<1> QED BY <1>2, <1>3 DEF Persist

\* After a save, what is owed is in force and on disk.
LEMMA PersistKeeps ==
  ASSUME TypedTime, NEW d \in [Names -> Nat], Persist(d), NEW r \in Names, TimeOK(r), phase # "killed",
         d[r] >= until[r], d[r] <= now + MaxSuspend
  PROVE  /\ owed'[r] > now => d[r] >= owed'[r]
         /\ owed'[r] > now => r \in DOMAIN saved' /\ saved'[r] >= owed'[r] + skew
         /\ owed'[r] <= now + MaxSuspend
<1>1. now \in Nat /\ skew \in Nat /\ owed[r] \in Nat /\ until[r] \in Nat /\ d[r] \in Nat /\ MaxSuspend \in Nat
  BY ResourceAssumption DEF TypedTime
<1>2. /\ owed[r] > now => until[r] >= owed[r] /\ r \in DOMAIN saved /\ saved[r] >= owed[r] + skew
      /\ owed[r] <= now + MaxSuspend
  BY DEF TimeOK
<1>3. CASE UNCHANGED <<saved, owed>>
  BY <1>1, <1>2, <1>3
<1>4. CASE /\ saved' = Collected(d)
           /\ owed' = [q \in Names |-> IF d[q] > now THEN Max({owed[q], d[q]}) ELSE owed[q]]
  <2>1. Max({owed[r], d[r]}) = IF owed[r] >= d[r] THEN owed[r] ELSE d[r]
    BY <1>1, MaxOfTwo
  <2>2. owed'[r] = IF d[r] > now THEN (IF owed[r] >= d[r] THEN owed[r] ELSE d[r]) ELSE owed[r]
    BY <1>4, <2>1
  <2>3. d[r] > now => r \in DOMAIN saved' /\ saved'[r] = now + skew + (d[r] - now)
    BY <1>4 DEF Collected, Wall
  <2> QED BY <1>1, <1>2, <2>2, <2>3
<1> QED BY <1>3, <1>4 DEF Persist

LEMMA SignalsAreSeconds == ASSUME NEW sigs, sigs \subseteq Signals PROVE sigs \subseteq Names \X Nat
<1>1. Requests \subseteq Nat
  BY ResourceAssumption
<1> QED BY <1>1 DEF Signals

LEMMA TimesAreNumbers == TypedTime => now \in Nat /\ skew \in Nat
  BY ResourceAssumption DEF TypedTime

LEMMA ApplyTypes ==
  ASSUME TypedTime, NEW sigs, NEW first, first \subseteq sigs, sigs \subseteq Signals, Apply(sigs, first)
  PROVE  until' \in [Names -> Nat] /\ due' \in [Names -> Nat] /\ TypedStore'
<1>1. now \in Nat /\ sigs \subseteq Names \X Nat /\ first \subseteq Names \X Nat
  BY SignalsAreSeconds, TimesAreNumbers DEF TypedTime
<1>2. until' \in [Names -> Nat]
  BY <1>1, SuspendedBounds DEF Apply, TypedTime
<1>3. ASSUME NEW r \in Names PROVE Latest(due[r], first, r) \in Nat
  BY <1>1, LatestBounds DEF TypedTime
<1>4. due' = [r \in Names |-> Latest(due[r], first, r)]
  BY DEF Apply, Latest
<1>5. due' \in [Names -> Nat]
  BY <1>3, <1>4
<1>6. TypedStore'
  <2>1. CASE sigs = {}
    BY <2>1 DEF Apply, TypedTime, TypedStore
  <2>2. CASE sigs # {}
    BY <1>2, <2>2, PersistTypes DEF Apply
  <2> QED BY <2>1, <2>2
<1> QED BY <1>2, <1>5, <1>6

LEMMA ApplyKeeps ==
  ASSUME TypedTime, NEW sigs, NEW first, first \subseteq sigs, sigs \subseteq Signals, Apply(sigs, first),
         NEW r \in Names, TimeOK(r), phase # "killed", phase' # "killed", UNCHANGED clocks
  PROVE  TimeOK(r)'
<1>1. now \in Nat /\ sigs \subseteq Names \X Nat /\ first \subseteq Names \X Nat
  BY SignalsAreSeconds, TimesAreNumbers DEF TypedTime
<1>2. /\ until' \in [Names -> Nat] /\ until'[r] >= until[r]
      /\ \A s \in sigs : s[1] = r => until'[r] >= now + Clamp(s[2])
      /\ until[r] <= now + MaxSuspend => until'[r] <= now + MaxSuspend
  BY <1>1, SuspendedBounds DEF Apply, TypedTime
<1>3. until[r] \in Nat /\ until'[r] \in Nat /\ owed[r] \in Nat /\ due[r] \in Nat /\ MaxSuspend \in Nat
  BY <1>2, ResourceAssumption DEF TypedTime
<1>4. until'[r] <= now + MaxSuspend
  BY <1>2 DEF TimeOK
<1>5. due'[r] > now => until'[r] >= due'[r]
  <2>1. due'[r] = Latest(due[r], first, r)
    BY DEF Apply, Latest
  <2>2. due'[r] = due[r] \/ \E s \in first : s[1] = r /\ due'[r] = now + Clamp(s[2])
    BY <1>1, <1>3, <2>1, LatestBounds
  <2>3. CASE due'[r] = due[r]
    BY <1>1, <1>2, <1>3, <2>3 DEF TimeOK
  <2>4. CASE \E s \in first : s[1] = r /\ due'[r] = now + Clamp(s[2])
    BY <1>2, <2>4
  <2> QED BY <2>2, <2>3, <2>4
<1>6. /\ owed'[r] > now => until'[r] >= owed'[r]
      /\ owed'[r] > now => r \in DOMAIN saved' /\ saved'[r] >= owed'[r] + skew
      /\ owed'[r] <= now + MaxSuspend
  <2>1. CASE sigs = {}
    <3>1. UNCHANGED <<saved, owed>>
      BY <2>1 DEF Apply
    <3>2. /\ owed[r] > now => until[r] >= owed[r] /\ r \in DOMAIN saved /\ saved[r] >= owed[r] + skew
          /\ owed[r] <= now + MaxSuspend
      BY DEF TimeOK
    <3> QED BY <1>1, <1>2, <1>3, <3>1, <3>2
  <2>2. CASE sigs # {}
    <3>1. Persist(until')
      BY <2>2 DEF Apply
    <3> QED BY <1>2, <1>4, <3>1, PersistKeeps
  <2> QED BY <2>1, <2>2
<1> QED BY <1>4, <1>5, <1>6 DEF TimeOK, clocks
-----------------------------------------------------------------------------
(* Types.                                                                   *)

TypedInv == TypedTime /\ TypedSignals

\* What the signals of some jobs together are.
LEMMA PipesTyped ==
  ASSUME TypedSignals, NEW js \in SUBSET Job PROVE UNION {inPipe[j] : j \in js} \subseteq Signals
  BY DEF TypedSignals

LEMMA AppliedTypes ==
  ASSUME TypedTime, NEW sigs, NEW first, first \subseteq sigs, sigs \subseteq Signals, Apply(sigs, first),
         UNCHANGED clocks
  PROVE  TypedTime'
  BY ApplyTypes DEF TypedTime, TypedStore, clocks

LEMMA SettleTypes ==
  ASSUME TypedInv, NEW j \in Job, NEW place, Settle(j, place), UNCHANGED clocks
  PROVE  TypedInv'
<1>1. asked[j] \subseteq Signals /\ inPipe[j] \subseteq asked[j] /\ inPipe[j] \subseteq Signals
  BY DEF TypedInv, TypedSignals
<1>2. Apply(asked[j], inPipe[j]) \/ Apply(inPipe[j], inPipe[j])
  BY DEF Settle
<1>3. TypedTime'
  BY <1>1, <1>2, AppliedTypes DEF TypedInv
<1>4. TypedSignals'
  BY DEF Settle, TypedInv, TypedSignals
<1> QED BY <1>3, <1>4 DEF TypedInv

LEMMA SpawnTypes == ASSUME TypedInv, NEW j \in Job, Spawn(j) PROVE TypedInv'
<1>1. /\ until' = Claimed(j) /\ due' = [r \in Names |-> Max({due[r], Claimed(j)[r]})]
      /\ inPipe' = [inPipe EXCEPT ![j] = {}] /\ asked' = [asked EXCEPT ![j] = {}]
      /\ UNCHANGED <<now, skew, saved, owed>>
  BY DEF Spawn, clocks
<1>2. ASSUME NEW r \in Names PROVE Claimed(j)[r] \in Nat
  <2>1. CASE r \in DOMAIN Needs[j] \cap Rates
    <3>1. now \in Nat /\ until[r] \in Nat
      BY TimesAreNumbers DEF TypedInv, TypedTime
    <3>2. PICK m \in Nat : m = Max({now, until[r]})
      BY <3>1, MaxOfTwo
    <3>3. PICK i \in Nat, n \in Nat : i = Interval[r] /\ n = Needs[j][r]
      BY <2>1, ResourceAssumption
    <3>4. i * n \in Nat
      OBVIOUS
    <3>5. m + i * n \in Nat
      BY <3>4
    <3> QED BY <2>1, <3>2, <3>3, <3>5 DEF Claimed
  <2>2. CASE r \notin DOMAIN Needs[j] \cap Rates
    BY <2>2 DEF Claimed, TypedInv, TypedTime
  <2> QED BY <2>1, <2>2
<1>3. Claimed(j) \in [Names -> Nat]
  <2>1. \E f : Claimed(j) = [r \in Names |-> f[r]]
    <3> DEFINE f == [r \in Names |-> Claimed(j)[r]]
    <3>1. Claimed(j) = [r \in Names |-> f[r]]
      BY DEF Claimed
    <3> QED BY <3>1
  <2> QED BY <1>2, <2>1
<1>4. ASSUME NEW r \in Names PROVE Max({due[r], Claimed(j)[r]}) \in Nat
  <2>1. PICK a \in Nat, b \in Nat : a = due[r] /\ b = Claimed(j)[r]
    BY <1>2 DEF TypedInv, TypedTime
  <2>2. Max({a, b}) \in Nat
    BY MaxOfTwo
  <2> QED BY <2>1, <2>2
<1>5. TypedTime'
  <2>1. due' \in [Names -> Nat]
    BY <1>1, <1>4
  <2> QED BY <1>1, <1>3, <2>1 DEF TypedInv, TypedTime
<1>6. TypedSignals'
  BY <1>1 DEF TypedInv, TypedSignals
<1> QED BY <1>5, <1>6 DEF TypedInv

LEMMA RestoredTyped == ASSUME TypedTime PROVE Restored \subseteq Names \X Nat
<1>1. now \in Nat /\ skew \in Nat
  BY TimesAreNumbers
<1>2. \A q \in DOMAIN saved : q \in Names /\ saved[q] \in Nat
  BY DEF TypedTime
<1> QED BY <1>1, <1>2 DEF Restored, Wall

LEMMA StartTypes == ASSUME TypedInv, Start PROVE TypedInv'
<1>1. until' = Suspended(Restored) /\ UNCHANGED <<now, skew, saved, inPipe, asked, owed, due>>
  BY DEF Start, clocks
<1>2. until' \in [Names -> Nat]
  BY <1>1, RestoredTyped, TimesAreNumbers, SuspendedBounds DEF TypedInv, TypedTime
<1> QED BY <1>1, <1>2 DEF TypedInv, TypedTime, TypedSignals

LEMMA StartUnloadedTypes == ASSUME TypedInv, StartUnloaded PROVE TypedInv'
<1>1. /\ UNCHANGED <<now, skew, saved, until, inPipe, asked>>
      /\ owed' \in {owed, [r \in Names |-> 0]} /\ due' \in {due, [r \in Names |-> 0]}
  BY DEF StartUnloaded, clocks
<1>2. owed' \in [Names -> Nat] /\ due' \in [Names -> Nat]
  BY <1>1 DEF TypedInv, TypedTime
<1> QED BY <1>1, <1>2 DEF TypedInv, TypedTime, TypedSignals

LEMMA SetClockOwed ==
  ASSUME TypedTime, SetClock, NEW r \in Names
  PROVE  /\ owed'[r] \in Nat /\ owed'[r] <= owed[r] /\ skew' \in Nat /\ skew' \in 0..MaxSkew
         /\ owed'[r] > 0 => owed'[r] + skew' <= owed[r] + skew
<1>1. skew' \in 0..MaxSkew
  BY DEF SetClock
<1>2. PICK a \in Nat, b \in Nat, e \in Nat : a = skew' /\ b = skew /\ e = owed[r]
  BY <1>1, ResourceAssumption DEF TypedTime
<1>3. owed'[r] = Max({0, e - Max({0, a - b})})
  BY <1>2 DEF SetClock
<1>4. PICK k \in Int : k = Max({0, a - b}) /\ k = IF 0 >= a - b THEN 0 ELSE a - b
  BY MaxOfTwo
<1>5. owed'[r] = IF 0 >= e - k THEN 0 ELSE e - k
  BY <1>3, <1>4, MaxOfTwo
<1>6. PICK f \in Nat : f = owed'[r] /\ f <= e /\ (f > 0 => f + a <= e + b)
  <2>1. PICK f : f = IF 0 >= e - k THEN 0 ELSE e - k
    OBVIOUS
  <2>2. f \in Nat /\ f <= e /\ (f > 0 => f + a <= e + b)
    BY <1>4, <2>1
  <2> QED BY <1>5, <2>1, <2>2
<1> QED BY <1>1, <1>2, <1>6

LEMMA TypedInit == Init => TypedInv
<1> SUFFICES ASSUME Init PROVE TypedInv
  OBVIOUS
<1>1. TypedTime
  BY ResourceAssumption DEF Init, TypedTime
<1>2. TypedSignals
  BY DEF Init, TypedSignals
<1> QED BY <1>1, <1>2 DEF TypedInv

LEMMA TypedStep == TypedInv /\ [Next]_vars => TypedInv'
<1> SUFFICES ASSUME TypedInv, [Next]_vars PROVE TypedInv'
  OBVIOUS
<1> USE DEF TypedInv
<1>1. ASSUME NEW j \in Job, Choose(j) \/ Archive(j) \/ Reserve(j) \/ SpawnFails(j) PROVE TypedInv'
  <2>1. UNCHANGED <<now, skew, until, saved, owed, due, inPipe, asked>>
    <3>1. CASE Choose(j) \/ Archive(j)
      BY <3>1 DEF Choose, Archive, clocks, suspensions
    <3>2. CASE Reserve(j)
      BY <3>2 DEF Reserve, clocks, suspensions
    <3>3. CASE SpawnFails(j)
      BY <3>3 DEF SpawnFails, clocks, suspensions
    <3> QED BY <1>1, <3>1, <3>2, <3>3
  <2> QED BY <2>1 DEF TypedTime, TypedSignals
<1>2. ASSUME NEW j \in Job, Ask(j) PROVE TypedInv'
  <2>1. UNCHANGED <<now, skew, until, saved, owed, due>>
    BY <1>2 DEF Ask, clocks, suspensions
  <2>2. PICK s \in Signals : /\ inPipe' = [inPipe EXCEPT ![j] = @ \cup {s}]
                             /\ asked' = [asked EXCEPT ![j] = @ \cup {s}]
    BY <1>2 DEF Ask, Signals
  <2>3. TypedSignals'
    BY <2>2 DEF TypedSignals
  <2>4. TypedTime'
    BY <2>1 DEF TypedTime
  <2> QED BY <2>3, <2>4
<1>3. ASSUME NEW j \in Job, Complete(j) \/ SettleAborted(j) PROVE TypedInv'
  BY <1>3, SettleTypes DEF Complete, SettleAborted
<1>4. CASE DrainSignals
  <2>1. Running \in SUBSET Job
    BY DEF Running
  <2>2. TypedTime'
    BY <1>4, <2>1, PipesTyped, AppliedTypes DEF DrainSignals
  <2>3. TypedSignals'
    BY <1>4 DEF DrainSignals, TypedSignals
  <2> QED BY <2>2, <2>3
<1>5. CASE StartAbort
  <2>1. Running \in SUBSET Job
    BY DEF Running
  <2>2. TypedTime'
    BY <1>5, <2>1, PipesTyped, AppliedTypes DEF StartAbort
  <2>3. TypedSignals'
    BY <1>5 DEF StartAbort, TypedSignals
  <2> QED BY <2>2, <2>3
<1>6. CASE End
  <2>1. TypedStore'
    BY <1>6, PersistTypes DEF End, TypedTime
  <2> QED BY <1>6, <2>1 DEF End, TypedStore, TypedTime, TypedSignals, clocks
<1>7. CASE Kill
  <2>1. until' = [r \in Names |-> IF r \in Rates THEN now ELSE 0] /\ now \in Nat
    BY <1>7, TimesAreNumbers DEF Kill
  <2>2. until' \in [Names -> Nat]
    BY <2>1
  <2> QED BY <1>7, <2>2 DEF Kill, TypedTime, TypedSignals, clocks
<1>8. CASE Tick
  <2>1. now' \in 0..MaxTime
    BY <1>8, ResourceAssumption DEF Tick, TypedTime
  <2> QED BY <1>8, <2>1 DEF Tick, TypedTime, TypedSignals, suspensions
<1>9. CASE SetClock
  <2>1. \A r \in Names : owed'[r] \in Nat
    BY <1>9, SetClockOwed
  <2>2. owed' \in [Names -> Nat] /\ due' \in [Names -> Nat]
    BY <1>9, <2>1 DEF SetClock
  <2> QED BY <1>9, <2>2 DEF SetClock, TypedTime, TypedSignals
<1>10. CASE UNCHANGED vars
  BY <1>10 DEF vars, TypedTime, TypedSignals
<1> QED BY <1>1, <1>2, <1>3, <1>4, <1>5, <1>6, <1>7, <1>8, <1>9, <1>10, SpawnTypes, StartTypes,
       StartUnloadedTypes DEF Next

LEMMA TypedInvariant == Spec => []TypedInv
  BY TypedInit, TypedStep, PTL DEF Spec

\* The types of the resources' state, whatever their limits and needs.
THEOREM ResourceTypes == Spec => []TypeOK
<1>1. LeaseInv /\ TypedInv => TypeOK
  <2> SUFFICES ASSUME LeaseInv, TypedInv PROVE TypeOK
    OBVIOUS
  <2>1. chosen \subseteq Job /\ Cardinality(chosen) = IF stage = "idle" THEN 0 ELSE 1
    <3>1. CASE stage = "idle"
      BY <3>1, FS_EmptySet DEF LeaseInv, StageOK
    <3>2. CASE stage # "idle"
      BY <3>2, FS_Singleton DEF LeaseInv, StageOK
    <3> QED BY <3>1, <3>2
  <2>2. \A j \in Job : inPipe[j] \subseteq asked[j] /\ asked[j] \subseteq Names \X Requests
    BY DEF TypedInv, TypedSignals, Signals
  <2> QED BY <2>1, <2>2 DEF TypeOK, LeaseInv, TypedRun, TypedInv, TypedTime
<1> QED BY <1>1, LeaseInvariant, TypedInvariant, PTL
-----------------------------------------------------------------------------
(* Suspensions.                                                             *)

LEMMA TimeNumbers ==
  ASSUME TypedInv, NEW r \in Names
  PROVE  /\ now \in Nat /\ skew \in Nat /\ MaxSuspend \in Nat
         /\ until[r] \in Nat /\ owed[r] \in Nat /\ due[r] \in Nat
<1>1. MaxSuspend \in Nat /\ now \in Nat /\ skew \in Nat
  BY ResourceAssumption, TimesAreNumbers DEF TypedInv
<1> QED BY <1>1 DEF TypedInv, TypedTime

LEMMA TimeSame ==
  ASSUME TimeInv, UNCHANGED <<now, skew, phase, until, saved, owed, due>>, RatesOK' PROVE TimeInv'
  BY DEF TimeInv, TimeOK

LEMMA ReserveTime == ASSUME TypedInv, TimeInv, NEW j \in Job, Reserve(j) PROVE TimeInv'
<1>1. /\ chosen = {j} /\ UNCHANGED <<now, skew, phase, until, saved, owed, due>>
      /\ \/ stage' = "reserved" /\ chosen' = chosen /\ \A r \in DOMAIN Needs[j] \cap Rates : RateFree(r)
         \/ stage' = "idle"
  BY DEF Reserve, clocks, suspensions
<1>2. \A r \in Names : until[r] \in Nat /\ now \in Nat
  BY TimeNumbers
<1>3. RatesOK'
  <2> SUFFICES ASSUME stage' = "reserved", NEW r \in DOMAIN Needs[j] \cap Rates PROVE until[r] <= now
    BY <1>1 DEF RatesOK
  <2>1. now >= until[r]
    BY <1>1 DEF RateFree
  <2> QED BY <1>2, <2>1 DEF Names
<1> QED BY <1>1, <1>3, TimeSame

LEMMA SpawnTime ==
  ASSUME SlicesWithinLimit, TypedInv, TimeInv, NEW j \in Job, Spawn(j) PROVE TimeInv'
<1>1. /\ phase = "up" /\ stage = "reserved" /\ chosen = {j} /\ until' = Claimed(j) /\ stage' = "idle"
      /\ due' = [r \in Names |-> Max({due[r], Claimed(j)[r]})]
      /\ UNCHANGED <<now, skew, phase, saved, owed>>
  BY DEF Spawn, clocks
<1>2. RatesOK'
  BY <1>1 DEF RatesOK
<1>3. ASSUME NEW r \in Names PROVE TimeOK(r)'
  <2>1. /\ now \in Nat /\ skew \in Nat /\ MaxSuspend \in Nat
        /\ until[r] \in Nat /\ owed[r] \in Nat /\ due[r] \in Nat
    BY TimeNumbers
  <2>2. until'[r] \in Nat /\ until'[r] >= until[r] /\ until'[r] <= now + MaxSuspend
    <3>1. CASE r \in DOMAIN Needs[j] \cap Rates
      <4>1. until[r] <= now
        BY <1>1, <3>1 DEF TimeInv, RatesOK
      <4>2. Max({now, until[r]}) = now
        <5>1. Max({now, until[r]}) = IF now >= until[r] THEN now ELSE until[r]
          BY <2>1, MaxOfTwo
        <5> QED BY <2>1, <4>1, <5>1
      <4>3. PICK i \in Nat, n \in Nat : i = Interval[r] /\ n = Needs[j][r]
        BY <3>1, ResourceAssumption
      <4>4. PICK m \in Nat : m = i * n
        OBVIOUS
      <4>5. m <= MaxSuspend
        <5>1. Interval[r] * Amount(j, r) <= MaxSuspend
          BY <3>1 DEF SlicesWithinLimit
        <5> QED BY <3>1, <4>3, <4>4, <5>1 DEF Amount
      <4>6. until'[r] = now + m
        BY <1>1, <3>1, <4>2, <4>3, <4>4 DEF Claimed
      <4> QED BY <2>1, <4>1, <4>5, <4>6
    <3>2. CASE r \notin DOMAIN Needs[j] \cap Rates
      <4>1. until'[r] = until[r]
        BY <1>1, <3>2 DEF Claimed
      <4> QED BY <2>1, <4>1 DEF TimeInv, TimeOK
    <3> QED BY <3>1, <3>2
  <2>3. due'[r] = IF due[r] >= until'[r] THEN due[r] ELSE until'[r]
    <3>1. due'[r] = Max({due[r], until'[r]})
      BY <1>1
    <3> QED BY <2>1, <2>2, <3>1, MaxOfTwo
  <2>4. /\ owed[r] > now => until[r] >= owed[r]
        /\ due[r] > now => until[r] >= due[r]
    BY <1>1 DEF TimeInv, TimeOK
  <2>5. owed[r] > now => until'[r] >= owed[r]
    BY <2>1, <2>2, <2>4
  <2>6. due'[r] > now => until'[r] >= due'[r]
    BY <2>1, <2>2, <2>3, <2>4
  <2> QED BY <1>1, <2>2, <2>5, <2>6 DEF TimeInv, TimeOK
<1> QED BY <1>2, <1>3 DEF TimeInv

\* Applying signals keeps the times, wherever it is done.
LEMMA ApplyTime ==
  ASSUME TypedInv, TimeInv, NEW sigs, NEW first, first \subseteq sigs, sigs \subseteq Signals, Apply(sigs, first),
         phase # "killed", phase' # "killed", stage' # "reserved", UNCHANGED clocks
  PROVE  TimeInv'
<1>1. \A r \in Names : TimeOK(r)'
  BY ApplyKeeps DEF TypedInv, TimeInv
<1>2. RatesOK'
  BY DEF RatesOK
<1> QED BY <1>1, <1>2 DEF TimeInv

LEMMA SettleTime ==
  ASSUME TypedInv, TimeInv, NEW j \in Job, NEW place, Settle(j, place), phase # "killed",
         stage # "reserved", UNCHANGED <<clocks, phase, stage>>
  PROVE  TimeInv'
<1>1. asked[j] \subseteq Signals /\ inPipe[j] \subseteq asked[j] /\ inPipe[j] \subseteq Signals
  BY DEF TypedInv, TypedSignals
<1>2. Apply(asked[j], inPipe[j]) \/ Apply(inPipe[j], inPipe[j])
  BY DEF Settle
<1> QED BY <1>1, <1>2, ApplyTime

LEMMA EndTime == ASSUME LeaseInv, TypedInv, TimeInv, End PROVE TimeInv'
<1>1. /\ phase # "killed" /\ phase' = "ended" /\ stage' # "reserved" /\ Persist(until)
      /\ UNCHANGED <<now, skew, until, due>>
  BY DEF End, Idle, clocks, LeaseInv, StageOK
<1>2. RatesOK'
  BY <1>1 DEF RatesOK
<1>3. ASSUME NEW r \in Names PROVE TimeOK(r)'
  <2>1. TypedTime /\ until \in [Names -> Nat] /\ TimeOK(r)
    BY DEF TypedInv, TypedTime, TimeInv
  <2>2. until[r] >= until[r] /\ until[r] <= now + MaxSuspend
    BY <2>1 DEF TimeOK
  <2>3. /\ owed'[r] > now => until[r] >= owed'[r]
        /\ owed'[r] > now => r \in DOMAIN saved' /\ saved'[r] >= owed'[r] + skew
        /\ owed'[r] <= now + MaxSuspend
    BY <1>1, <2>1, <2>2, PersistKeeps
  <2> QED BY <1>1, <2>1, <2>3 DEF TimeOK
<1> QED BY <1>2, <1>3 DEF TimeInv

LEMMA KillTime == ASSUME TypedInv, TimeInv, Kill PROVE TimeInv'
<1>1. /\ phase' = "killed" /\ stage' = "idle" /\ due' = owed /\ UNCHANGED <<now, skew, saved, owed>>
      /\ until' = [r \in Names |-> IF r \in Rates THEN now ELSE 0]
  BY DEF Kill, clocks
<1>2. RatesOK'
  BY <1>1 DEF RatesOK
<1>3. ASSUME NEW r \in Names PROVE TimeOK(r)'
  <2>1. now \in Nat /\ MaxSuspend \in Nat
    BY TimeNumbers
  <2>2. until'[r] <= now + MaxSuspend
    BY <1>1, <2>1
  <2> QED BY <1>1, <2>2 DEF TimeInv, TimeOK
<1> QED BY <1>2, <1>3 DEF TimeInv

LEMMA StartTime == ASSUME LeaseInv, TypedInv, TimeInv, Start PROVE TimeInv'
<1>1. /\ phase \in {"ended", "killed"} /\ phase' = "up" /\ until' = Suspended(Restored)
      /\ UNCHANGED <<now, skew, stage, saved, owed, due>>
  BY DEF Start, clocks
<1>2. RatesOK'
  BY <1>1 DEF RatesOK, LeaseInv, StageOK
<1>3. ASSUME NEW r \in Names PROVE TimeOK(r)'
  <2>1. /\ now \in Nat /\ skew \in Nat /\ MaxSuspend \in Nat
        /\ until[r] \in Nat /\ owed[r] \in Nat /\ due[r] \in Nat
    BY TimeNumbers
  <2>2. /\ until' \in [Names -> Nat] /\ until'[r] >= until[r]
        /\ \A s \in Restored : s[1] = r => until'[r] >= now + Clamp(s[2])
        /\ until[r] <= now + MaxSuspend => until'[r] <= now + MaxSuspend
    BY <1>1, <2>1, RestoredTyped, SuspendedBounds DEF TypedInv, TypedTime
  <2>3. until'[r] \in Nat
    BY <2>2
  <2>4. owed[r] > now => until'[r] >= owed[r]
    <3> SUFFICES ASSUME owed[r] > now PROVE until'[r] >= owed[r]
      OBVIOUS
    <3>1. r \in DOMAIN saved /\ saved[r] >= owed[r] + skew /\ owed[r] <= now + MaxSuspend
      BY DEF TimeInv, TimeOK
    <3>2. saved[r] \in Nat
      BY <3>1 DEF TypedInv, TypedTime
    <3>3. PICK t \in Nat : t = saved[r] - (now + skew)
      BY <2>1, <3>1, <3>2
    <3>4. <<r, t>> \in Restored
      <4>1. saved[r] > Wall /\ t = saved[r] - Wall
        BY <2>1, <3>1, <3>2, <3>3 DEF Wall
      <4> QED BY <3>1, <4>1 DEF Restored
    <3>5. until'[r] >= now + Clamp(t)
      BY <2>2, <3>4
    <3>6. PICK w \in Nat : w = owed[r] - now
      BY <2>1
    <3>7. w <= t /\ w <= MaxSuspend
      BY <2>1, <3>1, <3>2, <3>3, <3>6
    <3>8. w <= Clamp(t) /\ Clamp(t) \in Nat
      BY <3>7, ClampBounds
    <3> QED BY <2>1, <2>3, <3>5, <3>6, <3>8
  <2>5. due[r] > now => until'[r] >= due[r]
    <3>1. CASE phase = "ended"
      <4>1. due[r] > now => until[r] >= due[r]
        BY <3>1 DEF TimeInv, TimeOK
      <4> QED BY <2>1, <2>2, <2>3, <4>1
    <3>2. CASE phase = "killed"
      <4>1. due[r] = owed[r]
        BY <3>2 DEF TimeInv, TimeOK
      <4> QED BY <2>4, <4>1
    <3> QED BY <1>1, <3>1, <3>2
  <2> QED BY <1>1, <2>2, <2>4, <2>5 DEF TimeInv, TimeOK
<1> QED BY <1>2, <1>3 DEF TimeInv

\* Without a load the next process owes nothing.
LEMMA StartUnloadedTime == ASSUME LeaseInv, TypedInv, TimeInv, StartUnloaded PROVE TimeInv'
<1>1. /\ phase \in {"ended", "killed"} /\ phase' = "up" /\ UNCHANGED <<now, skew, stage, until, saved>>
      /\ phase = "killed" => owed' = [r \in Names |-> 0] /\ due' = [r \in Names |-> 0]
      /\ phase = "ended" => UNCHANGED <<owed, due>>
  BY DEF StartUnloaded, clocks
<1>2. RatesOK'
  BY <1>1 DEF RatesOK, LeaseInv, StageOK
<1>3. ASSUME NEW r \in Names PROVE TimeOK(r)'
  <2>1. CASE phase = "ended"
    BY <1>1, <2>1 DEF TimeInv, TimeOK
  <2>2. CASE phase = "killed"
    <3>1. owed'[r] = 0 /\ due'[r] = 0 /\ now' \in Nat /\ MaxSuspend \in Nat
      BY <1>1, <2>2, TimeNumbers
    <3> QED BY <1>1, <3>1 DEF TimeInv, TimeOK
  <2> QED BY <1>1, <2>1, <2>2
<1> QED BY <1>2, <1>3 DEF TimeInv

LEMMA TickTime == ASSUME LeaseInv, TypedInv, TimeInv, Tick PROVE TimeInv'
<1>1. now' = now + 1 /\ UNCHANGED <<skew, phase, stage, chosen, until, saved, owed, due>>
  BY DEF Tick, suspensions
<1>2. RatesOK'
  <2> SUFFICES ASSUME stage = "reserved", NEW j \in chosen, NEW r \in DOMAIN Needs[j] \cap Rates
               PROVE  until[r] <= now + 1
    BY <1>1 DEF RatesOK
  <2>1. until[r] <= now
    BY DEF TimeInv, RatesOK
  <2>2. until[r] \in Nat /\ now \in Nat
    BY TimeNumbers DEF Names
  <2> QED BY <2>1, <2>2
<1>3. ASSUME NEW r \in Names PROVE TimeOK(r)'
  <2>1. /\ now \in Nat /\ skew \in Nat /\ MaxSuspend \in Nat
        /\ until[r] \in Nat /\ owed[r] \in Nat /\ due[r] \in Nat
    BY TimeNumbers
  <2>2. /\ owed[r] > now + 1 => owed[r] > now
        /\ due[r] > now + 1 => due[r] > now
        /\ until[r] <= now + MaxSuspend => until[r] <= now + 1 + MaxSuspend
        /\ owed[r] <= now + MaxSuspend => owed[r] <= now + 1 + MaxSuspend
    BY <2>1
  <2> QED BY <1>1, <2>2 DEF TimeInv, TimeOK
<1> QED BY <1>2, <1>3 DEF TimeInv

LEMMA SetClockTime == ASSUME TypedInv, TimeInv, SetClock PROVE TimeInv'
<1>1. phase = "killed" /\ due' = owed' /\ UNCHANGED <<now, phase, stage, chosen, until, saved>>
  BY DEF SetClock
<1>2. RatesOK'
  BY <1>1 DEF TimeInv, RatesOK
<1>3. ASSUME NEW r \in Names PROVE TimeOK(r)'
  <2>1. /\ now \in Nat /\ skew \in Nat /\ MaxSuspend \in Nat
        /\ until[r] \in Nat /\ owed[r] \in Nat /\ due[r] \in Nat
    BY TimeNumbers
  <2>2. /\ owed'[r] \in Nat /\ owed'[r] <= owed[r] /\ skew' \in Nat
        /\ owed'[r] > 0 => owed'[r] + skew' <= owed[r] + skew
    BY SetClockOwed DEF TypedInv
  <2>3. owed[r] > now => r \in DOMAIN saved /\ saved[r] >= owed[r] + skew
    BY DEF TimeInv, TimeOK
  <2>4. \A q \in DOMAIN saved : saved[q] \in Nat
    BY DEF TypedInv, TypedTime
  <2>5. owed'[r] > now => r \in DOMAIN saved /\ saved[r] >= owed'[r] + skew'
    BY <2>1, <2>2, <2>3, <2>4
  <2>6. until[r] <= now + MaxSuspend /\ owed'[r] <= now + MaxSuspend
    BY <2>1, <2>2 DEF TimeInv, TimeOK
  <2> QED BY <1>1, <2>5, <2>6 DEF TimeOK
<1> QED BY <1>2, <1>3 DEF TimeInv

LEMMA TimeInit == Init => TimeInv
<1> SUFFICES ASSUME Init PROVE TimeInv
  OBVIOUS
<1>1. MaxSuspend \in Nat
  BY ResourceAssumption
<1>2. \A r \in Names : TimeOK(r)
  BY <1>1 DEF Init, TimeOK
<1> QED BY <1>2 DEF Init, TimeInv, RatesOK

LEMMA TimeStep ==
  ASSUME SlicesWithinLimit PROVE LeaseInv /\ TypedInv /\ TimeInv /\ [Next]_vars => TimeInv'
<1> SUFFICES ASSUME LeaseInv, TypedInv, TimeInv, [Next]_vars PROVE TimeInv'
  OBVIOUS
<1>1. ASSUME NEW j \in Job, Choose(j) \/ Archive(j) \/ SpawnFails(j) \/ Ask(j) PROVE TimeInv'
  <2>1. /\ UNCHANGED <<now, skew, phase, until, saved, owed, due>>
        /\ stage' # "reserved" \/ UNCHANGED <<stage, chosen>>
    <3>1. CASE Choose(j) \/ Archive(j)
      BY <3>1 DEF Choose, Archive, clocks, suspensions
    <3>2. CASE SpawnFails(j)
      BY <3>2 DEF SpawnFails, clocks, suspensions
    <3>3. CASE Ask(j)
      BY <3>3 DEF Ask, clocks, suspensions
    <3> QED BY <1>1, <3>1, <3>2, <3>3
  <2>2. RatesOK'
    BY <2>1 DEF TimeInv, RatesOK
  <2> QED BY <2>1, <2>2, TimeSame
<1>2. ASSUME NEW j \in Job, Complete(j) \/ SettleAborted(j) PROVE TimeInv'
  <2>1. /\ phase # "killed" /\ stage # "reserved" /\ UNCHANGED <<clocks, phase, stage>>
        /\ \E place \in {"queued", "done"} : Settle(j, place)
    BY <1>2 DEF Complete, SettleAborted, Idle, LeaseInv, StageOK
  <2> QED BY <2>1, SettleTime
<1>3. CASE DrainSignals
  <2>1. /\ phase = "up" /\ UNCHANGED <<clocks, phase>> /\ stage' # "reserved"
        /\ Apply(UNION {inPipe[j] : j \in Running}, UNION {inPipe[j] : j \in Running})
    BY <1>3 DEF DrainSignals
  <2>2. UNION {inPipe[j] : j \in Running} \subseteq Signals
    BY PipesTyped DEF TypedInv, Running
  <2> QED BY <2>1, <2>2, ApplyTime
<1>4. CASE StartAbort
  <2>1. /\ phase = "up" /\ phase' = "aborting" /\ UNCHANGED clocks /\ stage' # "reserved"
        /\ Apply(UNION {inPipe[j] : j \in Running}, UNION {inPipe[j] : j \in Running})
    BY <1>4 DEF StartAbort, Idle
  <2>2. UNION {inPipe[j] : j \in Running} \subseteq Signals
    BY PipesTyped DEF TypedInv, Running
  <2> QED BY <2>1, <2>2, ApplyTime
<1>5. CASE UNCHANGED vars
  <2>1. RatesOK'
    BY <1>5 DEF vars, TimeInv, RatesOK
  <2> QED BY <1>5, <2>1, TimeSame DEF vars
<1> QED BY <1>1, <1>2, <1>3, <1>4, <1>5, ReserveTime, SpawnTime, EndTime, KillTime, StartTime,
       StartUnloadedTime, TickTime, SetClockTime DEF Next

LEMMA TimeInvariant == ASSUME SlicesWithinLimit PROVE Spec => []TimeInv
<1>1. LeaseInv /\ TypedInv /\ TimeInv /\ [Next]_vars => TimeInv'
  BY TimeStep
<1> QED BY <1>1, TimeInit, LeaseInvariant, TypedInvariant, PTL DEF Spec

\* A persisted suspension stays in force across runs, kills and wall clocks set forward or
\* back, up to a load of it that fails (load_resource_suspensions), and none outlasts the
\* limit (suspend, dump_suspensions, restore_suspensions), if no time slice is longer than the limit a restored deadline is cut to.
THEOREM SuspensionsKeptHolds == ASSUME SlicesWithinLimit PROVE Spec => []SuspensionsKept
<1>1. TimeInv => SuspensionsKept
  BY DEF TimeInv, TimeOK, SuspensionsKept, SuspensionsSurvive, SuspensionsBounded, Names
<1> QED BY <1>1, TimeInvariant, PTL

\* Under the same hypothesis no job starts on a rate limit before the slices and suspensions
\* its process knows of are over, those it applied itself and those it restored (reserve,
\* claim, apply_suspend_signals, load_resource_suspensions).
THEOREM RateKeptHolds == ASSUME SlicesWithinLimit PROVE Spec => RateKept
<1> DEFINE Kept == \A j \in Job, r \in Rates : Starts(j, r) => now >= due[r] /\ now >= owed[r]
<1>1. LeaseInv /\ TypedInv /\ TimeInv /\ [Next]_vars => [Kept]_vars
  <2> SUFFICES ASSUME LeaseInv, TypedInv, TimeInv, Next, NEW j \in Job, NEW r \in Rates, Starts(j, r)
               PROVE  now >= due[r] /\ now >= owed[r]
    OBVIOUS
  <2>1. Spawn(j)
    <3>1. ASSUME NEW k \in Job,
                 Choose(k) \/ Archive(k) \/ Reserve(k) \/ SpawnFails(k) \/ Ask(k)
                   \/ Complete(k) \/ SettleAborted(k)
          PROVE  FALSE
      <4>1. UNCHANGED at \/ \E place \in {"queued", "done"} : at' = [at EXCEPT ![k] = place]
        <5>1. CASE Choose(k) \/ Archive(k)
          BY <5>1 DEF Choose, Archive, leases
        <5>2. CASE Reserve(k)
          BY <5>2 DEF Reserve
        <5>3. CASE SpawnFails(k)
          BY <5>3 DEF SpawnFails
        <5>4. CASE Ask(k)
          BY <5>4 DEF Ask, leases
        <5>5. CASE Complete(k) \/ SettleAborted(k)
          BY <5>5 DEF Complete, SettleAborted, Settle
        <5> QED BY <3>1, <5>1, <5>2, <5>3, <5>4, <5>5
      <4> QED BY <4>1 DEF Starts, LeaseInv, TypedRun
    <3>2. CASE DrainSignals \/ StartAbort \/ End \/ Kill \/ Start \/ StartUnloaded \/ Tick \/ SetClock
      <4>1. UNCHANGED at \/ at' = [k \in Job |-> IF at[k] = "running" THEN "queued" ELSE at[k]]
        BY <3>2 DEF DrainSignals, StartAbort, End, Kill, Start, StartUnloaded, Tick, SetClock, leases
      <4> QED BY <4>1 DEF Starts, LeaseInv, TypedRun
    <3>3. PICK k \in Job : Spawn(k)
      BY <3>1, <3>2 DEF Next
    <3>4. at' = [at EXCEPT ![k] = "running"]
      BY <3>3 DEF Spawn
    <3>5. k = j
      BY <3>4 DEF Starts, LeaseInv, TypedRun
    <3> QED BY <3>3, <3>5
  <2>2. stage = "reserved" /\ chosen = {j} /\ phase = "up"
    BY <2>1 DEF Spawn
  <2>3. r \in Names /\ r \in DOMAIN Needs[j]
    BY DEF Names, Starts, Amount
  <2>4. until[r] <= now
    BY <2>2, <2>3 DEF TimeInv, RatesOK
  <2>5. now \in Nat /\ until[r] \in Nat /\ owed[r] \in Nat /\ due[r] \in Nat
    BY <2>3, TimeNumbers
  <2>6. (owed[r] > now => until[r] >= owed[r]) /\ (due[r] > now => until[r] >= due[r])
    BY <2>2, <2>3 DEF TimeInv, TimeOK
  <2> QED BY <2>4, <2>5, <2>6
<1> QED BY <1>1, LeaseInvariant, TypedInvariant, TimeInvariant, PTL DEF Spec, RateKept
=============================================================================
