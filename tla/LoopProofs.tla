----------------------------- MODULE LoopProofs -----------------------------
(***************************************************************************)
(* The run loop and its deadlock governor.  The verdicts of the pump have  *)
(* grounds, skips can be taken up again, the selection is kept and the pump*)
(* never spins, for any jobs, dependencies, slots, grace and bounds; and   *)
(* nobody is archived before the full wait, for any delays between polls.  *)
(***************************************************************************)
EXTENDS Loop, Governor, FiniteSetTheorems, TLAPS

-----------------------------------------------------------------------------
(* The inductive invariant.                                                 *)

\* The sequences of jobs without duplicates.
Line == {q \in Seq(Jobs) : IsInjective(q)}

TypedWorld == kind \in [Jobs -> Kinds] /\ deps \in [Jobs -> SUBSET Jobs] /\ res \in [Jobs -> Resources]
TypedQueues == disk \in Line /\ queue \in Line
TypedSets ==
    /\ succ \subseteq Jobs /\ fail \subseteq Jobs /\ flight \subseteq Jobs /\ batch \subseteq Jobs
    /\ tskip \subseteq Jobs /\ skipped \subseteq Jobs /\ firm \subseteq Jobs /\ seen \subseteq Jobs
    /\ absent \subseteq Jobs /\ orphans \subseteq Jobs
TypedFlags ==
    dirty \in BOOLEAN /\ finite \in BOOLEAN /\ sent \in BOOLEAN /\ settled \in BOOLEAN /\ moved \in BOOLEAN
TypedWords ==
    /\ pc \in Places /\ stop \in {"none", "draining", "aborting"}
    /\ last \in {"none", "saturated", "no_candidate", "handled", "spawned"}
    /\ verdict \in {"none", "idle", "blocked", "grace", "gap", "resolved"}
TypedCounts == waited \in 0 .. Grace /\ events \in 0 .. MaxEvents
Typed == TypedWorld /\ TypedQueues /\ TypedSets /\ TypedFlags /\ TypedWords /\ TypedCounts

\* The queue in memory against the queue on disk, as in TypeOK.
Mirror ==
    pc # "down" => Rows \cup flight = ToSet(disk) \cap seen /\ Rows \cap flight = {}

\* Where a job can be, and where it cannot.
Books ==
    /\ succ \cap fail = {} /\ absent \cap ToSet(disk) = {} /\ absent \cap seen = {}
    /\ batch \subseteq flight
    /\ pc = "down" => flight = {}
    /\ pc = "skips" => DOMAIN doomed \subseteq Rows

\* Only a settlement, and the start, call for another skip phase.
DirtyPlace == dirty = TRUE => pc \in {"gate", "settle"}

RulesOK == pc = "skips" \/ skipped # {} => HasSkipRules

\* Outside the skip phase, and unless another one is called for, no row is to be skipped.
SkipsDone == pc \in {"gate", "settle", "fill", "pick", "judge"} /\ dirty = FALSE => Seeds = {}

\* Within it, all that is to be skipped is doomed.
DoomClosed ==
    pc = "skips" =>
        \A v \in Rows : (kind[v] = "skip" \/ deps[v] \cap (DOMAIN doomed \cup skipped) # {})
                            => v \in DOMAIN doomed

SkipInv == DirtyPlace /\ RulesOK /\ SkipsDone /\ DoomClosed

\* Every doomed job that is no Skip row depends on one that is one level less deep.
FirmInv ==
    firm # {} =>
        /\ pc = "skips" /\ firm = DOMAIN doomed
        /\ \A u \in firm : doomed[u] \in Nat
        /\ \A u \in firm : doomed[u] = 0 => kind[u] = "skip"
        /\ \A u \in firm : doomed[u] # 0 => \E d \in deps[u] : d \in firm /\ doomed[u] = doomed[d] + 1

\* What has been in this run's queue is there, in flight, settled or skipped.
SeenInv == seen \subseteq Rows \cup flight \cup tskip \cup fail \cup succ \cup skipped

\* What NO_CANDIDATE has found still holds when the standstill is judged.
JudgeInv ==
    pc = "judge" /\ last = "no_candidate" =>
        DepFailed = {} /\ (finite = TRUE \/ MissingUids # {} \/ ImpossibleUids # {} \/ Ready = {})

VerdictInv ==
    /\ verdict # "none" => pc = "gate"
    /\ last = "no_candidate" => pc \in {"judge", "settle", "gate"}
    /\ BlockedCannotRun /\ NoGap

\* What makes a step count as one that did something.
MoveInv ==
    /\ pc = "down" => last = "none"
    /\ settled = TRUE => moved = TRUE
    /\ last \in {"handled", "spawned"} => moved = TRUE
    /\ verdict = "resolved" => moved = TRUE
    /\ pc = "gate" /\ last = "no_candidate" /\ verdict = "none" =>
          finite = TRUE \/ flight # {} \/ moved = TRUE

PlainFlight == \A u \in flight : kind[u] = "plain"

QueueInv == Typed /\ Mirror /\ Books
RunInv == SkipInv /\ FirmInv /\ SeenInv /\ JudgeInv /\ VerdictInv /\ MoveInv /\ PlainFlight

-----------------------------------------------------------------------------
(* Sequences without duplicates.                                            *)

LEMMA Least ==
  ASSUME NEW S \in SUBSET Nat, S # {} PROVE \E n \in S : \A k \in S : n <= k
<1>1. PICK n \in S : \A k \in S : ~ (<<k, n>> \in OpToRel(<, Nat))
  BY NatLessThanWellFounded, WFMin
<1>2. ASSUME NEW k \in S, ~ (n <= k) PROVE FALSE
  <2>1. k \in Nat /\ n \in Nat /\ k < n
    BY <1>2
  <2>2. <<k, n>> \in OpToRel(<, Nat)
    BY <2>1 DEF OpToRel
  <2> QED BY <1>1, <2>2
<1> QED BY <1>2

\* The function that Without(q, S) is the last value of.
KeptBy(q, S, f, N) ==
    f = [n \in 0 .. N |-> IF n = 0 THEN <<>>
                          ELSE IF q[n] \in S THEN f[n - 1] ELSE Append(f[n - 1], q[n])]

LEMMA KeptExists ==
  ASSUME NEW q, NEW S, NEW N \in Nat PROVE \E f : KeptBy(q, S, f, N)
<1> DEFINE bad == {n \in Nat : ~ \E f : KeptBy(q, S, f, n)}
<1> SUFFICES bad = {}
  OBVIOUS
<1> SUFFICES ASSUME bad # {} PROVE FALSE
  OBVIOUS
<1>1. PICK n \in bad : \A k \in bad : n <= k
  <2>1. bad \subseteq Nat
    OBVIOUS
  <2> HIDE DEF bad
  <2> QED BY <2>1, Least
<1>2. CASE n = 0
  <2> DEFINE f == [m \in 0 .. 0 |-> <<>>]
  <2>1. f = [m \in 0 .. 0 |-> IF m = 0 THEN <<>>
                          ELSE IF q[m] \in S THEN f[m - 1] ELSE Append(f[m - 1], q[m])]
    OBVIOUS
  <2> HIDE DEF f
  <2>2. KeptBy(q, S, f, 0)
    BY <2>1 DEF KeptBy
  <2> QED BY <1>1, <1>2, <2>2
<1>3. CASE n # 0
  <2>1. n \in Nat /\ n - 1 \in Nat /\ n - 1 \notin bad
    BY <1>1, <1>3
  <2>2. PICK g : KeptBy(q, S, g, n - 1)
    BY <2>1
  <2> DEFINE top == IF q[n] \in S THEN g[n - 1] ELSE Append(g[n - 1], q[n])
             f == [m \in 0 .. n |-> IF m = n THEN top ELSE g[m]]
  <2>3. \A m \in 0 .. (n - 1) : g[m] = IF m = 0 THEN <<>>
                          ELSE IF q[m] \in S THEN g[m - 1] ELSE Append(g[m - 1], q[m])
    BY <2>1, <2>2 DEF KeptBy
  <2>4. \A m \in 0 .. n : f[m] = IF m = 0 THEN <<>>
                          ELSE IF q[m] \in S THEN f[m - 1] ELSE Append(f[m - 1], q[m])
    BY <1>3, <2>1, <2>3
  <2>5. f = [m \in 0 .. n |-> f[m]]
    OBVIOUS
  <2> HIDE DEF f
  <2>6. KeptBy(q, S, f, n)
    BY <2>4, <2>5 DEF KeptBy
  <2> QED BY <1>1, <2>6
<1> QED BY <1>2, <1>3

LEMMA WithoutIsKept ==
  ASSUME NEW q, NEW S, Len(q) \in Nat
  PROVE  \E f : /\ Without(q, S) = f[Len(q)] /\ f[0] = <<>>
                /\ \A n \in 1 .. Len(q) :
                      f[n] = IF q[n] \in S THEN f[n - 1] ELSE Append(f[n - 1], q[n])
<1> DEFINE f == CHOOSE g : KeptBy(q, S, g, Len(q))
<1>1. KeptBy(q, S, f, Len(q))
  BY KeptExists
<1>2. Without(q, S) = f[Len(q)]
  BY DEF Without, KeptBy
<1> HIDE DEF f
<1>3. \A n \in 0 .. Len(q) : f[n] = IF n = 0 THEN <<>>
                          ELSE IF q[n] \in S THEN f[n - 1] ELSE Append(f[n - 1], q[n])
  BY <1>1 DEF KeptBy
<1>4. f[0] = <<>>
  BY <1>3
<1>5. ASSUME NEW n \in 1 .. Len(q)
      PROVE  f[n] = IF q[n] \in S THEN f[n - 1] ELSE Append(f[n - 1], q[n])
  <2>1. n \in 0 .. Len(q) /\ n # 0
    OBVIOUS
  <2> QED BY <1>3, <2>1
<1> QED BY <1>2, <1>4, <1>5

LEMMA LineElements ==
  ASSUME NEW q \in Line
  PROVE  /\ Len(q) \in Nat /\ DOMAIN q = 1 .. Len(q) /\ q \in Seq(Jobs)
         /\ \A n \in 1 .. Len(q) : q[n] \in Jobs /\ q[n] \in ToSet(q)
         /\ \A u \in ToSet(q) : u \in Jobs /\ \E n \in 1 .. Len(q) : u = q[n]
         /\ \A m, n \in 1 .. Len(q) : q[m] = q[n] => m = n
  BY DEF Line, ToSet, IsInjective

LEMMA LineMade ==
  ASSUME NEW q \in Seq(Jobs), \A m, n \in 1 .. Len(q) : q[m] = q[n] => m = n
  PROVE  q \in Line
  BY DEF Line, IsInjective

LEMMA LineSet == \A q \in Line : ToSet(q) \subseteq Jobs
  BY LineElements

LEMMA EmptyLine == <<>> \in Line /\ ToSet(<<>>) = {}
  BY DEF Line, IsInjective, ToSet

LEMMA AppendLine ==
  ASSUME NEW q \in Line, NEW u \in Jobs, u \notin ToSet(q)
  PROVE  Append(q, u) \in Line /\ ToSet(Append(q, u)) = ToSet(q) \cup {u}
<1> DEFINE r == Append(q, u)
<1>1. /\ r \in Seq(Jobs) /\ Len(r) = Len(q) + 1 /\ r[Len(q) + 1] = u
      /\ \A n \in 1 .. Len(q) : r[n] = q[n]
  BY LineElements
<1> HIDE DEF r
<1>2. DOMAIN r = 1 .. (Len(q) + 1) /\ Len(q) \in Nat
  BY <1>1, LineElements
<1>3. \A n \in 1 .. (Len(q) + 1) : n \in 1 .. Len(q) \/ n = Len(q) + 1
  BY <1>2
<1>4. ASSUME NEW m \in 1 .. (Len(q) + 1), NEW n \in 1 .. (Len(q) + 1), r[m] = r[n] PROVE m = n
  <2>1. CASE m \in 1 .. Len(q) /\ n \in 1 .. Len(q)
    BY <2>1, <1>1, <1>4, LineElements
  <2>2. CASE m \in 1 .. Len(q) /\ n = Len(q) + 1
    BY <2>2, <1>1, <1>4, LineElements
  <2>3. CASE m = Len(q) + 1 /\ n \in 1 .. Len(q)
    BY <2>3, <1>1, <1>4, LineElements
  <2> QED BY <1>3, <2>1, <2>2, <2>3
<1>5. r \in Line
  BY <1>1, <1>4, LineMade
<1>6. ASSUME NEW x \in ToSet(r) PROVE x \in ToSet(q) \cup {u}
  BY <1>1, <1>2, <1>3, LineElements DEF ToSet
<1>7. ASSUME NEW x \in ToSet(q) \cup {u} PROVE x \in ToSet(r)
  <2>1. CASE x = u
    BY <2>1, <1>1, <1>2 DEF ToSet
  <2>2. CASE x \in ToSet(q)
    <3>1. PICK n \in 1 .. Len(q) : x = q[n]
      BY <2>2, LineElements
    <3>2. n \in 1 .. (Len(q) + 1) /\ r[n] = x
      BY <3>1, <1>1, <1>2
    <3> QED BY <3>2, <1>2 DEF ToSet
  <2> QED BY <2>1, <2>2
<1>8. r \in Line /\ ToSet(r) = ToSet(q) \cup {u}
  BY <1>5, <1>6, <1>7
<1> QED BY <1>8 DEF r

LEMMA ConcatLine ==
  ASSUME NEW p \in Line, NEW q \in Line, ToSet(p) \cap ToSet(q) = {}
  PROVE  p \o q \in Line /\ ToSet(p \o q) = ToSet(p) \cup ToSet(q)
<1> DEFINE r == p \o q
<1>1. PICK a \in Nat : a = Len(p)
  BY LineElements
<1>2. PICK b \in Nat : b = Len(q)
  BY LineElements
<1>3. /\ r \in Seq(Jobs) /\ Len(r) = a + b
      /\ \A n \in 1 .. a : r[n] = p[n]
      /\ \A n \in (a + 1) .. (a + b) : r[n] = q[n - a]
  BY <1>1, <1>2, LineElements
<1> HIDE DEF r
<1>4. DOMAIN r = 1 .. (a + b)
  BY <1>3
<1>5. \A n \in 1 .. (a + b) :
        \/ n \in 1 .. a /\ r[n] = p[n] /\ r[n] \in ToSet(p)
        \/ n - a \in 1 .. b /\ r[n] = q[n - a] /\ r[n] \in ToSet(q)
  <2> TAKE n \in 1 .. (a + b)
  <2>1. CASE n \in 1 .. a
    BY <2>1, <1>1, <1>3, LineElements
  <2>2. CASE n \notin 1 .. a
    <3>1. n \in (a + 1) .. (a + b) /\ n - a \in 1 .. b
      BY <2>2
    <3> QED BY <3>1, <1>2, <1>3, LineElements
  <2> QED BY <2>1, <2>2
<1>6. ASSUME NEW m \in 1 .. (a + b), NEW n \in 1 .. (a + b), r[m] = r[n] PROVE m = n
  <2>1. CASE m \in 1 .. a /\ n \in 1 .. a
    BY <2>1, <1>1, <1>3, <1>6, LineElements
  <2>2. CASE m - a \in 1 .. b /\ n - a \in 1 .. b
    <3>1. m \in (a + 1) .. (a + b) /\ n \in (a + 1) .. (a + b)
      BY <2>2
    <3>2. q[m - a] = q[n - a]
      BY <3>1, <1>3, <1>6
    <3>3. m - a = n - a
      BY <2>2, <3>2, <1>2, LineElements
    <3> QED BY <3>3
  <2>3. CASE ~ (m \in 1 .. a /\ n \in 1 .. a) /\ ~ (m - a \in 1 .. b /\ n - a \in 1 .. b)
    BY <2>3, <1>5, <1>6
  <2> QED BY <2>1, <2>2, <2>3
<1>7. r \in Line
  BY <1>3, <1>6, LineMade
<1>8. ASSUME NEW x \in ToSet(r) PROVE x \in ToSet(p) \cup ToSet(q)
  <2>1. PICK n \in 1 .. (a + b) : x = r[n]
    BY <1>4 DEF ToSet
  <2> QED BY <2>1, <1>5
<1>9. ASSUME NEW x \in ToSet(p) PROVE x \in ToSet(r)
  <2>1. PICK n \in 1 .. a : x = p[n]
    BY <1>1, LineElements
  <2>2. n \in DOMAIN r /\ x = r[n]
    BY <2>1, <1>3, <1>4
  <2> QED BY <2>2 DEF ToSet
<1>10. ASSUME NEW x \in ToSet(q) PROVE x \in ToSet(r)
  <2>1. PICK n \in 1 .. b : x = q[n]
    BY <1>2, LineElements
  <2>2. a + n \in (a + 1) .. (a + b) /\ a + n \in DOMAIN r /\ (a + n) - a = n
    BY <2>1, <1>4
  <2>3. x = r[a + n]
    BY <2>1, <2>2, <1>3
  <2> QED BY <2>2, <2>3 DEF ToSet
<1>11. r \in Line /\ ToSet(r) = ToSet(p) \cup ToSet(q)
  BY <1>7, <1>8, <1>9, <1>10
<1> QED BY <1>11 DEF r

LEMMA SingleLine == ASSUME NEW u \in Jobs PROVE <<u>> \in Line /\ ToSet(<<u>>) = {u}
<1>1. <<u>> \in Line
  BY DEF Line, IsInjective
<1>2. ToSet(<<u>>) = {u}
  BY DEF ToSet
<1> QED BY <1>1, <1>2

\* What Without keeps, in sequences without duplicates.
LEMMA WithoutLine ==
  ASSUME NEW q \in Line, NEW S
  PROVE  Without(q, S) \in Line /\ ToSet(Without(q, S)) = ToSet(q) \ S
<1>1. PICK N \in Nat : N = Len(q)
  BY LineElements
<1>2. PICK f : /\ Without(q, S) = f[N] /\ f[0] = <<>>
               /\ \A n \in 1 .. N : f[n] = IF q[n] \in S THEN f[n - 1] ELSE Append(f[n - 1], q[n])
  BY <1>1, WithoutIsKept
<1> DEFINE Good(n) == /\ f[n] \in Line
                      /\ \A x \in ToSet(f[n]) : \E k \in 1 .. n : x = q[k] /\ x \notin S
                      /\ \A k \in 1 .. n : q[k] \notin S => q[k] \in ToSet(f[n])
           bad == {n \in 0 .. N : ~ Good(n)}
<1>3. bad = {}
  <2> SUFFICES ASSUME bad # {} PROVE FALSE
    OBVIOUS
  <2>1. PICK n \in bad : \A k \in bad : n <= k
    <3>1. bad \subseteq Nat
      OBVIOUS
    <3> HIDE DEF bad
    <3> QED BY <3>1, Least
  <2>2. n \in 0 .. N /\ ~ Good(n)
    OBVIOUS
  <2>3. CASE n = 0
    <3>1. f[0] \in Line /\ ToSet(f[0]) = {}
      BY <1>2, EmptyLine
    <3>2. Good(0)
      BY <3>1
    <3> HIDE DEF Good
    <3> QED BY <2>2, <2>3, <3>2
  <2>4. CASE n # 0
    <3>1. n \in 1 .. N /\ n - 1 \in 0 .. N /\ ~ (n <= n - 1)
      BY <2>2, <2>4
    <3>2. Good(n - 1)
      <4>1. n - 1 \notin bad
        BY <2>1, <3>1
      <4> QED BY <3>1, <4>1
    <3>3. PICK g : g = f[n - 1]
      OBVIOUS
    <3>4. /\ g \in Line
          /\ \A x \in ToSet(g) : \E k \in 1 .. (n - 1) : x = q[k] /\ x \notin S
          /\ \A k \in 1 .. (n - 1) : q[k] \notin S => q[k] \in ToSet(g)
      BY <3>2, <3>3
    <3>5. \A k \in 1 .. n : k = n \/ k \in 1 .. (n - 1)
      BY <3>1
    <3>6. \A k \in 1 .. (n - 1) : k \in 1 .. n /\ k \in 1 .. N /\ k # n
      BY <3>1
    <3>7. CASE q[n] \in S
      <4>1. f[n] = g
        BY <3>1, <3>3, <3>7, <1>2
      <4>2. Good(n)
        BY <4>1, <3>4, <3>5, <3>6, <3>7
      <4> QED BY <2>2, <4>2
    <3>8. CASE q[n] \notin S
      <4>1. f[n] = Append(g, q[n])
        BY <3>1, <3>3, <3>8, <1>2
      <4>2. q[n] \in Jobs
        BY <1>1, <3>1, LineElements
      <4>3. q[n] \notin ToSet(g)
        <5> SUFFICES ASSUME q[n] \in ToSet(g) PROVE FALSE
          OBVIOUS
        <5>1. PICK k \in 1 .. (n - 1) : q[n] = q[k]
          BY <3>4
        <5>2. k = n
          BY <1>1, <3>1, <3>6, <5>1, LineElements
        <5> QED BY <3>6, <5>2
      <4>4. f[n] \in Line /\ ToSet(f[n]) = ToSet(g) \cup {q[n]}
        BY <3>4, <4>1, <4>2, <4>3, AppendLine
      <4>5. Good(n)
        BY <4>4, <3>1, <3>4, <3>5, <3>6, <3>8
      <4> QED BY <2>2, <4>5
    <3> QED BY <3>7, <3>8
  <2> QED BY <2>3, <2>4
<1>4. Good(N)
  BY <1>3
<1>5. ASSUME NEW x \in ToSet(Without(q, S)) PROVE x \in ToSet(q) \ S
  BY <1>1, <1>2, <1>4, <1>5, LineElements
<1>6. ASSUME NEW x \in ToSet(q) \ S PROVE x \in ToSet(Without(q, S))
  <2>1. PICK k \in 1 .. N : x = q[k]
    BY <1>1, LineElements
  <2> QED BY <2>1, <1>2, <1>4
<1>7. Without(q, S) \in Line
  BY <1>2, <1>4
<1> QED BY <1>5, <1>6, <1>7

LEMMA HeadLine == ASSUME NEW q \in Line, ToSet(q) # {} PROVE Head(q) \in ToSet(q)
<1>1. PICK n \in 1 .. Len(q) : TRUE
  BY LineElements
<1>2. 1 \in 1 .. Len(q) /\ Head(q) = q[1]
  BY <1>1, LineElements
<1> QED BY <1>2, LineElements

LEMMA OrderLine == Order \in Line /\ ToSet(Order) = Jobs
  BY LoopAssumption DEF Jobs, Line

LEMMA FirstOfIn ==
  ASSUME queue \in Line, NEW S, S \subseteq Rows, S # {}
  PROVE  FirstOf(S) \in S
<1> DEFINE q == Without(queue, Jobs \ S)
<1>1. q \in Line /\ ToSet(q) = ToSet(queue) \ (Jobs \ S)
  BY WithoutLine
<1>2. ToSet(q) = S
  BY <1>1, LineSet DEF Rows
<1> HIDE DEF q
<1>3. Head(q) \in S
  BY <1>1, <1>2, HeadLine
<1> QED BY <1>3 DEF q, FirstOf

-----------------------------------------------------------------------------
(* Closures.                                                                *)

\* Reach, with the dependencies as a parameter.
ReachIn(D, S, Q) ==
    {u \in S \cup Q : \A X \in SUBSET (S \cup Q) :
         S \subseteq X /\ {v \in Q : D[v] \cap X # {}} \subseteq X => u \in X}

LEMMA ReachIsIn == ASSUME NEW S, NEW Q PROVE Reach(S, Q) = ReachIn(deps, S, Q)
  BY DEF Reach, ReachIn

\* The closure is between its roots and what it may hold.
LEMMA ReachBounds ==
  ASSUME NEW D, NEW S, NEW Q PROVE S \subseteq ReachIn(D, S, Q) /\ ReachIn(D, S, Q) \subseteq S \cup Q
  BY DEF ReachIn

\* It is closed.
LEMMA ReachClosed ==
  ASSUME NEW D, NEW S, NEW Q, NEW v \in Q, NEW d \in D[v], d \in ReachIn(D, S, Q)
  PROVE  v \in ReachIn(D, S, Q)
<1> SUFFICES ASSUME NEW X \in SUBSET (S \cup Q), S \subseteq X,
                    {w \in Q : D[w] \cap X # {}} \subseteq X
             PROVE  v \in X
  BY DEF ReachIn
<1>1. d \in X
  BY DEF ReachIn
<1> QED BY <1>1

\* And it is the smallest such set.
LEMMA ReachLeast ==
  ASSUME NEW D, NEW S, NEW Q, NEW X, S \subseteq X,
         \A v \in Q : \A d \in D[v] : d \in X /\ d \in S \cup Q => v \in X
  PROVE  ReachIn(D, S, Q) \subseteq X
<1> DEFINE Y == X \cap (S \cup Q)
<1>1. Y \in SUBSET (S \cup Q) /\ S \subseteq Y
  OBVIOUS
<1>2. {w \in Q : D[w] \cap Y # {}} \subseteq Y
  OBVIOUS
<1>3. ASSUME NEW u \in ReachIn(D, S, Q) PROVE u \in Y
  <2> HIDE DEF Y
  <2> QED BY <1>1, <1>2, <1>3 DEF ReachIn
<1> QED BY <1>3

\* A member that is no root depends on a member.
LEMMA ReachFrom ==
  ASSUME NEW D, NEW S, NEW Q, NEW u \in ReachIn(D, S, Q), u \notin S
  PROVE  u \in Q /\ \E d \in D[u] : d \in ReachIn(D, S, Q)
<1> DEFINE R == ReachIn(D, S, Q)
           X == {v \in R : v \in S \/ \E d \in D[v] : d \in R}
<1>1. S \subseteq R /\ R \subseteq S \cup Q
  BY ReachBounds
<1>2. \A v \in Q : \A d \in D[v] : d \in R => v \in R
  BY ReachClosed
<1>3. \A v \in Q : \A d \in D[v] : d \in X => v \in X
  <2> HIDE DEF R
  <2> QED BY <1>2
<1>4. S \subseteq X
  BY <1>1
<1>5. R \subseteq X
  <2> HIDE DEF X
  <2> QED BY <1>3, <1>4, ReachLeast
<1> QED BY <1>1, <1>5

\* Kahn's set: every allowed job that it frees is in it; and it is in every such set.
LEMMA ReducedBounds == Reduced \subseteq Allowed
  BY DEF Reduced

LEMMA ReducedLeast ==
  ASSUME NEW X, X \subseteq Allowed, Freed(X) \subseteq X PROVE Reduced \subseteq X
  BY DEF Reduced

LEMMA ReducedClosed == Freed(Reduced) \subseteq Reduced
<1> SUFFICES ASSUME NEW u \in Freed(Reduced), NEW X \in SUBSET Allowed, Freed(X) \subseteq X
             PROVE  u \in X
  BY DEF Freed, Reduced
<1>1. Reduced \subseteq X
  BY ReducedLeast
<1>2. u \in Freed(X)
  BY <1>1 DEF Freed
<1> QED BY <1>2

-----------------------------------------------------------------------------
(* Cycles.                                                                  *)

LEMMA JobsFinite == IsFiniteSet(Jobs)
<1>1. IsFiniteSet(1 .. Len(Order)) /\ DOMAIN Order = 1 .. Len(Order)
  BY OrderLine, LineElements, FS_Interval
<1>2. Order \in Surjection(1 .. Len(Order), Jobs)
  <2>1. Order \in [1 .. Len(Order) -> Jobs] /\ \A u \in Jobs : \E n \in 1 .. Len(Order) : Order[n] = u
    BY OrderLine, LineElements
  <2> QED BY <2>1 DEF Surjection
<1> QED BY <1>1, <1>2, FS_Surjection

\* Where each of finitely many jobs depends on one of them there is a cycle: among the
\* jobs that most of them depend on, each depends on one of its own dependents.
LEMMA CycleExists ==
  ASSUME NEW D, NEW T, IsFiniteSet(T), T # {}, \A u \in T : \E d \in D[u] : d \in T
  PROVE  \E C : /\ C # {} /\ C \subseteq T
                /\ \A u \in C : \E d \in D[u] : d \in C /\ d \in ReachIn(D, {u}, T)
<1> DEFINE Up(u) == ReachIn(D, {u}, T)
           Size(u) == Cardinality(Up(u))
<1>1. \A u \in T : u \in Up(u) /\ Up(u) \subseteq T
  BY ReachBounds
<1>2. ASSUME NEW u \in T, NEW d \in D[u], d \in T PROVE Up(u) \subseteq Up(d)
  <2>1. \A v \in T : \A e \in D[v] : e \in Up(d) => v \in Up(d)
    BY ReachClosed
  <2>2. u \in Up(d)
    BY <1>1, <1>2, <2>1
  <2> DEFINE X == Up(d)
  <2>3. {u} \subseteq X /\ \A v \in T : \A e \in D[v] : e \in X => v \in X
    BY <2>1, <2>2
  <2> HIDE DEF X
  <2>4. ReachIn(D, {u}, T) \subseteq X
    BY <2>3, ReachLeast
  <2> QED BY <2>4 DEF X
<1> HIDE DEF Up
<1>3. PICK N \in Nat : N = Cardinality(T)
  BY FS_CardinalityType
<1>4. \A u \in T : IsFiniteSet(Up(u)) /\ Size(u) \in Nat /\ Size(u) <= N
  BY <1>1, <1>3, FS_Subset, FS_CardinalityType
<1> DEFINE rest == {n \in Nat : \E u \in T : n = N - Size(u)}
<1>5. PICK n \in rest : \A k \in rest : n <= k
  <2>1. PICK u \in T : TRUE
    OBVIOUS
  <2>2. N - Size(u) \in Nat
    <3> HIDE DEF Size
    <3> QED BY <1>4
  <2>3. rest \subseteq Nat /\ rest # {}
    BY <2>2
  <2> HIDE DEF rest
  <2> QED BY <2>3, Least
<1>6. PICK m \in T : n = N - Size(m)
  OBVIOUS
<1>7. ASSUME NEW u \in T PROVE Size(u) <= Size(m)
  <2>1. N - Size(u) \in rest
    <3>1. N - Size(u) \in Nat
      <4> HIDE DEF Size
      <4> QED BY <1>4
    <3> QED BY <3>1
  <2>2. n <= N - Size(u)
    <3> HIDE DEF rest
    <3> QED BY <2>1, <1>5
  <2> HIDE DEF Size
  <2> QED BY <2>2, <1>4, <1>6
<1> DEFINE C == {u \in T : Size(u) = Size(m)}
<1>8. ASSUME NEW u \in C PROVE \E d \in D[u] : d \in C /\ d \in Up(u)
  <2>1. PICK d \in D[u] : d \in T
    OBVIOUS
  <2>2. Up(u) \subseteq Up(d)
    BY <1>2, <2>1
  <2>3. Size(u) <= Size(d)
    BY <1>4, <2>1, <2>2, FS_Subset
  <2>4. Size(d) = Size(u)
    <3> HIDE DEF Size
    <3> QED BY <1>4, <1>7, <2>1, <2>3
  <2>5. Up(d) = Up(u)
    BY <1>4, <2>1, <2>2, <2>4, FS_Subset
  <2> QED BY <1>1, <2>1, <2>4, <2>5
<1>9. C # {} /\ C \subseteq T
  OBVIOUS
<1>10. \A u \in C : \E d \in D[u] : d \in C /\ d \in ReachIn(D, {u}, T)
  BY <1>8 DEF Up
<1> QED BY <1>9, <1>10

-----------------------------------------------------------------------------
(* Types.                                                                   *)

LEMMA Fixed ==
  ASSUME [Next]_vars PROVE kind' = kind /\ deps' = deps
<1>1. CASE StartRun
  BY <1>1 DEF StartRun, vars, world, tables, step
<1>2. CASE Abort
  BY <1>2 DEF Abort, End, Forget, Fresh, vars, world, tables, step
<1>3. CASE Drained
  BY <1>3 DEF Drained, End, Forget, Fresh, vars, world, tables, step
<1>4. CASE EnterStep
  BY <1>4 DEF EnterStep, Fresh, vars, world, tables, step
<1>5. CASE Sift
  BY <1>5 DEF Sift, vars, world, tables, step
<1>6. CASE SkipOne
  BY <1>6 DEF SkipOne, vars, world, tables, step
<1>7. CASE Idle
  BY <1>7 DEF Idle, End, Forget, Fresh, vars, world, tables, step
<1>8. CASE Fill
  BY <1>8 DEF Fill, vars, world, tables, step
<1>9. CASE Saturated
  BY <1>9 DEF Saturated, vars, world, tables, step
<1>10. CASE NoCandidate
  BY <1>10 DEF NoCandidate, vars, world, tables, step
<1>11. CASE DispatchDepFailed
  BY <1>11 DEF DispatchDepFailed, HandledNoSubprocess, vars, world, tables, step
<1>12. CASE TriggerSkips
  BY <1>12 DEF TriggerSkips, HandledNoSubprocess, vars, world, tables, step
<1>13. CASE OrphanDefers
  BY <1>13 DEF OrphanDefers, HandledNoSubprocess, vars, world, tables, step
<1>14. CASE Spawned
  BY <1>14 DEF Spawned, vars, world, tables, step
<1>15. CASE Judge
  BY <1>15 DEF Judge, vars, world, tables, step
<1>16. CASE Reap
  BY <1>16 DEF Reap, vars, world, tables, step
<1>17. CASE LastStep
  BY <1>17 DEF LastStep, End, Forget, Fresh, vars, world, tables, step
<1>18. ASSUME NEW u \in Jobs, Succeeds(u) PROVE kind' = kind /\ deps' = deps
  BY <1>18 DEF Succeeds, Settling, vars, world, tables, step
<1>19. ASSUME NEW u \in Jobs, Fails(u) PROVE kind' = kind /\ deps' = deps
  BY <1>19 DEF Fails, Settling, vars, world, tables, step
<1>20. ASSUME NEW u \in Jobs, PutBack(u) PROVE kind' = kind /\ deps' = deps
  BY <1>20 DEF PutBack, Settling, vars, world, tables, step
<1>21. CASE RequestStop
  BY <1>21 DEF RequestStop, Happens, run, vars, world, tables, step
<1>22. CASE Kill
  BY <1>22 DEF Kill, End, Forget, Fresh, Happens, vars, world, tables, step
<1>23. CASE OrphanExits
  BY <1>23 DEF OrphanExits, run, vars, world, tables, step
<1>24. CASE EnqueueElsewhere
  BY <1>24 DEF EnqueueElsewhere, Happens, run, vars, world, tables, step
<1>25. CASE Resume
  BY <1>25 DEF Resume, run, vars, world, tables, step
<1>26. CASE UNCHANGED vars
  BY <1>26 DEF vars, world, tables, step
<1> QED BY <1>1, <1>2, <1>3, <1>4, <1>5, <1>6, <1>7, <1>8, <1>9, <1>10, <1>11, <1>12, <1>13, <1>14, <1>15, <1>16, <1>17, <1>18, <1>19, <1>20, <1>21, <1>22, <1>23, <1>24, <1>25, <1>26 DEF Next, Main

LEMMA TypedWorldStep ==
  ASSUME TypedWorld, [Next]_vars PROVE TypedWorld'
<1>1. CASE StartRun
  BY <1>1, Fixed DEF StartRun, vars, world, tables, step, TypedWorld
<1>2. CASE Abort
  BY <1>2, Fixed DEF Abort, End, Forget, Fresh, vars, world, tables, step, TypedWorld
<1>3. CASE Drained
  BY <1>3, Fixed DEF Drained, End, Forget, Fresh, vars, world, tables, step, TypedWorld
<1>4. CASE EnterStep
  BY <1>4, Fixed DEF EnterStep, Fresh, vars, world, tables, step, TypedWorld
<1>5. CASE Sift
  BY <1>5, Fixed DEF Sift, vars, world, tables, step, TypedWorld
<1>6. CASE SkipOne
  BY <1>6, Fixed DEF SkipOne, vars, world, tables, step, TypedWorld
<1>7. CASE Idle
  BY <1>7, Fixed DEF Idle, End, Forget, Fresh, vars, world, tables, step, TypedWorld
<1>8. CASE Fill
  BY <1>8, Fixed DEF Fill, vars, world, tables, step, TypedWorld
<1>9. CASE Saturated
  BY <1>9, Fixed DEF Saturated, vars, world, tables, step, TypedWorld
<1>10. CASE NoCandidate
  BY <1>10, Fixed DEF NoCandidate, vars, world, tables, step, TypedWorld
<1>11. CASE DispatchDepFailed
  BY <1>11, Fixed DEF DispatchDepFailed, HandledNoSubprocess, vars, world, tables, step, TypedWorld
<1>12. CASE TriggerSkips
  BY <1>12, Fixed DEF TriggerSkips, HandledNoSubprocess, vars, world, tables, step, TypedWorld
<1>13. CASE OrphanDefers
  BY <1>13, Fixed DEF OrphanDefers, HandledNoSubprocess, vars, world, tables, step, TypedWorld
<1>14. CASE Spawned
  BY <1>14, Fixed DEF Spawned, vars, world, tables, step, TypedWorld
<1>15. CASE Judge
  BY <1>15, Fixed DEF Judge, vars, world, tables, step, TypedWorld
<1>16. CASE Reap
  BY <1>16, Fixed DEF Reap, vars, world, tables, step, TypedWorld
<1>17. CASE LastStep
  BY <1>17, Fixed DEF LastStep, End, Forget, Fresh, vars, world, tables, step, TypedWorld
<1>18. ASSUME NEW u \in Jobs, Succeeds(u) PROVE TypedWorld'
  BY <1>18, Fixed DEF Succeeds, Settling, vars, world, tables, step, TypedWorld
<1>19. ASSUME NEW u \in Jobs, Fails(u) PROVE TypedWorld'
  BY <1>19, Fixed DEF Fails, Settling, vars, world, tables, step, TypedWorld
<1>20. ASSUME NEW u \in Jobs, PutBack(u) PROVE TypedWorld'
  BY <1>20, Fixed DEF PutBack, Settling, vars, world, tables, step, Resources, TypedWorld
<1>21. CASE RequestStop
  BY <1>21, Fixed DEF RequestStop, Happens, run, vars, world, tables, step, TypedWorld
<1>22. CASE Kill
  BY <1>22, Fixed DEF Kill, End, Forget, Fresh, Happens, vars, world, tables, step, TypedWorld
<1>23. CASE OrphanExits
  BY <1>23, Fixed DEF OrphanExits, run, vars, world, tables, step, TypedWorld
<1>24. CASE EnqueueElsewhere
  BY <1>24, Fixed DEF EnqueueElsewhere, Happens, run, vars, world, tables, step, TypedWorld
<1>25. CASE Resume
  BY <1>25, Fixed DEF Resume, run, vars, world, tables, step, Resources, TypedWorld
<1>26. CASE UNCHANGED vars
  BY <1>26, Fixed DEF vars, world, tables, step, TypedWorld
<1> QED BY <1>1, <1>2, <1>3, <1>4, <1>5, <1>6, <1>7, <1>8, <1>9, <1>10, <1>11, <1>12, <1>13, <1>14, <1>15, <1>16, <1>17, <1>18, <1>19, <1>20, <1>21, <1>22, <1>23, <1>24, <1>25, <1>26 DEF Next, Main

LEMMA TypedFlagsStep ==
  ASSUME TypedFlags, [Next]_vars PROVE TypedFlags'
<1>1. CASE StartRun
  BY <1>1, Zenon DEF StartRun, vars, world, tables, step, TypedFlags
<1>2. CASE Abort
  BY <1>2, Zenon DEF Abort, End, Forget, Fresh, vars, world, tables, step, TypedFlags
<1>3. CASE Drained
  BY <1>3, Zenon DEF Drained, End, Forget, Fresh, vars, world, tables, step, TypedFlags
<1>4. CASE EnterStep
  BY <1>4, Zenon DEF EnterStep, Fresh, vars, world, tables, step, TypedFlags
<1>5. CASE Sift
  BY <1>5, Zenon DEF Sift, vars, world, tables, step, TypedFlags
<1>6. CASE SkipOne
  BY <1>6, Zenon DEF SkipOne, vars, world, tables, step, TypedFlags
<1>7. CASE Idle
  BY <1>7, Zenon DEF Idle, End, Forget, Fresh, vars, world, tables, step, TypedFlags
<1>8. CASE Fill
  BY <1>8, Zenon DEF Fill, vars, world, tables, step, TypedFlags
<1>9. CASE Saturated
  BY <1>9, Zenon DEF Saturated, vars, world, tables, step, TypedFlags
<1>10. CASE NoCandidate
  BY <1>10, Zenon DEF NoCandidate, vars, world, tables, step, MinWaitFinite, TypedFlags
<1>11. CASE DispatchDepFailed
  BY <1>11, Zenon DEF DispatchDepFailed, HandledNoSubprocess, vars, world, tables, step, TypedFlags
<1>12. CASE TriggerSkips
  BY <1>12, Zenon DEF TriggerSkips, HandledNoSubprocess, vars, world, tables, step, TypedFlags
<1>13. CASE OrphanDefers
  BY <1>13, Zenon DEF OrphanDefers, HandledNoSubprocess, vars, world, tables, step, TypedFlags
<1>14. CASE Spawned
  BY <1>14, Zenon DEF Spawned, vars, world, tables, step, TypedFlags
<1>15. CASE Judge
  BY <1>15, Zenon DEF Judge, vars, world, tables, step, TypedFlags
<1>16. CASE Reap
  BY <1>16, Zenon DEF Reap, vars, world, tables, step, TypedFlags
<1>17. CASE LastStep
  BY <1>17, Zenon DEF LastStep, End, Forget, Fresh, vars, world, tables, step, TypedFlags
<1>18. ASSUME NEW u \in Jobs, Succeeds(u) PROVE TypedFlags'
  BY <1>18, Zenon DEF Succeeds, Settling, vars, world, tables, step, DirtyAfterSettling, TypedFlags
<1>19. ASSUME NEW u \in Jobs, Fails(u) PROVE TypedFlags'
  BY <1>19, Zenon DEF Fails, Settling, vars, world, tables, step, DirtyAfterSettling, TypedFlags
<1>20. ASSUME NEW u \in Jobs, PutBack(u) PROVE TypedFlags'
  BY <1>20, Zenon DEF PutBack, Settling, vars, world, tables, step, DirtyAfterSettling, TypedFlags
<1>21. CASE RequestStop
  BY <1>21, Zenon DEF RequestStop, Happens, run, vars, world, tables, step, TypedFlags
<1>22. CASE Kill
  BY <1>22, Zenon DEF Kill, End, Forget, Fresh, Happens, vars, world, tables, step, TypedFlags
<1>23. CASE OrphanExits
  BY <1>23, Zenon DEF OrphanExits, run, vars, world, tables, step, TypedFlags
<1>24. CASE EnqueueElsewhere
  BY <1>24, Zenon DEF EnqueueElsewhere, Happens, run, vars, world, tables, step, TypedFlags
<1>25. CASE Resume
  BY <1>25, Zenon DEF Resume, run, vars, world, tables, step, TypedFlags
<1>26. CASE UNCHANGED vars
  BY <1>26, Zenon DEF vars, world, tables, step, TypedFlags
<1> QED BY <1>1, <1>2, <1>3, <1>4, <1>5, <1>6, <1>7, <1>8, <1>9, <1>10, <1>11, <1>12, <1>13, <1>14, <1>15, <1>16, <1>17, <1>18, <1>19, <1>20, <1>21, <1>22, <1>23, <1>24, <1>25, <1>26 DEF Next, Main

LEMMA TypedWordsStep ==
  ASSUME TypedWords, [Next]_vars PROVE TypedWords'
<1>1. CASE StartRun
  BY <1>1 DEF StartRun, vars, world, tables, step, TypedWords, Places
<1>2. CASE Abort
  BY <1>2 DEF Abort, End, Forget, Fresh, vars, world, tables, step, TypedWords, Places
<1>3. CASE Drained
  BY <1>3 DEF Drained, End, Forget, Fresh, vars, world, tables, step, TypedWords, Places
<1>4. CASE EnterStep
  BY <1>4 DEF EnterStep, Fresh, vars, world, tables, step, TypedWords, Places
<1>5. CASE Sift
  BY <1>5 DEF Sift, vars, world, tables, step, TypedWords, Places
<1>6. CASE SkipOne
  BY <1>6 DEF SkipOne, vars, world, tables, step, TypedWords, Places
<1>7. CASE Idle
  BY <1>7 DEF Idle, End, Forget, Fresh, vars, world, tables, step, TypedWords, Places
<1>8. CASE Fill
  BY <1>8 DEF Fill, vars, world, tables, step, FillCheck, TypedWords, Places
<1>9. CASE Saturated
  BY <1>9 DEF Saturated, vars, world, tables, step, TypedWords, Places
<1>10. CASE NoCandidate
  BY <1>10 DEF NoCandidate, vars, world, tables, step, TypedWords, Places
<1>11. CASE DispatchDepFailed
  BY <1>11 DEF DispatchDepFailed, HandledNoSubprocess, vars, world, tables, step, TypedWords, Places
<1>12. CASE TriggerSkips
  BY <1>12 DEF TriggerSkips, HandledNoSubprocess, vars, world, tables, step, TypedWords, Places
<1>13. CASE OrphanDefers
  BY <1>13 DEF OrphanDefers, HandledNoSubprocess, vars, world, tables, step, TypedWords, Places
<1>14. CASE Spawned
  BY <1>14 DEF Spawned, vars, world, tables, step, TypedWords, Places
<1>15. CASE Judge
  BY <1>15 DEF Judge, vars, world, tables, step, Arbitration, TypedWords, Places
<1>16. CASE Reap
  BY <1>16 DEF Reap, vars, world, tables, step, TypedWords, Places
<1>17. CASE LastStep
  BY <1>17 DEF LastStep, End, Forget, Fresh, vars, world, tables, step, TypedWords, Places
<1>18. ASSUME NEW u \in Jobs, Succeeds(u) PROVE TypedWords'
  BY <1>18 DEF Succeeds, Settling, vars, world, tables, step, TypedWords, Places
<1>19. ASSUME NEW u \in Jobs, Fails(u) PROVE TypedWords'
  BY <1>19 DEF Fails, Settling, vars, world, tables, step, TypedWords, Places
<1>20. ASSUME NEW u \in Jobs, PutBack(u) PROVE TypedWords'
  BY <1>20 DEF PutBack, Settling, vars, world, tables, step, TypedWords, Places
<1>21. CASE RequestStop
  BY <1>21 DEF RequestStop, Happens, run, vars, world, tables, step, TypedWords, Places
<1>22. CASE Kill
  BY <1>22 DEF Kill, End, Forget, Fresh, Happens, vars, world, tables, step, TypedWords, Places
<1>23. CASE OrphanExits
  BY <1>23 DEF OrphanExits, run, vars, world, tables, step, TypedWords, Places
<1>24. CASE EnqueueElsewhere
  BY <1>24 DEF EnqueueElsewhere, Happens, run, vars, world, tables, step, TypedWords, Places
<1>25. CASE Resume
  BY <1>25 DEF Resume, run, vars, world, tables, step, TypedWords, Places
<1>26. CASE UNCHANGED vars
  BY <1>26 DEF vars, world, tables, step, TypedWords, Places
<1> QED BY <1>1, <1>2, <1>3, <1>4, <1>5, <1>6, <1>7, <1>8, <1>9, <1>10, <1>11, <1>12, <1>13, <1>14, <1>15, <1>16, <1>17, <1>18, <1>19, <1>20, <1>21, <1>22, <1>23, <1>24, <1>25, <1>26 DEF Next, Main

LEMMA TypedCountsStep ==
  ASSUME TypedCounts, [Next]_vars PROVE TypedCounts'
<1>1. CASE StartRun
  BY <1>1, LoopAssumption DEF StartRun, vars, world, tables, step, TypedCounts
<1>2. CASE Abort
  BY <1>2, LoopAssumption DEF Abort, End, Forget, Fresh, vars, world, tables, step, TypedCounts
<1>3. CASE Drained
  BY <1>3, LoopAssumption DEF Drained, End, Forget, Fresh, vars, world, tables, step, TypedCounts
<1>4. CASE EnterStep
  BY <1>4, LoopAssumption DEF EnterStep, Fresh, vars, world, tables, step, TypedCounts
<1>5. CASE Sift
  BY <1>5, LoopAssumption DEF Sift, vars, world, tables, step, TypedCounts
<1>6. CASE SkipOne
  BY <1>6, LoopAssumption DEF SkipOne, vars, world, tables, step, TypedCounts
<1>7. CASE Idle
  BY <1>7, LoopAssumption DEF Idle, End, Forget, Fresh, vars, world, tables, step, TypedCounts
<1>8. CASE Fill
  BY <1>8, LoopAssumption DEF Fill, vars, world, tables, step, TypedCounts
<1>9. CASE Saturated
  BY <1>9, LoopAssumption DEF Saturated, vars, world, tables, step, TypedCounts
<1>10. CASE NoCandidate
  BY <1>10, LoopAssumption DEF NoCandidate, vars, world, tables, step, TypedCounts
<1>11. CASE DispatchDepFailed
  BY <1>11, LoopAssumption DEF DispatchDepFailed, HandledNoSubprocess, vars, world, tables, step, TypedCounts
<1>12. CASE TriggerSkips
  BY <1>12, LoopAssumption DEF TriggerSkips, HandledNoSubprocess, vars, world, tables, step, TypedCounts
<1>13. CASE OrphanDefers
  BY <1>13, LoopAssumption DEF OrphanDefers, HandledNoSubprocess, vars, world, tables, step, TypedCounts
<1>14. CASE Spawned
  BY <1>14, LoopAssumption DEF Spawned, vars, world, tables, step, TypedCounts
<1>15. CASE Judge
  BY <1>15, LoopAssumption DEF Judge, vars, world, tables, step, Arbitration, InGrace, TypedCounts
<1>16. CASE Reap
  BY <1>16, LoopAssumption DEF Reap, vars, world, tables, step, TypedCounts
<1>17. CASE LastStep
  BY <1>17, LoopAssumption DEF LastStep, End, Forget, Fresh, vars, world, tables, step, TypedCounts
<1>18. ASSUME NEW u \in Jobs, Succeeds(u) PROVE TypedCounts'
  BY <1>18, LoopAssumption DEF Succeeds, Settling, vars, world, tables, step, TypedCounts
<1>19. ASSUME NEW u \in Jobs, Fails(u) PROVE TypedCounts'
  BY <1>19, LoopAssumption DEF Fails, Settling, vars, world, tables, step, TypedCounts
<1>20. ASSUME NEW u \in Jobs, PutBack(u) PROVE TypedCounts'
  BY <1>20, LoopAssumption DEF PutBack, Settling, vars, world, tables, step, TypedCounts
<1>21. CASE RequestStop
  BY <1>21, LoopAssumption DEF RequestStop, Happens, run, vars, world, tables, step, TypedCounts
<1>22. CASE Kill
  BY <1>22, LoopAssumption DEF Kill, End, Forget, Fresh, Happens, vars, world, tables, step, TypedCounts
<1>23. CASE OrphanExits
  BY <1>23, LoopAssumption DEF OrphanExits, run, vars, world, tables, step, TypedCounts
<1>24. CASE EnqueueElsewhere
  BY <1>24, LoopAssumption DEF EnqueueElsewhere, Happens, run, vars, world, tables, step, TypedCounts
<1>25. CASE Resume
  BY <1>25, LoopAssumption DEF Resume, run, vars, world, tables, step, TypedCounts
<1>26. CASE UNCHANGED vars
  BY <1>26, LoopAssumption DEF vars, world, tables, step, TypedCounts
<1> QED BY <1>1, <1>2, <1>3, <1>4, <1>5, <1>6, <1>7, <1>8, <1>9, <1>10, <1>11, <1>12, <1>13, <1>14, <1>15, <1>16, <1>17, <1>18, <1>19, <1>20, <1>21, <1>22, <1>23, <1>24, <1>25, <1>26 DEF Next, Main

-----------------------------------------------------------------------------
(* The queue in memory and the queue on disk.                               *)

LEMMA ScanBounds ==
  /\ Deferred \subseteq Rows /\ Allowed \subseteq Rows /\ Stuck \subseteq Allowed
  /\ DepFailed \subseteq Allowed /\ MissingUids \subseteq Allowed
  /\ Ready \subseteq Allowed /\ Runnable \subseteq Ready /\ ImpossibleUids \subseteq Ready
  BY DEF Deferred, Allowed, Stuck, DepFailed, MissingUids, Ready, Runnable, ImpossibleUids

LEMMA CulpritsAllowed == \A C \in Culprits : C \subseteq Allowed
<1>1. \A C \in Cycles : C \subseteq Allowed
  BY ScanBounds DEF Cycles
<1> QED BY <1>1, ScanBounds DEF Culprits

LEMMA RowsAreJobs == TypedQueues => Rows \subseteq Jobs /\ ToSet(disk) \subseteq Jobs
  BY LineSet DEF TypedQueues, Rows

\* A cascade takes the jobs it starts from, and allowed rows.
LEMMA CascadeBounds ==
  ASSUME NEW S PROVE S \subseteq WithCascade(S) /\ WithCascade(S) \subseteq S \cup Allowed
<1>1. WithCascade(S) = ReachIn(deps, S, Allowed \ (succ \cup fail))
  BY ReachIsIn DEF WithCascade
<1> QED BY <1>1, ReachBounds

LEMMA SkipClosureBounds == Seeds \subseteq SkipClosure /\ SkipClosure \subseteq Rows
<1>1. SkipClosure = ReachIn(deps, Seeds, Rows)
  BY ReachIsIn DEF SkipClosure
<1>2. Seeds \subseteq Rows
  BY DEF Seeds
<1> QED BY <1>1, <1>2, ReachBounds

LEMMA TypedSetsStep ==
  ASSUME TypedQueues, TypedSets, Books, [Next]_vars PROVE TypedSets'
<1>1. CASE StartRun
  BY <1>1, RowsAreJobs DEF StartRun, vars, world, tables, step, TypedSets
<1>2. CASE Abort
  <2>1. PICK done \in SUBSET flight, bad \in SUBSET flight :
          /\ bad \subseteq done
          /\ succ' = (succ \ WithCascade(bad)) \cup (done \ bad)
          /\ fail' = (fail \ (done \ bad)) \cup WithCascade(bad)
    BY <1>2 DEF Abort
  <2>2. WithCascade(bad) \subseteq Jobs
    BY CascadeBounds, ScanBounds, RowsAreJobs DEF TypedSets
  <2>3. /\ flight' = {} /\ tskip' = {} /\ skipped' = {} /\ batch' = {} /\ firm' = {} /\ seen' = {}
        /\ absent' = absent /\ orphans' = orphans
    BY <1>2 DEF Abort, End, Forget, world
  <2> QED BY <2>1, <2>2, <2>3 DEF TypedSets
<1>3. CASE Drained
  BY <1>3 DEF Drained, End, Forget, Fresh, vars, world, tables, step, TypedSets
<1>4. CASE EnterStep
  BY <1>4 DEF EnterStep, Fresh, vars, world, tables, step, TypedSets
<1>5. CASE Sift
  BY <1>5, SkipClosureBounds, RowsAreJobs DEF Sift, vars, world, tables, step, TypedSets
<1>6. CASE SkipOne
  <2>1. PICK u \in NextDoomed : skipped' = skipped \cup {u} /\ firm' = firm \ {u}
    BY <1>6 DEF SkipOne
  <2>2. u \in Jobs
    BY <1>6, RowsAreJobs DEF SkipOne, NextDoomed, Books
  <2> QED BY <1>6, <2>1, <2>2 DEF SkipOne, world, TypedSets
<1>7. CASE Idle
  BY <1>7 DEF Idle, End, Forget, Fresh, vars, world, tables, step, TypedSets
<1>8. CASE Fill
  BY <1>8 DEF Fill, vars, world, tables, step, TypedSets
<1>9. CASE Saturated
  BY <1>9 DEF Saturated, vars, world, tables, step, TypedSets
<1>10. CASE NoCandidate
  BY <1>10 DEF NoCandidate, vars, world, tables, step, TypedSets
<1>11. CASE DispatchDepFailed
  <2>1. FirstOf(DepFailed) \in Jobs
    BY <1>11, FirstOfIn, ScanBounds, RowsAreJobs DEF DispatchDepFailed, TypedQueues
  <2>2. WithCascade({FirstOf(DepFailed)}) \subseteq Jobs
    BY <2>1, CascadeBounds, ScanBounds, RowsAreJobs
  <2> QED BY <1>11, <2>2 DEF DispatchDepFailed, Archive, HandledNoSubprocess, world, TypedSets
<1>12. CASE TriggerSkips
  <2>1. FirstOf(Runnable) \in Jobs
    BY <1>12, FirstOfIn, ScanBounds, RowsAreJobs DEF TriggerSkips, TypedQueues
  <2> QED BY <1>12, <2>1 DEF TriggerSkips, Marked, HandledNoSubprocess, world, TypedSets
<1>13. CASE OrphanDefers
  BY <1>13 DEF OrphanDefers, HandledNoSubprocess, vars, world, tables, step, TypedSets
<1>14. CASE Spawned
  <2>1. FirstOf(Runnable) \in Jobs
    BY <1>14, FirstOfIn, ScanBounds, RowsAreJobs DEF Spawned, TypedQueues
  <2> QED BY <1>14, <2>1 DEF Spawned, world, tables, TypedSets
<1>15. CASE Judge
  <2>1. UNCHANGED <<succ, fail>> \/ \E C \in Culprits : fail' = fail \cup C /\ succ' = succ \ C
    BY <1>15 DEF Judge, tables
  <2>2. \A C \in Culprits : C \subseteq Jobs
    BY CulpritsAllowed, ScanBounds, RowsAreJobs
  <2>3. succ' \subseteq Jobs /\ fail' \subseteq Jobs
    BY <2>1, <2>2 DEF TypedSets
  <2> QED BY <1>15, <2>3 DEF Judge, world, TypedSets
<1>16. CASE Reap
  BY <1>16 DEF Reap, vars, world, tables, step, TypedSets
<1>17. CASE LastStep
  BY <1>17 DEF LastStep, End, Forget, Fresh, vars, world, tables, step, TypedSets
<1>18. ASSUME NEW u \in Jobs, Succeeds(u) PROVE TypedSets'
  BY <1>18 DEF Succeeds, Settling, vars, world, tables, step, TypedSets
<1>19. ASSUME NEW u \in Jobs, Fails(u) PROVE TypedSets'
  <2>1. WithCascade({u}) \subseteq Jobs
    BY CascadeBounds, ScanBounds, RowsAreJobs
  <2> QED BY <1>19, <2>1 DEF Fails, Settling, Archive, TypedSets
<1>20. ASSUME NEW u \in Jobs, PutBack(u) PROVE TypedSets'
  BY <1>20 DEF PutBack, Settling, vars, world, tables, step, TypedSets
<1>21. CASE RequestStop
  BY <1>21 DEF RequestStop, Happens, run, vars, world, tables, step, TypedSets
<1>22. CASE Kill
  BY <1>22 DEF Kill, End, Forget, Fresh, Happens, vars, world, tables, step, TypedSets
<1>23. CASE OrphanExits
  BY <1>23 DEF OrphanExits, run, vars, world, tables, step, TypedSets
<1>24. CASE EnqueueElsewhere
  BY <1>24 DEF EnqueueElsewhere, Happens, run, vars, world, tables, step, TypedSets
<1>25. CASE Resume
  BY <1>25 DEF Resume, run, vars, world, tables, step, TypedSets
<1>26. CASE UNCHANGED vars
  BY <1>26 DEF vars, world, tables, step, TypedSets
<1> QED BY <1>1, <1>2, <1>3, <1>4, <1>5, <1>6, <1>7, <1>8, <1>9, <1>10, <1>11, <1>12, <1>13, <1>14, <1>15, <1>16, <1>17, <1>18, <1>19, <1>20, <1>21, <1>22, <1>23, <1>24, <1>25, <1>26 DEF Next, Main

\* The rows S leave both queues.
LEMMA RowsLeave ==
  ASSUME TypedQueues, NEW S, queue' = Without(queue, S), disk' = Without(disk, S)
  PROVE  TypedQueues' /\ Rows' = Rows \ S /\ ToSet(disk') = ToSet(disk) \ S
  BY WithoutLine DEF TypedQueues, Rows

\* The crash-safe save writes q after the rows that it does not hold.
LEMMA SavedLine ==
  ASSUME TypedQueues, NEW q \in Line
  PROVE  Saved(q) \in Line /\ ToSet(Saved(q)) = ToSet(disk) \cup ToSet(q)
<1>1. Without(disk, ToSet(q)) \in Line /\ ToSet(Without(disk, ToSet(q))) = ToSet(disk) \ ToSet(q)
  BY WithoutLine DEF TypedQueues
<1>2. /\ Without(disk, ToSet(q)) \o q \in Line
      /\ ToSet(Without(disk, ToSet(q)) \o q) = (ToSet(disk) \ ToSet(q)) \cup ToSet(q)
  BY <1>1, ConcatLine
<1> QED BY <1>2 DEF Saved


-----------------------------------------------------------------------------
(* What the steps do to the sets of rows.                                   *)

LEMMA SkipEffect ==
  ASSUME TypedQueues, Books, SkipOne
  PROVE  \E u \in Rows :
            /\ u \in DOMAIN doomed /\ \A v \in DOMAIN doomed : doomed[u] >= doomed[v]
            /\ TypedQueues' /\ Rows' = Rows \ {u} /\ ToSet(disk') = ToSet(disk) \ {u}
            /\ skipped' = skipped \cup {u} /\ firm' = firm \ {u}
            /\ doomed' = [v \in DOMAIN doomed \ {u} |-> doomed[v]]
            /\ pc' = IF DOMAIN doomed \ {u} = {} THEN "fill" ELSE "skips"
<1>1. PICK u \in NextDoomed : /\ disk' = Without(disk, {u}) /\ queue' = Without(queue, {u})
                              /\ skipped' = skipped \cup {u} /\ firm' = firm \ {u}
                              /\ doomed' = [v \in DOMAIN doomed \ {u} |-> doomed[v]]
                              /\ pc' = IF DOMAIN doomed \ {u} = {} THEN "fill" ELSE "skips"
  BY DEF SkipOne
<1>2. /\ u \in Rows /\ u \in DOMAIN doomed /\ \A v \in DOMAIN doomed : doomed[u] >= doomed[v]
  BY DEF SkipOne, NextDoomed, Books
<1>3. TypedQueues' /\ Rows' = Rows \ {u} /\ ToSet(disk') = ToSet(disk) \ {u}
  BY <1>1, RowsLeave
<1> QED BY <1>1, <1>2, <1>3

LEMMA DepFailedEffect ==
  ASSUME TypedQueues, DispatchDepFailed
  PROVE  \E gone \in SUBSET Allowed :
            /\ fail' = fail \cup gone /\ succ' = succ \ gone
            /\ TypedQueues' /\ Rows' = Rows \ gone /\ ToSet(disk') = ToSet(disk) \ gone
<1> DEFINE gone == WithCascade({FirstOf(DepFailed)})
<1>1. gone \subseteq Allowed
  BY FirstOfIn, ScanBounds, CascadeBounds DEF DispatchDepFailed, TypedQueues
<1>2. /\ fail' = fail \cup gone /\ succ' = succ \ gone
      /\ queue' = Without(queue, gone) /\ disk' = Without(disk, gone)
  BY DEF DispatchDepFailed, Archive
<1> HIDE DEF gone
<1>3. TypedQueues' /\ Rows' = Rows \ gone /\ ToSet(disk') = ToSet(disk) \ gone
  BY <1>2, RowsLeave
<1> QED BY <1>1, <1>2, <1>3

LEMMA TriggerEffect ==
  ASSUME TypedQueues, TriggerSkips
  PROVE  \E u \in Runnable :
            /\ u \in Rows /\ tskip' = tskip \cup {u}
            /\ TypedQueues' /\ Rows' = Rows \ {u} /\ ToSet(disk') = ToSet(disk) \ {u}
<1>1. PICK u \in Runnable : /\ queue' = Without(queue, {u}) /\ disk' = Without(disk, {u})
                            /\ tskip' = tskip \cup {u}
  BY FirstOfIn, ScanBounds DEF TriggerSkips, Marked, TypedQueues
<1>2. TypedQueues' /\ Rows' = Rows \ {u} /\ ToSet(disk') = ToSet(disk) \ {u}
  BY <1>1, RowsLeave
<1> QED BY <1>1, <1>2, ScanBounds

LEMMA OrphanEffect ==
  ASSUME TypedQueues, OrphanDefers PROVE TypedQueues' /\ Rows' = Rows
<1>1. PICK u \in Rows : queue' = <<u>> \o Without(queue, {u})
  BY FirstOfIn, ScanBounds DEF OrphanDefers, TypedQueues
<1>2. Without(queue, {u}) \in Line /\ ToSet(Without(queue, {u})) = Rows \ {u}
  BY WithoutLine DEF TypedQueues, Rows
<1>3. <<u>> \in Line /\ ToSet(<<u>>) = {u}
  BY SingleLine, RowsAreJobs
<1>4. {u} \cap (Rows \ {u}) = {} /\ {u} \cup (Rows \ {u}) = Rows
  OBVIOUS
<1>5. queue' \in Line /\ ToSet(queue') = {u} \cup (Rows \ {u})
  BY <1>1, <1>2, <1>3, <1>4, ConcatLine
<1>6. disk' = disk
  BY DEF OrphanDefers
<1> QED BY <1>4, <1>5, <1>6 DEF Rows, TypedQueues

LEMMA SpawnEffect ==
  ASSUME TypedQueues, Spawned
  PROVE  \E u \in Runnable :
            /\ u \in Rows /\ TypedQueues' /\ Rows' = Rows \ {u} /\ flight' = flight \cup {u}
<1>1. PICK u \in Runnable : queue' = Without(queue, {u}) /\ flight' = flight \cup {u}
  BY FirstOfIn, ScanBounds DEF Spawned, TypedQueues
<1>2. queue' \in Line /\ Rows' = Rows \ {u}
  BY <1>1, WithoutLine DEF TypedQueues, Rows
<1>3. TypedQueues'
  BY <1>2 DEF TypedQueues, Spawned, tables
<1> QED BY <1>1, <1>2, <1>3, ScanBounds

LEMMA JudgeEffect ==
  ASSUME TypedQueues, Judge
  PROVE  \/ UNCHANGED <<queue, disk, succ, fail>>
         \/ /\ MissingUids \cup ImpossibleUids # {} \/ Cycles # {}
            /\ last = "no_candidate"
            /\ \E C \in Culprits :
                  /\ C \subseteq Allowed /\ fail' = fail \cup C /\ succ' = succ \ C
                  /\ TypedQueues' /\ Rows' = Rows \ C /\ ToSet(disk') = ToSet(disk) \ C
<1>1. \/ UNCHANGED <<queue, disk, succ, fail>>
      \/ /\ last = "no_candidate" /\ Arbitration = "resolved"
         /\ \E C \in Culprits : /\ fail' = fail \cup C /\ succ' = succ \ C
                                /\ queue' = Without(queue, C) /\ disk' = Without(disk, C)
  BY DEF Judge, tables
<1>2. Arbitration = "resolved" => MissingUids \cup ImpossibleUids # {} \/ Cycles # {}
  BY DEF Arbitration
<1>3. ASSUME NEW C \in Culprits, queue' = Without(queue, C), disk' = Without(disk, C)
      PROVE  /\ C \subseteq Allowed
             /\ TypedQueues' /\ Rows' = Rows \ C /\ ToSet(disk') = ToSet(disk) \ C
  BY <1>3, RowsLeave, CulpritsAllowed
<1> QED BY <1>1, <1>2, <1>3

LEMMA SucceedsEffect ==
  ASSUME TypedQueues, TypedSets, Mirror, Books, NEW u \in Jobs, Succeeds(u)
  PROVE  /\ u \in flight /\ u \notin Rows /\ flight' = flight \ {u}
         /\ succ' = succ \cup {u} /\ fail' = fail \ {u}
         /\ \E born \in SUBSET absent :
               /\ absent' = absent \ born /\ seen' = seen \cup born
               /\ born \cap ToSet(disk) = {} /\ born \cap seen = {}
               /\ TypedQueues' /\ Rows' = born \cup Rows /\ ToSet(disk') = born \cup (ToSet(disk) \ {u})
<1>1. PICK born \in SUBSET absent :
        /\ queue' = Without(Order, Jobs \ born) \o queue
        /\ disk' = Without(Order, Jobs \ born) \o Without(disk, {u})
        /\ absent' = absent \ born /\ seen' = seen \cup born
  BY DEF Succeeds
<1>2. /\ u \in flight /\ u \notin Rows /\ flight' = flight \ {u}
      /\ succ' = succ \cup {u} /\ fail' = fail \ {u} /\ pc # "down"
  BY DEF Succeeds, Settling, Books, Mirror
<1> DEFINE kids == Without(Order, Jobs \ born)
<1>3. kids \in Line /\ ToSet(kids) = born
  <2>1. kids \in Line /\ ToSet(kids) = Jobs \ (Jobs \ born)
    BY OrderLine, WithoutLine
  <2>2. born \subseteq Jobs
    BY DEF TypedSets
  <2> QED BY <2>1, <2>2
<1> HIDE DEF kids
<1>4. Without(disk, {u}) \in Line /\ ToSet(Without(disk, {u})) = ToSet(disk) \ {u}
  BY WithoutLine DEF TypedQueues
<1>5. born \cap ToSet(disk) = {} /\ born \cap seen = {} /\ born \cap Rows = {}
  BY <1>2 DEF Books, Mirror
<1>6. kids \o queue \in Line /\ ToSet(kids \o queue) = born \cup Rows
  BY <1>3, <1>5, ConcatLine DEF TypedQueues, Rows
<1>7. /\ kids \o Without(disk, {u}) \in Line
      /\ ToSet(kids \o Without(disk, {u})) = born \cup (ToSet(disk) \ {u})
  <2>1. PICK rest : rest = Without(disk, {u})
    OBVIOUS
  <2>2. rest \in Line /\ ToSet(rest) = ToSet(disk) \ {u} /\ ToSet(kids) \cap ToSet(rest) = {}
    BY <1>3, <1>4, <1>5, <2>1
  <2>3. kids \o rest \in Line /\ ToSet(kids \o rest) = ToSet(kids) \cup ToSet(rest)
    BY <1>3, <2>2, ConcatLine
  <2> QED BY <1>3, <2>1, <2>2, <2>3
<1>8. TypedQueues' /\ Rows' = born \cup Rows /\ ToSet(disk') = born \cup (ToSet(disk) \ {u})
  BY <1>1, <1>6, <1>7 DEF TypedQueues, Rows, kids
<1> QED BY <1>1, <1>2, <1>5, <1>8

LEMMA FailsEffect ==
  ASSUME TypedQueues, Mirror, Books, NEW u \in Jobs, Fails(u)
  PROVE  /\ u \in flight /\ u \notin Rows /\ flight' = flight \ {u}
         /\ \E gone : /\ u \in gone /\ gone \subseteq {u} \cup Allowed
                      /\ fail' = fail \cup gone /\ succ' = succ \ gone
                      /\ TypedQueues' /\ Rows' = Rows \ gone /\ ToSet(disk') = ToSet(disk) \ gone
<1> DEFINE gone == WithCascade({u})
<1>1. /\ fail' = fail \cup gone /\ succ' = succ \ gone
      /\ queue' = Without(queue, gone) /\ disk' = Without(disk, gone)
  BY DEF Fails, Archive
<1>2. u \in flight /\ u \notin Rows /\ flight' = flight \ {u}
  BY DEF Fails, Settling, Books, Mirror
<1>3. u \in gone /\ gone \subseteq {u} \cup Allowed
  BY CascadeBounds
<1> HIDE DEF gone
<1>4. TypedQueues' /\ Rows' = Rows \ gone /\ ToSet(disk') = ToSet(disk) \ gone
  BY <1>1, RowsLeave
<1> QED BY <1>1, <1>2, <1>3, <1>4

LEMMA PutBackEffect ==
  ASSUME TypedQueues, Mirror, Books, NEW u \in Jobs, PutBack(u)
  PROVE  /\ u \in flight /\ u \notin Rows /\ flight' = flight \ {u}
         /\ TypedQueues' /\ Rows' = {u} \cup Rows /\ UNCHANGED tables
<1>1. /\ queue' = <<u>> \o queue /\ UNCHANGED tables
      /\ u \in flight /\ u \notin Rows /\ flight' = flight \ {u}
  BY DEF PutBack, Settling, Books, Mirror
<1>2. queue' \in Line /\ Rows' = {u} \cup Rows
  BY <1>1, SingleLine, ConcatLine DEF TypedQueues, Rows
<1> QED BY <1>1, <1>2 DEF TypedQueues, tables

\* What the cascade of the aborted failures takes is not among the finished jobs, and
\* the saved queue holds what it held, but for what has been settled.
LEMMA AbortEffect ==
  ASSUME TypedQueues, TypedSets, Mirror, Books, Abort
  PROVE  \E done \in SUBSET flight, bad \in SUBSET flight, gone \in SUBSET Jobs :
            /\ bad \subseteq done /\ bad \subseteq gone /\ gone \subseteq bad \cup Allowed
            /\ gone \cap (done \ bad) = {}
            /\ succ' = (succ \ gone) \cup (done \ bad) /\ fail' = (fail \ (done \ bad)) \cup gone
            /\ disk' \in Line /\ ToSet(disk') = ToSet(disk) \ (done \cup gone)
<1>1. PICK done \in SUBSET flight, bad \in SUBSET flight :
        /\ bad \subseteq done
        /\ succ' = (succ \ WithCascade(bad)) \cup (done \ bad)
        /\ fail' = (fail \ (done \ bad)) \cup WithCascade(bad)
        /\ disk' = Without(Saved(Without(Order, Jobs \ (flight \ done)) \o queue),
                           done \cup WithCascade(bad))
  BY DEF Abort
<1>2. Rows \cup flight \subseteq ToSet(disk) /\ Rows \cap flight = {}
  BY DEF Abort, AtGate, Mirror
<1> DEFINE gone == WithCascade(bad)
           aborted == Without(Order, Jobs \ (flight \ done))
<1>3. aborted \in Line /\ ToSet(aborted) \subseteq flight
  BY OrderLine, WithoutLine
<1>4. aborted \o queue \in Line /\ ToSet(aborted \o queue) \subseteq flight \cup Rows
  BY <1>2, <1>3, ConcatLine DEF Rows, TypedQueues
<1>5. bad \subseteq gone /\ gone \subseteq bad \cup Allowed /\ gone \cap (done \ bad) = {}
  BY <1>2, CascadeBounds, ScanBounds
<1> HIDE DEF aborted, gone
<1>6. Saved(aborted \o queue) \in Line /\ ToSet(Saved(aborted \o queue)) = ToSet(disk)
  <2>1. /\ Saved(aborted \o queue) \in Line
        /\ ToSet(Saved(aborted \o queue)) = ToSet(disk) \cup ToSet(aborted \o queue)
    BY <1>4, SavedLine
  <2>2. ToSet(disk) \cup ToSet(aborted \o queue) = ToSet(disk)
    BY <1>2, <1>4
  <2> QED BY <2>1, <2>2
<1>7. disk' = Without(Saved(aborted \o queue), done \cup gone)
  BY <1>1 DEF aborted, gone
<1>8. disk' \in Line /\ ToSet(disk') = ToSet(disk) \ (done \cup gone)
  BY <1>6, <1>7, WithoutLine
<1>9. succ' = (succ \ gone) \cup (done \ bad) /\ fail' = (fail \ (done \ bad)) \cup gone
  BY <1>1 DEF gone
<1>10. gone \in SUBSET Jobs
  BY <1>5, ScanBounds, RowsAreJobs DEF TypedSets
<1> QED BY <1>1, <1>5, <1>8, <1>9, <1>10

LEMMA QueueStep ==
  ASSUME TypedQueues, TypedSets, Mirror, Books, [Next]_vars PROVE TypedQueues' /\ Mirror' /\ Books'
<1>1. CASE StartRun
  <2>1. queue' = disk /\ disk' = disk /\ flight' = {} /\ seen' = ToSet(disk) /\ batch' = {}
    BY <1>1 DEF StartRun, tables, Books
  <2>2. TypedQueues' /\ Mirror'
    BY <2>1 DEF TypedQueues, Mirror, Rows
  <2>3. Books'
    BY <1>1, <2>1 DEF StartRun, tables, world, Books
  <2> QED BY <2>2, <2>3
<1>2. CASE Abort
  <2>1. PICK done \in SUBSET flight, bad \in SUBSET flight, gone \in SUBSET Jobs :
          /\ gone \cap (done \ bad) = {}
          /\ succ' = (succ \ gone) \cup (done \ bad) /\ fail' = (fail \ (done \ bad)) \cup gone
          /\ disk' \in Line /\ ToSet(disk') = ToSet(disk) \ (done \cup gone)
    BY <1>2, AbortEffect
  <2>2. /\ pc' = "down" /\ queue' = <<>> /\ flight' = {} /\ batch' = {} /\ seen' = {}
        /\ absent' = absent
    BY <1>2 DEF Abort, End, Forget, world
  <2>3. TypedQueues' /\ Mirror'
    BY <2>1, <2>2, EmptyLine DEF TypedQueues, Mirror
  <2>4. Books'
    BY <2>1, <2>2 DEF Books
  <2> QED BY <2>3, <2>4
<1>3. CASE Drained
  <2>1. pc # "down" /\ pc' = "down" /\ queue' = <<>> /\ flight' = {} /\ batch' = {} /\ seen' = {}
        /\ absent' = absent /\ succ' = succ /\ fail' = fail /\ disk' = Saved(queue)
    BY <1>3 DEF Drained, AtGate, End, Forget, world
  <2>2. disk' \in Line /\ ToSet(disk') \subseteq ToSet(disk)
    BY <2>1, SavedLine DEF Mirror, TypedQueues, Rows
  <2>3. TypedQueues' /\ Mirror'
    BY <2>1, <2>2, EmptyLine DEF TypedQueues, Mirror
  <2>4. Books'
    BY <2>1, <2>2 DEF Books
  <2> QED BY <2>3, <2>4
<1>4. CASE EnterStep
  <2>1. /\ UNCHANGED <<queue, disk, flight, seen, absent, succ, fail, batch>>
        /\ pc # "down" /\ pc' # "down" /\ pc' # "skips"
    BY <1>4 DEF EnterStep, AtGate, tables, world
  <2>2. TypedQueues' /\ Mirror'
    BY <2>1 DEF TypedQueues, Mirror, Rows
  <2>3. Books'
    BY <1>4, <2>1 DEF EnterStep, AtGate, Books
  <2> QED BY <2>2, <2>3
<1>5. CASE Sift
  <2>1. UNCHANGED <<queue, disk, flight, seen, absent, succ, fail, batch>> /\ pc # "down" /\ pc' # "down"
    BY <1>5 DEF Sift, tables, world
  <2>2. TypedQueues' /\ Mirror' /\ Rows' = Rows
    BY <2>1 DEF TypedQueues, Mirror, Rows
  <2>3. DOMAIN doomed' \subseteq Rows
    <3>1. PICK C : doomed' \in Depths(C) /\ C \subseteq Rows
      BY <1>5, SkipClosureBounds DEF Sift
    <3> QED BY <3>1 DEF Depths
  <2>4. Books'
    BY <2>1, <2>2, <2>3 DEF Books
  <2> QED BY <2>2, <2>4
<1>6. CASE SkipOne
  <2>1. PICK u \in Rows : /\ TypedQueues' /\ Rows' = Rows \ {u} /\ ToSet(disk') = ToSet(disk) \ {u}
                      /\ doomed' = [v \in DOMAIN doomed \ {u} |-> doomed[v]]
    BY <1>6, SkipEffect
  <2>2. /\ UNCHANGED <<flight, seen, absent, succ, fail, batch>> /\ pc # "down" /\ pc' # "down"
    BY <1>6 DEF SkipOne, world, tables
  <2>3. Mirror'
    BY <2>1, <2>2 DEF Mirror
  <2>4. DOMAIN doomed' = DOMAIN doomed \ {u} /\ DOMAIN doomed \subseteq Rows
    BY <1>6, <2>1 DEF SkipOne, Books
  <2>5. Books'
    BY <2>1, <2>2, <2>4 DEF Books
  <2> QED BY <2>1, <2>3, <2>5
<1>7. CASE Idle
  <2>1. queue' = <<>> /\ disk' = disk /\ pc' = "down" /\ flight' = {} /\ batch' = {} /\ seen' = {}
    BY <1>7 DEF Idle, End, Forget, tables
  <2>2. TypedQueues' /\ Mirror'
    BY <2>1, EmptyLine DEF TypedQueues, Mirror
  <2>3. Books'
    BY <1>7, <2>1 DEF Idle, tables, world, Books
  <2> QED BY <2>2, <2>3
<1>8. CASE Fill
  <2>1. /\ UNCHANGED <<queue, disk, flight, seen, absent, succ, fail, batch>>
        /\ pc # "down" /\ pc' # "down" /\ pc' # "skips"
    BY <1>8 DEF Fill, FillCheck, tables, world
  <2>2. TypedQueues' /\ Mirror'
    BY <2>1 DEF TypedQueues, Mirror, Rows
  <2>3. Books'
    BY <1>8, <2>1 DEF Fill, FillCheck, Books
  <2> QED BY <2>2, <2>3
<1>9. CASE Saturated
  <2>1. /\ UNCHANGED <<queue, disk, flight, seen, absent, succ, fail, batch>>
        /\ pc # "down" /\ pc' # "down" /\ pc' # "skips"
    BY <1>9 DEF Saturated, tables, world
  <2>2. TypedQueues' /\ Mirror'
    BY <2>1 DEF TypedQueues, Mirror, Rows
  <2>3. Books'
    BY <1>9, <2>1 DEF Saturated, Books
  <2> QED BY <2>2, <2>3
<1>10. CASE NoCandidate
  <2>1. /\ UNCHANGED <<queue, disk, flight, seen, absent, succ, fail, batch>>
        /\ pc # "down" /\ pc' # "down" /\ pc' # "skips"
    BY <1>10 DEF NoCandidate, Picking, tables, world
  <2>2. TypedQueues' /\ Mirror'
    BY <2>1 DEF TypedQueues, Mirror, Rows
  <2>3. Books'
    BY <1>10, <2>1 DEF NoCandidate, Picking, Books
  <2> QED BY <2>2, <2>3
<1>11. CASE DispatchDepFailed
  <2>1. PICK gone \in SUBSET Allowed :
          /\ fail' = fail \cup gone /\ succ' = succ \ gone
          /\ TypedQueues' /\ Rows' = Rows \ gone /\ ToSet(disk') = ToSet(disk) \ gone
    BY <1>11, DepFailedEffect
  <2>2. /\ UNCHANGED <<flight, seen, absent, batch>> /\ pc # "down" /\ pc' # "down" /\ pc' # "skips"
    BY <1>11 DEF DispatchDepFailed, Picking, HandledNoSubprocess, world, tables
  <2>3. Mirror'
    BY <2>1, <2>2, ScanBounds DEF Mirror
  <2>4. Books'
    BY <2>1, <2>2 DEF Books
  <2> QED BY <2>1, <2>3, <2>4
<1>12. CASE TriggerSkips
  <2>1. PICK u \in Rows : TypedQueues' /\ Rows' = Rows \ {u} /\ ToSet(disk') = ToSet(disk) \ {u}
    BY <1>12, TriggerEffect
  <2>2. /\ UNCHANGED <<flight, seen, absent, batch, succ, fail>> /\ pc # "down" /\ pc' # "down" /\ pc' # "skips"
    BY <1>12 DEF TriggerSkips, Picking, HandledNoSubprocess, world, tables
  <2>3. Mirror'
    BY <2>1, <2>2 DEF Mirror
  <2>4. Books'
    BY <2>1, <2>2 DEF Books
  <2> QED BY <2>1, <2>3, <2>4
<1>13. CASE OrphanDefers
  <2>1. TypedQueues' /\ Rows' = Rows
    BY <1>13, OrphanEffect
  <2>2. /\ UNCHANGED <<disk, flight, seen, absent, batch, succ, fail>>
        /\ pc # "down" /\ pc' # "down" /\ pc' # "skips"
    BY <1>13 DEF OrphanDefers, Picking, HandledNoSubprocess, world
  <2>3. Mirror'
    BY <2>1, <2>2 DEF Mirror
  <2>4. Books'
    BY <2>2 DEF Books
  <2> QED BY <2>1, <2>3, <2>4
<1>14. CASE Spawned
  <2>1. PICK u \in Rows : TypedQueues' /\ Rows' = Rows \ {u} /\ flight' = flight \cup {u}
    BY <1>14, SpawnEffect
  <2>2. /\ UNCHANGED <<disk, seen, absent, batch, succ, fail>> /\ pc # "down" /\ pc' # "down" /\ pc' # "skips"
    BY <1>14 DEF Spawned, Picking, world, tables
  <2>3. Mirror'
    BY <2>1, <2>2 DEF Mirror
  <2>4. Books'
    BY <2>1, <2>2 DEF Books
  <2> QED BY <2>1, <2>3, <2>4
<1>15. CASE Judge
  <2>1. /\ UNCHANGED <<flight, seen, absent, batch>> /\ flight = {}
        /\ pc # "down" /\ pc' # "down" /\ pc' # "skips"
    BY <1>15 DEF Judge, world
  <2>2. CASE UNCHANGED <<queue, disk, succ, fail>>
    BY <2>1, <2>2 DEF TypedQueues, Mirror, Books, Rows
  <2>3. ASSUME NEW C \in Culprits, fail' = fail \cup C, succ' = succ \ C,
               TypedQueues', Rows' = Rows \ C, ToSet(disk') = ToSet(disk) \ C
        PROVE  TypedQueues' /\ Mirror' /\ Books'
    <3>1. Mirror'
      BY <2>1, <2>3 DEF Mirror
    <3>2. Books'
      BY <2>1, <2>3 DEF Books
    <3> QED BY <2>3, <3>1, <3>2
  <2> QED BY <1>15, <2>2, <2>3, JudgeEffect
<1>16. CASE Reap
  <2>1. /\ UNCHANGED <<queue, disk, flight, seen, absent, succ, fail>>
        /\ pc # "down" /\ pc' # "down" /\ pc' # "skips"
    BY <1>16 DEF Reap, tables, world
  <2>2. TypedQueues' /\ Mirror'
    BY <2>1 DEF TypedQueues, Mirror, Rows
  <2>3. Books'
    BY <1>16, <2>1 DEF Reap, Books
  <2> QED BY <2>2, <2>3
<1>17. CASE LastStep
  <2>1. queue' = <<>> /\ disk' = disk /\ pc' = "down" /\ flight' = {} /\ batch' = {} /\ seen' = {}
    BY <1>17 DEF LastStep, End, Forget, tables
  <2>2. TypedQueues' /\ Mirror'
    BY <2>1, EmptyLine DEF TypedQueues, Mirror
  <2>3. Books'
    BY <1>17, <2>1 DEF LastStep, tables, world, Books
  <2> QED BY <2>2, <2>3
<1>18. ASSUME NEW u \in Jobs, Succeeds(u) PROVE TypedQueues' /\ Mirror' /\ Books'
  <2>1. PICK born \in SUBSET absent :
          /\ absent' = absent \ born /\ seen' = seen \cup born
          /\ born \cap ToSet(disk) = {} /\ born \cap seen = {}
          /\ TypedQueues' /\ Rows' = born \cup Rows /\ ToSet(disk') = born \cup (ToSet(disk) \ {u})
    BY <1>18, SucceedsEffect
  <2>2. /\ u \in flight /\ u \notin Rows /\ flight' = flight \ {u} /\ batch' = batch \ {u}
        /\ succ' = succ \cup {u} /\ fail' = fail \ {u}
        /\ pc # "down" /\ pc' # "down" /\ pc' # "skips"
    BY <1>18, SucceedsEffect DEF Succeeds, Settling
  <2>3. Mirror'
    BY <2>1, <2>2 DEF Mirror
  <2>4. Books'
    BY <2>1, <2>2 DEF Books
  <2> QED BY <2>1, <2>3, <2>4
<1>19. ASSUME NEW u \in Jobs, Fails(u) PROVE TypedQueues' /\ Mirror' /\ Books'
  <2>1. PICK gone : /\ u \in gone /\ gone \subseteq {u} \cup Allowed
                    /\ fail' = fail \cup gone /\ succ' = succ \ gone
                    /\ TypedQueues' /\ Rows' = Rows \ gone /\ ToSet(disk') = ToSet(disk) \ gone
    BY <1>19, FailsEffect
  <2>2. /\ u \in flight /\ flight' = flight \ {u} /\ batch' = batch \ {u}
        /\ UNCHANGED <<seen, absent>> /\ pc # "down" /\ pc' # "down" /\ pc' # "skips"
    BY <1>19, FailsEffect DEF Fails, Settling
  <2>3. Mirror'
    BY <2>1, <2>2, ScanBounds DEF Mirror
  <2>4. Books'
    BY <2>1, <2>2 DEF Books
  <2> QED BY <2>1, <2>3, <2>4
<1>20. ASSUME NEW u \in Jobs, PutBack(u) PROVE TypedQueues' /\ Mirror' /\ Books'
  <2>1. u \in flight /\ flight' = flight \ {u} /\ TypedQueues' /\ Rows' = {u} \cup Rows /\ UNCHANGED tables
    BY <1>20, PutBackEffect
  <2>2. /\ UNCHANGED <<disk, succ, fail, seen, absent>> /\ batch' = batch \ {u}
        /\ pc # "down" /\ pc' # "down" /\ pc' # "skips"
    BY <1>20, <2>1 DEF PutBack, Settling, tables
  <2>3. Mirror'
    BY <2>1, <2>2 DEF Mirror
  <2>4. Books'
    BY <2>1, <2>2 DEF Books
  <2> QED BY <2>1, <2>3, <2>4
<1>21. CASE RequestStop
  BY <1>21 DEF RequestStop, Happens, run, vars, world, tables, step, TypedQueues, Mirror, Books, Rows
<1>22. CASE Kill
  <2>1. queue' = <<>> /\ disk' = disk /\ pc' = "down" /\ flight' = {} /\ batch' = {} /\ seen' = {}
    BY <1>22 DEF Kill, End, Forget, tables
  <2>2. TypedQueues' /\ Mirror'
    BY <2>1, EmptyLine DEF TypedQueues, Mirror
  <2>3. Books'
    BY <1>22, <2>1 DEF Kill, tables, world, Books
  <2> QED BY <2>2, <2>3
<1>23. CASE OrphanExits
  BY <1>23 DEF OrphanExits, run, vars, world, tables, step, TypedQueues, Mirror, Books, Rows
<1>24. CASE EnqueueElsewhere
  <2>1. PICK u \in absent : absent' = absent \ {u} /\ disk' = Append(disk, u)
    BY <1>24 DEF EnqueueElsewhere
  <2>2. UNCHANGED <<queue, flight, seen, batch, succ, fail, pc, doomed>>
    BY <1>24 DEF EnqueueElsewhere, run
  <2>3. disk' \in Line /\ ToSet(disk') = ToSet(disk) \cup {u} /\ u \notin ToSet(disk) /\ u \notin seen
    BY <2>1, AppendLine DEF TypedQueues, TypedSets, Books
  <2>4. TypedQueues' /\ Mirror' /\ Rows' = Rows
    BY <2>2, <2>3 DEF TypedQueues, Mirror, Rows
  <2>5. Books'
    BY <2>1, <2>2, <2>3, <2>4 DEF Books
  <2> QED BY <2>4, <2>5
<1>25. CASE Resume
  BY <1>25 DEF Resume, run, vars, world, tables, step, TypedQueues, Mirror, Books, Rows
<1>26. CASE UNCHANGED vars
  BY <1>26 DEF vars, world, tables, step, TypedQueues, Mirror, Books, Rows
<1> QED BY <1>1, <1>2, <1>3, <1>4, <1>5, <1>6, <1>7, <1>8, <1>9, <1>10, <1>11, <1>12, <1>13, <1>14, <1>15, <1>16, <1>17, <1>18, <1>19, <1>20, <1>21, <1>22, <1>23, <1>24, <1>25, <1>26 DEF Next, Main


\* The constants of the model, as the proofs use them.
LEMMA Limits == Grace \in Nat /\ MaxEvents \in Nat /\ Shapes \subseteq [Jobs -> SUBSET Jobs]
  BY LoopAssumption DEF Jobs

LEMMA QueueInvInit == Init => QueueInv
<1> SUFFICES ASSUME Init PROVE QueueInv
  OBVIOUS
<1>1. TypedWorld
  BY Limits DEF Init, TypedWorld
<1>2. disk \in Line /\ ToSet(disk) = Jobs \ absent
  BY OrderLine, WithoutLine DEF Init
<1>3. TypedQueues
  BY <1>2, EmptyLine DEF Init, TypedQueues
<1>4. TypedSets
  BY DEF Init, TypedSets
<1>5. TypedFlags
  BY DEF Init, TypedFlags
<1>6. TypedWords
  BY DEF Init, TypedWords, Places
<1>7. TypedCounts
  BY Limits DEF Init, TypedCounts
<1>8. Mirror /\ Books
  BY <1>2 DEF Init, Mirror, Books
<1> QED BY <1>1, <1>3, <1>4, <1>5, <1>6, <1>7, <1>8 DEF QueueInv, Typed

LEMMA QueueInvStep == QueueInv /\ [Next]_vars => QueueInv'
  BY TypedWorldStep, TypedFlagsStep, TypedWordsStep, TypedCountsStep, TypedSetsStep, QueueStep
  DEF QueueInv, Typed

LEMMA QueueInvHolds == Spec => []QueueInv
  BY QueueInvInit, QueueInvStep, PTL DEF Spec

LEMMA TypedIsTypeOK == QueueInv => TypeOK
  BY DEF QueueInv, Typed, TypedWorld, TypedQueues, TypedSets, TypedFlags, TypedWords, TypedCounts,
         Mirror, Books, Line, TypeOK

\* The types of the variables; and, whatever is spawned, reaped, put back, archived,
\* skipped or enqueued by others in between, the queue in memory together with the jobs
\* in flight is what the queue on disk holds of the jobs this run has seen, no job is
\* queued twice, and none is queued and in flight, or in both archives, at once.
THEOREM LoopTypeCorrect == Spec => []TypeOK
  BY QueueInvHolds, TypedIsTypeOK, PTL

-----------------------------------------------------------------------------
(* The skip phase.                                                          *)

LEMMA RulesFixed == ASSUME [Next]_vars PROVE HasSkipRules' <=> HasSkipRules
  BY Fixed DEF HasSkipRules

LEMMA SeedsShrink ==
  ASSUME kind' = kind, deps' = deps, skipped' = skipped, Rows' \subseteq Rows
  PROVE  Seeds' \subseteq Seeds
  BY DEF Seeds

LEMMA DirtyPlaceStep ==
  ASSUME TypedFlags, DirtyPlace, [Next]_vars PROVE DirtyPlace'
<1>1. CASE StartRun
  BY <1>1 DEF StartRun, vars, world, tables, step, DirtyPlace
<1>2. CASE Abort
  BY <1>2 DEF Abort, End, Forget, Fresh, vars, world, tables, step, DirtyPlace
<1>3. CASE Drained
  BY <1>3 DEF Drained, End, Forget, Fresh, vars, world, tables, step, DirtyPlace
<1>4. CASE EnterStep
  BY <1>4 DEF EnterStep, Fresh, vars, world, tables, step, DirtyPlace
<1>5. CASE Sift
  BY <1>5 DEF Sift, vars, world, tables, step, DirtyPlace
<1>6. CASE SkipOne
  BY <1>6 DEF SkipOne, vars, world, tables, step, DirtyPlace
<1>7. CASE Idle
  BY <1>7 DEF Idle, End, Forget, Fresh, vars, world, tables, step, DirtyPlace
<1>8. CASE Fill
  BY <1>8 DEF Fill, vars, world, tables, step, FillCheck, DirtyPlace
<1>9. CASE Saturated
  BY <1>9 DEF Saturated, vars, world, tables, step, DirtyPlace
<1>10. CASE NoCandidate
  BY <1>10 DEF NoCandidate, Picking, vars, world, tables, step, DirtyPlace
<1>11. CASE DispatchDepFailed
  BY <1>11 DEF DispatchDepFailed, Picking, HandledNoSubprocess, vars, world, tables, step, DirtyPlace
<1>12. CASE TriggerSkips
  BY <1>12 DEF TriggerSkips, Picking, HandledNoSubprocess, vars, world, tables, step, DirtyPlace
<1>13. CASE OrphanDefers
  BY <1>13 DEF OrphanDefers, Picking, HandledNoSubprocess, vars, world, tables, step, DirtyPlace
<1>14. CASE Spawned
  BY <1>14 DEF Spawned, Picking, vars, world, tables, step, DirtyPlace
<1>15. CASE Judge
  BY <1>15 DEF Judge, vars, world, tables, step, DirtyPlace
<1>16. CASE Reap
  BY <1>16 DEF Reap, vars, world, tables, step, DirtyPlace
<1>17. CASE LastStep
  BY <1>17 DEF LastStep, End, Forget, Fresh, vars, world, tables, step, DirtyPlace
<1>18. ASSUME NEW u \in Jobs, Succeeds(u) PROVE DirtyPlace'
  BY <1>18 DEF Succeeds, Settling, vars, world, tables, step, DirtyPlace
<1>19. ASSUME NEW u \in Jobs, Fails(u) PROVE DirtyPlace'
  BY <1>19 DEF Fails, Settling, vars, world, tables, step, DirtyPlace
<1>20. ASSUME NEW u \in Jobs, PutBack(u) PROVE DirtyPlace'
  BY <1>20 DEF PutBack, Settling, vars, world, tables, step, DirtyPlace
<1>21. CASE RequestStop
  BY <1>21 DEF RequestStop, Happens, run, vars, world, tables, step, DirtyPlace
<1>22. CASE Kill
  BY <1>22 DEF Kill, End, Forget, Fresh, Happens, vars, world, tables, step, DirtyPlace
<1>23. CASE OrphanExits
  BY <1>23 DEF OrphanExits, run, vars, world, tables, step, DirtyPlace
<1>24. CASE EnqueueElsewhere
  BY <1>24 DEF EnqueueElsewhere, Happens, run, vars, world, tables, step, DirtyPlace
<1>25. CASE Resume
  BY <1>25 DEF Resume, run, vars, world, tables, step, DirtyPlace
<1>26. CASE UNCHANGED vars
  BY <1>26 DEF vars, world, tables, step, DirtyPlace
<1> QED BY <1>1, <1>2, <1>3, <1>4, <1>5, <1>6, <1>7, <1>8, <1>9, <1>10, <1>11, <1>12, <1>13, <1>14, <1>15, <1>16, <1>17, <1>18, <1>19, <1>20, <1>21, <1>22, <1>23, <1>24, <1>25, <1>26 DEF Next, Main

LEMMA RulesOKStep ==
  ASSUME RulesOK, [Next]_vars PROVE RulesOK'
<1>1. CASE StartRun
  BY <1>1, RulesFixed DEF StartRun, vars, world, tables, step, RulesOK
<1>2. CASE Abort
  BY <1>2, RulesFixed DEF Abort, End, Forget, Fresh, vars, world, tables, step, RulesOK
<1>3. CASE Drained
  BY <1>3, RulesFixed DEF Drained, End, Forget, Fresh, vars, world, tables, step, RulesOK
<1>4. CASE EnterStep
  BY <1>4, RulesFixed DEF EnterStep, Fresh, vars, world, tables, step, RulesOK
<1>5. CASE Sift
  <2>1. pc' = "skips" => HasSkipRules
    BY <1>5 DEF Sift
  <2>2. skipped' = skipped
    BY <1>5 DEF Sift
  <2> QED BY <2>1, <2>2, RulesFixed DEF RulesOK
<1>6. CASE SkipOne
  BY <1>6, RulesFixed DEF SkipOne, vars, world, tables, step, RulesOK
<1>7. CASE Idle
  BY <1>7, RulesFixed DEF Idle, End, Forget, Fresh, vars, world, tables, step, RulesOK
<1>8. CASE Fill
  BY <1>8, RulesFixed DEF Fill, vars, world, tables, step, FillCheck, RulesOK
<1>9. CASE Saturated
  BY <1>9, RulesFixed DEF Saturated, vars, world, tables, step, RulesOK
<1>10. CASE NoCandidate
  BY <1>10, RulesFixed DEF NoCandidate, vars, world, tables, step, RulesOK
<1>11. CASE DispatchDepFailed
  BY <1>11, RulesFixed DEF DispatchDepFailed, HandledNoSubprocess, vars, world, tables, step, RulesOK
<1>12. CASE TriggerSkips
  BY <1>12, RulesFixed DEF TriggerSkips, HandledNoSubprocess, vars, world, tables, step, RulesOK
<1>13. CASE OrphanDefers
  BY <1>13, RulesFixed DEF OrphanDefers, HandledNoSubprocess, vars, world, tables, step, RulesOK
<1>14. CASE Spawned
  BY <1>14, RulesFixed DEF Spawned, vars, world, tables, step, RulesOK
<1>15. CASE Judge
  BY <1>15, RulesFixed DEF Judge, vars, world, tables, step, RulesOK
<1>16. CASE Reap
  BY <1>16, RulesFixed DEF Reap, vars, world, tables, step, RulesOK
<1>17. CASE LastStep
  BY <1>17, RulesFixed DEF LastStep, End, Forget, Fresh, vars, world, tables, step, RulesOK
<1>18. ASSUME NEW u \in Jobs, Succeeds(u) PROVE RulesOK'
  BY <1>18, RulesFixed DEF Succeeds, Settling, vars, world, tables, step, RulesOK
<1>19. ASSUME NEW u \in Jobs, Fails(u) PROVE RulesOK'
  BY <1>19, RulesFixed DEF Fails, Settling, vars, world, tables, step, RulesOK
<1>20. ASSUME NEW u \in Jobs, PutBack(u) PROVE RulesOK'
  BY <1>20, RulesFixed DEF PutBack, Settling, vars, world, tables, step, RulesOK
<1>21. CASE RequestStop
  BY <1>21, RulesFixed DEF RequestStop, Happens, run, vars, world, tables, step, RulesOK
<1>22. CASE Kill
  BY <1>22, RulesFixed DEF Kill, End, Forget, Fresh, Happens, vars, world, tables, step, RulesOK
<1>23. CASE OrphanExits
  BY <1>23, RulesFixed DEF OrphanExits, run, vars, world, tables, step, RulesOK
<1>24. CASE EnqueueElsewhere
  BY <1>24, RulesFixed DEF EnqueueElsewhere, Happens, run, vars, world, tables, step, RulesOK
<1>25. CASE Resume
  BY <1>25, RulesFixed DEF Resume, run, vars, world, tables, step, RulesOK
<1>26. CASE UNCHANGED vars
  BY <1>26, RulesFixed DEF vars, world, tables, step, RulesOK
<1> QED BY <1>1, <1>2, <1>3, <1>4, <1>5, <1>6, <1>7, <1>8, <1>9, <1>10, <1>11, <1>12, <1>13, <1>14, <1>15, <1>16, <1>17, <1>18, <1>19, <1>20, <1>21, <1>22, <1>23, <1>24, <1>25, <1>26 DEF Next, Main

LEMMA SkipsDoneStep ==
  ASSUME TypedQueues, TypedSets, TypedFlags, Mirror, Books, SkipInv, [Next]_vars PROVE SkipsDone'
<1> USE DEF SkipInv
<1>1. CASE StartRun
  <2>1. dirty' = TRUE
    BY <1>1 DEF StartRun
  <2> QED BY <2>1 DEF SkipsDone
<1>2. CASE Abort
  <2>1. pc' = "down"
    BY <1>2 DEF Abort, End
  <2> QED BY <2>1 DEF SkipsDone
<1>3. CASE Drained
  <2>1. pc' = "down"
    BY <1>3 DEF Drained, End
  <2> QED BY <2>1 DEF SkipsDone
<1>4. CASE EnterStep
  <2>1. Rows' \subseteq Rows /\ skipped' = skipped /\ pc = "gate"
    BY <1>4 DEF EnterStep, AtGate, Rows
  <2>2. dirty = FALSE \/ pc' = "sift"
    BY <1>4, Zenon DEF EnterStep, TypedFlags
  <2> QED BY <2>1, <2>2, Fixed, SeedsShrink DEF SkipsDone
<1>5. CASE Sift
  <2>1. Rows' \subseteq Rows /\ skipped' = skipped
    BY <1>5 DEF Sift, Rows
  <2>2. pc' = "fill" => (HasSkipRules => SkipClosure = {})
    BY <1>5 DEF Sift
  <2>3. ~ HasSkipRules => Seeds = {}
    BY RowsAreJobs DEF RulesOK, HasSkipRules, Seeds
  <2>4. pc' # "fill" => pc' = "skips"
    BY <1>5 DEF Sift
  <2>5. pc' = "fill" => Seeds = {}
    BY <2>2, <2>3, SkipClosureBounds
  <2> QED BY <2>1, <2>4, <2>5, Fixed, SeedsShrink DEF SkipsDone
<1>6. CASE SkipOne
  <2>1. PICK u \in Rows : /\ Rows' = Rows \ {u} /\ skipped' = skipped \cup {u}
                          /\ pc' = IF DOMAIN doomed \ {u} = {} THEN "fill" ELSE "skips"
    BY <1>6, SkipEffect
  <2>2. pc' # "skips" => DOMAIN doomed \subseteq {u} /\ u \in DOMAIN doomed
    BY <1>6, <2>1 DEF SkipOne, NextDoomed
  <2>3. \A w \in Rows : (kind[w] = "skip" \/ deps[w] \cap (DOMAIN doomed \cup skipped) # {}) => w \in DOMAIN doomed
    BY <1>6 DEF SkipOne, DoomClosed
  <2>4. pc' # "skips" => Seeds' = {}
    BY <2>1, <2>2, <2>3, Fixed DEF Seeds
  <2> QED BY <2>4 DEF SkipsDone
<1>7. CASE Idle
  <2>1. pc' = "down"
    BY <1>7 DEF Idle, End
  <2> QED BY <2>1 DEF SkipsDone
<1>8. CASE Fill
  <2>1. Rows' \subseteq Rows /\ skipped' = skipped
    BY <1>8 DEF Fill, Rows
  <2>2. pc \in {"gate", "settle", "fill", "pick", "judge"} /\ dirty' = dirty
    BY <1>8 DEF Fill
  <2> QED BY <2>1, <2>2, Fixed, SeedsShrink DEF SkipsDone
<1>9. CASE Saturated
  <2>1. Rows' \subseteq Rows /\ skipped' = skipped
    BY <1>9 DEF Saturated, Rows
  <2>2. pc \in {"gate", "settle", "fill", "pick", "judge"} /\ dirty' = dirty
    BY <1>9 DEF Saturated
  <2> QED BY <2>1, <2>2, Fixed, SeedsShrink DEF SkipsDone
<1>10. CASE NoCandidate
  <2>1. Rows' \subseteq Rows /\ skipped' = skipped
    BY <1>10 DEF NoCandidate, Rows
  <2>2. pc \in {"gate", "settle", "fill", "pick", "judge"} /\ dirty' = dirty
    BY <1>10 DEF NoCandidate, Picking
  <2> QED BY <2>1, <2>2, Fixed, SeedsShrink DEF SkipsDone
<1>11. CASE DispatchDepFailed
  <2>1. Rows' \subseteq Rows /\ skipped' = skipped
    BY <1>11, DepFailedEffect DEF DispatchDepFailed, HandledNoSubprocess
  <2>2. pc \in {"gate", "settle", "fill", "pick", "judge"} /\ dirty' = dirty
    BY <1>11 DEF DispatchDepFailed, Picking, HandledNoSubprocess
  <2> QED BY <2>1, <2>2, Fixed, SeedsShrink DEF SkipsDone
<1>12. CASE TriggerSkips
  <2>1. Rows' \subseteq Rows /\ skipped' = skipped
    BY <1>12, TriggerEffect DEF TriggerSkips, HandledNoSubprocess
  <2>2. pc \in {"gate", "settle", "fill", "pick", "judge"} /\ dirty' = dirty
    BY <1>12 DEF TriggerSkips, Picking, HandledNoSubprocess
  <2> QED BY <2>1, <2>2, Fixed, SeedsShrink DEF SkipsDone
<1>13. CASE OrphanDefers
  <2>1. Rows' \subseteq Rows /\ skipped' = skipped
    BY <1>13, OrphanEffect DEF OrphanDefers, HandledNoSubprocess
  <2>2. pc \in {"gate", "settle", "fill", "pick", "judge"} /\ dirty' = dirty
    BY <1>13 DEF OrphanDefers, Picking, HandledNoSubprocess
  <2> QED BY <2>1, <2>2, Fixed, SeedsShrink DEF SkipsDone
<1>14. CASE Spawned
  <2>1. Rows' \subseteq Rows /\ skipped' = skipped
    BY <1>14, SpawnEffect DEF Spawned
  <2>2. pc \in {"gate", "settle", "fill", "pick", "judge"} /\ dirty' = dirty
    BY <1>14 DEF Spawned, Picking
  <2> QED BY <2>1, <2>2, Fixed, SeedsShrink DEF SkipsDone
<1>15. CASE Judge
  <2>1. Rows' \subseteq Rows /\ skipped' = skipped
    BY <1>15, JudgeEffect DEF Judge, Rows
  <2>2. pc \in {"gate", "settle", "fill", "pick", "judge"} /\ dirty' = dirty
    BY <1>15 DEF Judge
  <2> QED BY <2>1, <2>2, Fixed, SeedsShrink DEF SkipsDone
<1>16. CASE Reap
  <2>1. Rows' \subseteq Rows /\ skipped' = skipped
    BY <1>16 DEF Reap, Rows
  <2>2. pc \in {"gate", "settle", "fill", "pick", "judge"} /\ dirty' = dirty
    BY <1>16 DEF Reap
  <2> QED BY <2>1, <2>2, Fixed, SeedsShrink DEF SkipsDone
<1>17. CASE LastStep
  <2>1. pc' = "down"
    BY <1>17 DEF LastStep, End
  <2> QED BY <2>1 DEF SkipsDone
<1>18. ASSUME NEW u \in Jobs, Succeeds(u) PROVE SkipsDone'
  <2>1. dirty' = TRUE
    BY <1>18 DEF Succeeds, Settling, DirtyAfterSettling
  <2> QED BY <2>1 DEF SkipsDone
<1>19. ASSUME NEW u \in Jobs, Fails(u) PROVE SkipsDone'
  <2>1. dirty' = TRUE
    BY <1>19 DEF Fails, Settling, DirtyAfterSettling
  <2> QED BY <2>1 DEF SkipsDone
<1>20. ASSUME NEW u \in Jobs, PutBack(u) PROVE SkipsDone'
  <2>1. dirty' = TRUE
    BY <1>20 DEF PutBack, Settling, DirtyAfterSettling
  <2> QED BY <2>1 DEF SkipsDone
<1>21. CASE RequestStop
  <2>1. Rows' \subseteq Rows /\ skipped' = skipped /\ pc' = pc /\ dirty' = dirty
    BY <1>21 DEF RequestStop, run, Rows
  <2> QED BY <2>1, Fixed, SeedsShrink DEF SkipsDone
<1>22. CASE Kill
  <2>1. pc' = "down"
    BY <1>22 DEF Kill, End
  <2> QED BY <2>1 DEF SkipsDone
<1>23. CASE OrphanExits
  <2>1. Rows' \subseteq Rows /\ skipped' = skipped /\ pc' = pc /\ dirty' = dirty
    BY <1>23 DEF OrphanExits, run, Rows
  <2> QED BY <2>1, Fixed, SeedsShrink DEF SkipsDone
<1>24. CASE EnqueueElsewhere
  <2>1. Rows' \subseteq Rows /\ skipped' = skipped /\ pc' = pc /\ dirty' = dirty
    BY <1>24 DEF EnqueueElsewhere, run, Rows
  <2> QED BY <2>1, Fixed, SeedsShrink DEF SkipsDone
<1>25. CASE Resume
  <2>1. Rows' \subseteq Rows /\ skipped' = skipped /\ pc' = pc /\ dirty' = dirty
    BY <1>25 DEF Resume, run, Rows
  <2> QED BY <2>1, Fixed, SeedsShrink DEF SkipsDone
<1>26. CASE UNCHANGED vars
  BY <1>26 DEF vars, world, tables, step, SkipsDone, Rows, Seeds
<1> QED BY <1>1, <1>2, <1>3, <1>4, <1>5, <1>6, <1>7, <1>8, <1>9, <1>10, <1>11, <1>12, <1>13, <1>14, <1>15, <1>16, <1>17, <1>18, <1>19, <1>20, <1>21, <1>22, <1>23, <1>24, <1>25, <1>26 DEF Next, Main

LEMMA DoomClosedStep ==
  ASSUME TypedQueues, Books, DoomClosed, [Next]_vars PROVE DoomClosed'
<1>1. CASE StartRun
  <2>1. pc' # "skips"
    BY <1>1 DEF StartRun
  <2> QED BY <2>1 DEF DoomClosed
<1>2. CASE Abort
  <2>1. pc' # "skips"
    BY <1>2 DEF Abort, End
  <2> QED BY <2>1 DEF DoomClosed
<1>3. CASE Drained
  <2>1. pc' # "skips"
    BY <1>3 DEF Drained, End
  <2> QED BY <2>1 DEF DoomClosed
<1>4. CASE EnterStep
  <2>1. pc' # "skips"
    BY <1>4 DEF EnterStep
  <2> QED BY <2>1 DEF DoomClosed
<1>5. CASE Sift
  <2>1. queue' = queue /\ skipped' = skipped
    BY <1>5 DEF Sift
  <2>2. pc' = "skips" => DOMAIN doomed' = SkipClosure
    BY <1>5 DEF Sift, Depths
  <2>3. SkipClosure = ReachIn(deps, Seeds, Rows)
    BY ReachIsIn DEF SkipClosure
  <2>4. \A w \in Rows : \A d \in deps[w] : d \in SkipClosure => w \in SkipClosure
    BY <2>3, ReachClosed
  <2>5. \A w \in Rows : kind[w] = "skip" \/ deps[w] \cap skipped # {} => w \in SkipClosure
    BY SkipClosureBounds DEF Seeds
  <2>6. \A w \in Rows : (kind[w] = "skip" \/ deps[w] \cap (SkipClosure \cup skipped) # {}) => w \in SkipClosure
    BY <2>4, <2>5
  <2> QED BY <2>1, <2>2, <2>6, Fixed DEF DoomClosed, Rows
<1>6. CASE SkipOne
  <2>1. PICK u \in Rows : /\ u \in DOMAIN doomed /\ Rows' = Rows \ {u} /\ skipped' = skipped \cup {u}
                          /\ doomed' = [w \in DOMAIN doomed \ {u} |-> doomed[w]]
    BY <1>6, SkipEffect
  <2>2. DOMAIN doomed' = DOMAIN doomed \ {u}
    BY <2>1
  <2>3. \A w \in Rows : (kind[w] = "skip" \/ deps[w] \cap (DOMAIN doomed \cup skipped) # {}) => w \in DOMAIN doomed
    BY <1>6 DEF SkipOne, DoomClosed
  <2> QED BY <2>1, <2>2, <2>3, Fixed DEF DoomClosed
<1>7. CASE Idle
  <2>1. pc' # "skips"
    BY <1>7 DEF Idle, End
  <2> QED BY <2>1 DEF DoomClosed
<1>8. CASE Fill
  <2>1. pc' # "skips"
    BY <1>8 DEF Fill, FillCheck
  <2> QED BY <2>1 DEF DoomClosed
<1>9. CASE Saturated
  <2>1. pc' # "skips"
    BY <1>9 DEF Saturated
  <2> QED BY <2>1 DEF DoomClosed
<1>10. CASE NoCandidate
  <2>1. pc' # "skips"
    BY <1>10 DEF NoCandidate
  <2> QED BY <2>1 DEF DoomClosed
<1>11. CASE DispatchDepFailed
  <2>1. pc' # "skips"
    BY <1>11 DEF DispatchDepFailed, HandledNoSubprocess
  <2> QED BY <2>1 DEF DoomClosed
<1>12. CASE TriggerSkips
  <2>1. pc' # "skips"
    BY <1>12 DEF TriggerSkips, HandledNoSubprocess
  <2> QED BY <2>1 DEF DoomClosed
<1>13. CASE OrphanDefers
  <2>1. pc' # "skips"
    BY <1>13 DEF OrphanDefers, HandledNoSubprocess
  <2> QED BY <2>1 DEF DoomClosed
<1>14. CASE Spawned
  <2>1. pc' # "skips"
    BY <1>14 DEF Spawned
  <2> QED BY <2>1 DEF DoomClosed
<1>15. CASE Judge
  <2>1. pc' # "skips"
    BY <1>15 DEF Judge
  <2> QED BY <2>1 DEF DoomClosed
<1>16. CASE Reap
  <2>1. pc' # "skips"
    BY <1>16 DEF Reap
  <2> QED BY <2>1 DEF DoomClosed
<1>17. CASE LastStep
  <2>1. pc' # "skips"
    BY <1>17 DEF LastStep, End
  <2> QED BY <2>1 DEF DoomClosed
<1>18. ASSUME NEW u \in Jobs, Succeeds(u) PROVE DoomClosed'
  <2>1. pc' # "skips"
    BY <1>18 DEF Succeeds, Settling
  <2> QED BY <2>1 DEF DoomClosed
<1>19. ASSUME NEW u \in Jobs, Fails(u) PROVE DoomClosed'
  <2>1. pc' # "skips"
    BY <1>19 DEF Fails, Settling
  <2> QED BY <2>1 DEF DoomClosed
<1>20. ASSUME NEW u \in Jobs, PutBack(u) PROVE DoomClosed'
  <2>1. pc' # "skips"
    BY <1>20 DEF PutBack, Settling
  <2> QED BY <2>1 DEF DoomClosed
<1>21. CASE RequestStop
  <2>1. UNCHANGED <<queue, skipped, doomed, pc>>
    BY <1>21 DEF RequestStop, run
  <2> QED BY <2>1, Fixed DEF DoomClosed, Rows
<1>22. CASE Kill
  <2>1. pc' # "skips"
    BY <1>22 DEF Kill, End
  <2> QED BY <2>1 DEF DoomClosed
<1>23. CASE OrphanExits
  <2>1. UNCHANGED <<queue, skipped, doomed, pc>>
    BY <1>23 DEF OrphanExits, run
  <2> QED BY <2>1, Fixed DEF DoomClosed, Rows
<1>24. CASE EnqueueElsewhere
  <2>1. UNCHANGED <<queue, skipped, doomed, pc>>
    BY <1>24 DEF EnqueueElsewhere, run
  <2> QED BY <2>1, Fixed DEF DoomClosed, Rows
<1>25. CASE Resume
  <2>1. UNCHANGED <<queue, skipped, doomed, pc>>
    BY <1>25 DEF Resume, run
  <2> QED BY <2>1, Fixed DEF DoomClosed, Rows
<1>26. CASE UNCHANGED vars
  BY <1>26, Fixed DEF vars, world, tables, step, DoomClosed, Rows
<1> QED BY <1>1, <1>2, <1>3, <1>4, <1>5, <1>6, <1>7, <1>8, <1>9, <1>10, <1>11, <1>12, <1>13, <1>14, <1>15, <1>16, <1>17, <1>18, <1>19, <1>20, <1>21, <1>22, <1>23, <1>24, <1>25, <1>26 DEF Next, Main


LEMMA SkipInvStep ==
  ASSUME QueueInv, SkipInv, [Next]_vars PROVE SkipInv'
  BY DirtyPlaceStep, RulesOKStep, SkipsDoneStep, DoomClosedStep DEF QueueInv, Typed, SkipInv

LEMMA FirmInvStep ==
  ASSUME QueueInv, FirmInv, [Next]_vars PROVE FirmInv'
<1> USE DEF QueueInv, Typed
<1>1. CASE StartRun
  <2>1. pc # "skips" /\ firm' = firm
    BY <1>1 DEF StartRun
  <2> QED BY <2>1 DEF FirmInv
<1>2. CASE Abort
  <2>1. firm' = {}
    BY <1>2 DEF Abort, End, Forget
  <2> QED BY <2>1 DEF FirmInv
<1>3. CASE Drained
  <2>1. firm' = {}
    BY <1>3 DEF Drained, End, Forget
  <2> QED BY <2>1 DEF FirmInv
<1>4. CASE EnterStep
  <2>1. pc # "skips" /\ firm' = firm
    BY <1>4 DEF EnterStep, AtGate
  <2> QED BY <2>1 DEF FirmInv
<1>5. CASE Sift
  <2> SUFFICES ASSUME firm' # {} PROVE FirmInv'
    BY DEF FirmInv
  <2>1. PICK C : /\ doomed' \in Depths(C) /\ firm' = (IF \A u \in Seeds : kind[u] = "skip" THEN C ELSE {})
                 /\ pc' = IF C = {} THEN "fill" ELSE "skips"
    BY <1>5 DEF Sift
  <2>2. firm' = C /\ pc' = "skips" /\ \A u \in Seeds : kind[u] = "skip"
    BY <2>1
  <2>3. PICK depth \in [C -> 0 .. Len(Order)] :
          /\ doomed' = depth
          /\ \A u \in C : IF u \in Seeds THEN depth[u] = 0
                          ELSE \E d \in deps[u] \cap C : depth[u] = depth[d] + 1
    BY <2>1 DEF Depths
  <2>4. DOMAIN depth = C /\ \A u \in C : depth[u] \in Nat
    BY <2>3, OrderLine, LineElements
  <2>5. ASSUME NEW u \in C, depth[u] = 0 PROVE kind[u] = "skip"
    BY <2>2, <2>3, <2>4, <2>5
  <2>6. ASSUME NEW u \in C, depth[u] # 0 PROVE \E d \in deps[u] : d \in C /\ depth[u] = depth[d] + 1
    BY <2>3, <2>6
  <2> QED BY <2>2, <2>3, <2>4, <2>5, <2>6, Fixed DEF FirmInv
<1>6. CASE SkipOne
  <2> SUFFICES ASSUME firm' # {} PROVE FirmInv'
    BY DEF FirmInv
  <2>1. PICK u \in Rows : /\ u \in DOMAIN doomed /\ \A v \in DOMAIN doomed : doomed[u] >= doomed[v]
                          /\ firm' = firm \ {u}
                          /\ doomed' = [v \in DOMAIN doomed \ {u} |-> doomed[v]]
                          /\ pc' = IF DOMAIN doomed \ {u} = {} THEN "fill" ELSE "skips"
    BY <1>6, SkipEffect
  <2>2. /\ firm = DOMAIN doomed
        /\ \A v \in firm : doomed[v] \in Nat
        /\ \A v \in firm : doomed[v] = 0 => kind[v] = "skip"
        /\ \A v \in firm : doomed[v] # 0 => \E d \in deps[v] : d \in firm /\ doomed[v] = doomed[d] + 1
    BY <2>1 DEF FirmInv
  <2>3. /\ firm' = DOMAIN doomed' /\ pc' = "skips" /\ firm' \subseteq firm
        /\ \A v \in firm' : doomed'[v] = doomed[v]
    BY <2>1, <2>2
  <2>4. ASSUME NEW v \in firm', doomed[v] # 0
        PROVE  \E d \in deps[v] : d \in firm' /\ doomed[v] = doomed[d] + 1
    <3>1. PICK d \in deps[v] : d \in firm /\ doomed[v] = doomed[d] + 1
      BY <2>2, <2>3, <2>4
    <3>2. d # u
      <4>1. doomed[u] >= doomed[v] /\ doomed[d] \in Nat /\ doomed[v] \in Nat
        BY <2>1, <2>2, <2>3, <3>1
      <4> QED BY <3>1, <4>1
    <3> QED BY <2>1, <3>1, <3>2
  <2>5. /\ \A v \in firm' : doomed'[v] \in Nat
        /\ \A v \in firm' : doomed'[v] = 0 => kind[v] = "skip"
        /\ \A v \in firm' : doomed'[v] # 0 => \E d \in deps[v] : d \in firm' /\ doomed'[v] = doomed'[d] + 1
    BY <2>2, <2>3, <2>4
  <2> QED BY <2>3, <2>5, Fixed DEF FirmInv
<1>7. CASE Idle
  <2>1. firm' = {}
    BY <1>7 DEF Idle, End, Forget
  <2> QED BY <2>1 DEF FirmInv
<1>8. CASE Fill
  <2>1. pc # "skips" /\ firm' = firm
    BY <1>8 DEF Fill
  <2> QED BY <2>1 DEF FirmInv
<1>9. CASE Saturated
  <2>1. pc # "skips" /\ firm' = firm
    BY <1>9 DEF Saturated
  <2> QED BY <2>1 DEF FirmInv
<1>10. CASE NoCandidate
  <2>1. pc # "skips" /\ firm' = firm
    BY <1>10 DEF NoCandidate, Picking
  <2> QED BY <2>1 DEF FirmInv
<1>11. CASE DispatchDepFailed
  <2>1. pc # "skips" /\ firm' = firm
    BY <1>11 DEF DispatchDepFailed, Picking, HandledNoSubprocess
  <2> QED BY <2>1 DEF FirmInv
<1>12. CASE TriggerSkips
  <2>1. pc # "skips" /\ firm' = firm
    BY <1>12 DEF TriggerSkips, Picking, HandledNoSubprocess
  <2> QED BY <2>1 DEF FirmInv
<1>13. CASE OrphanDefers
  <2>1. pc # "skips" /\ firm' = firm
    BY <1>13 DEF OrphanDefers, Picking, HandledNoSubprocess
  <2> QED BY <2>1 DEF FirmInv
<1>14. CASE Spawned
  <2>1. pc # "skips" /\ firm' = firm
    BY <1>14 DEF Spawned, Picking
  <2> QED BY <2>1 DEF FirmInv
<1>15. CASE Judge
  <2>1. pc # "skips" /\ firm' = firm
    BY <1>15 DEF Judge
  <2> QED BY <2>1 DEF FirmInv
<1>16. CASE Reap
  <2>1. pc # "skips" /\ firm' = firm
    BY <1>16 DEF Reap
  <2> QED BY <2>1 DEF FirmInv
<1>17. CASE LastStep
  <2>1. firm' = {}
    BY <1>17 DEF LastStep, End, Forget
  <2> QED BY <2>1 DEF FirmInv
<1>18. ASSUME NEW u \in Jobs, Succeeds(u) PROVE FirmInv'
  <2>1. pc # "skips" /\ firm' = firm
    BY <1>18 DEF Succeeds, Settling
  <2> QED BY <2>1 DEF FirmInv
<1>19. ASSUME NEW u \in Jobs, Fails(u) PROVE FirmInv'
  <2>1. pc # "skips" /\ firm' = firm
    BY <1>19 DEF Fails, Settling
  <2> QED BY <2>1 DEF FirmInv
<1>20. ASSUME NEW u \in Jobs, PutBack(u) PROVE FirmInv'
  <2>1. pc # "skips" /\ firm' = firm
    BY <1>20 DEF PutBack, Settling
  <2> QED BY <2>1 DEF FirmInv
<1>21. CASE RequestStop
  <2>1. UNCHANGED <<firm, doomed, pc>>
    BY <1>21 DEF RequestStop, run
  <2> QED BY <2>1, Fixed DEF FirmInv
<1>22. CASE Kill
  <2>1. firm' = {}
    BY <1>22 DEF Kill, End, Forget
  <2> QED BY <2>1 DEF FirmInv
<1>23. CASE OrphanExits
  <2>1. UNCHANGED <<firm, doomed, pc>>
    BY <1>23 DEF OrphanExits, run
  <2> QED BY <2>1, Fixed DEF FirmInv
<1>24. CASE EnqueueElsewhere
  <2>1. UNCHANGED <<firm, doomed, pc>>
    BY <1>24 DEF EnqueueElsewhere, run
  <2> QED BY <2>1, Fixed DEF FirmInv
<1>25. CASE Resume
  <2>1. UNCHANGED <<firm, doomed, pc>>
    BY <1>25 DEF Resume, run
  <2> QED BY <2>1, Fixed DEF FirmInv
<1>26. CASE UNCHANGED vars
  BY <1>26, Fixed DEF vars, world, tables, step, FirmInv
<1> QED BY <1>1, <1>2, <1>3, <1>4, <1>5, <1>6, <1>7, <1>8, <1>9, <1>10, <1>11, <1>12, <1>13, <1>14, <1>15, <1>16, <1>17, <1>18, <1>19, <1>20, <1>21, <1>22, <1>23, <1>24, <1>25, <1>26 DEF Next, Main

LEMMA SeenInvStep ==
  ASSUME QueueInv, SeenInv, [Next]_vars PROVE SeenInv'
<1> USE DEF QueueInv, Typed
<1>1. CASE StartRun
  <2>1. seen' = ToSet(disk) /\ queue' = disk
    BY <1>1 DEF StartRun
  <2> QED BY <2>1 DEF SeenInv, Rows
<1>2. CASE Abort
  <2>1. seen' = {}
    BY <1>2 DEF Abort, End, Forget
  <2> QED BY <2>1 DEF SeenInv
<1>3. CASE Drained
  <2>1. seen' = {}
    BY <1>3 DEF Drained, End, Forget
  <2> QED BY <2>1 DEF SeenInv
<1>4. CASE EnterStep
  <2>1. UNCHANGED <<seen, queue, flight, tskip, fail, succ, skipped>>
    BY <1>4 DEF EnterStep, tables
  <2> QED BY <2>1 DEF SeenInv, Rows
<1>5. CASE Sift
  <2>1. UNCHANGED <<seen, queue, flight, tskip, fail, succ, skipped>>
    BY <1>5 DEF Sift, tables
  <2> QED BY <2>1 DEF SeenInv, Rows
<1>6. CASE SkipOne
  <2>1. PICK u \in Rows : Rows' = Rows \ {u} /\ skipped' = skipped \cup {u}
    BY <1>6, SkipEffect
  <2>2. UNCHANGED <<seen, flight, tskip, fail, succ>>
    BY <1>6 DEF SkipOne
  <2> QED BY <2>1, <2>2 DEF SeenInv
<1>7. CASE Idle
  <2>1. seen' = {}
    BY <1>7 DEF Idle, End, Forget
  <2> QED BY <2>1 DEF SeenInv
<1>8. CASE Fill
  <2>1. UNCHANGED <<seen, queue, flight, tskip, fail, succ, skipped>>
    BY <1>8 DEF Fill, tables
  <2> QED BY <2>1 DEF SeenInv, Rows
<1>9. CASE Saturated
  <2>1. UNCHANGED <<seen, queue, flight, tskip, fail, succ, skipped>>
    BY <1>9 DEF Saturated, tables
  <2> QED BY <2>1 DEF SeenInv, Rows
<1>10. CASE NoCandidate
  <2>1. UNCHANGED <<seen, queue, flight, tskip, fail, succ, skipped>>
    BY <1>10 DEF NoCandidate, tables
  <2> QED BY <2>1 DEF SeenInv, Rows
<1>11. CASE DispatchDepFailed
  <2>1. PICK gone \in SUBSET Allowed : fail' = fail \cup gone /\ succ' = succ \ gone /\ Rows' = Rows \ gone
    BY <1>11, DepFailedEffect
  <2>2. UNCHANGED <<seen, flight, tskip, skipped>>
    BY <1>11 DEF DispatchDepFailed, HandledNoSubprocess
  <2> QED BY <2>1, <2>2 DEF SeenInv
<1>12. CASE TriggerSkips
  <2>1. PICK u \in Runnable : Rows' = Rows \ {u} /\ tskip' = tskip \cup {u}
    BY <1>12, TriggerEffect
  <2>2. UNCHANGED <<seen, flight, fail, succ, skipped>>
    BY <1>12 DEF TriggerSkips, HandledNoSubprocess
  <2> QED BY <2>1, <2>2 DEF SeenInv
<1>13. CASE OrphanDefers
  <2>1. Rows' = Rows
    BY <1>13, OrphanEffect
  <2>2. UNCHANGED <<seen, flight, tskip, fail, succ, skipped>>
    BY <1>13 DEF OrphanDefers, HandledNoSubprocess
  <2> QED BY <2>1, <2>2 DEF SeenInv
<1>14. CASE Spawned
  <2>1. PICK u \in Runnable : Rows' = Rows \ {u} /\ flight' = flight \cup {u}
    BY <1>14, SpawnEffect
  <2>2. UNCHANGED <<seen, tskip, fail, succ, skipped>>
    BY <1>14 DEF Spawned, tables
  <2> QED BY <2>1, <2>2 DEF SeenInv
<1>15. CASE Judge
  <2>1. UNCHANGED <<seen, flight, tskip, skipped>>
    BY <1>15 DEF Judge
  <2>2. \/ Rows' = Rows /\ UNCHANGED <<succ, fail>>
        \/ \E C : fail' = fail \cup C /\ succ' = succ \ C /\ Rows' = Rows \ C
    BY <1>15, JudgeEffect DEF Rows
  <2> QED BY <2>1, <2>2 DEF SeenInv
<1>16. CASE Reap
  <2>1. UNCHANGED <<seen, queue, flight, tskip, fail, succ, skipped>>
    BY <1>16 DEF Reap, tables
  <2> QED BY <2>1 DEF SeenInv, Rows
<1>17. CASE LastStep
  <2>1. seen' = {}
    BY <1>17 DEF LastStep, End, Forget
  <2> QED BY <2>1 DEF SeenInv
<1>18. ASSUME NEW u \in Jobs, Succeeds(u) PROVE SeenInv'
  <2>1. /\ flight' = flight \ {u} /\ succ' = succ \cup {u} /\ fail' = fail \ {u}
        /\ \E born : seen' = seen \cup born /\ Rows' = born \cup Rows
    BY <1>18, SucceedsEffect
  <2>2. UNCHANGED <<tskip, skipped>>
    BY <1>18 DEF Succeeds, Settling
  <2> QED BY <2>1, <2>2 DEF SeenInv
<1>19. ASSUME NEW u \in Jobs, Fails(u) PROVE SeenInv'
  <2>1. /\ flight' = flight \ {u}
        /\ \E gone : u \in gone /\ fail' = fail \cup gone /\ succ' = succ \ gone /\ Rows' = Rows \ gone
    BY <1>19, FailsEffect
  <2>2. UNCHANGED <<seen, tskip, skipped>>
    BY <1>19 DEF Fails, Settling
  <2> QED BY <2>1, <2>2 DEF SeenInv
<1>20. ASSUME NEW u \in Jobs, PutBack(u) PROVE SeenInv'
  <2>1. flight' = flight \ {u} /\ Rows' = {u} \cup Rows /\ UNCHANGED <<succ, fail>>
    BY <1>20, PutBackEffect DEF tables
  <2>2. UNCHANGED <<seen, tskip, skipped>>
    BY <1>20 DEF PutBack, Settling
  <2> QED BY <2>1, <2>2 DEF SeenInv
<1>21. CASE RequestStop
  <2>1. UNCHANGED <<seen, queue, flight, tskip, fail, succ, skipped>>
    BY <1>21 DEF RequestStop, run, tables
  <2> QED BY <2>1 DEF SeenInv, Rows
<1>22. CASE Kill
  <2>1. seen' = {}
    BY <1>22 DEF Kill, End, Forget
  <2> QED BY <2>1 DEF SeenInv
<1>23. CASE OrphanExits
  <2>1. UNCHANGED <<seen, queue, flight, tskip, fail, succ, skipped>>
    BY <1>23 DEF OrphanExits, run, tables
  <2> QED BY <2>1 DEF SeenInv, Rows
<1>24. CASE EnqueueElsewhere
  <2>1. UNCHANGED <<seen, queue, flight, tskip, fail, succ, skipped>>
    BY <1>24 DEF EnqueueElsewhere, run
  <2> QED BY <2>1 DEF SeenInv, Rows
<1>25. CASE Resume
  <2>1. UNCHANGED <<seen, queue, flight, tskip, fail, succ, skipped>>
    BY <1>25 DEF Resume, run, tables
  <2> QED BY <2>1 DEF SeenInv, Rows
<1>26. CASE UNCHANGED vars
  BY <1>26 DEF vars, world, tables, step, SeenInv, Rows
<1> QED BY <1>1, <1>2, <1>3, <1>4, <1>5, <1>6, <1>7, <1>8, <1>9, <1>10, <1>11, <1>12, <1>13, <1>14, <1>15, <1>16, <1>17, <1>18, <1>19, <1>20, <1>21, <1>22, <1>23, <1>24, <1>25, <1>26 DEF Next, Main

LEMMA PlainFlightStep ==
  ASSUME QueueInv, PlainFlight, [Next]_vars PROVE PlainFlight'
<1> USE DEF QueueInv, Typed
<1>1. CASE StartRun
  BY <1>1, Fixed DEF StartRun, vars, world, tables, step, PlainFlight
<1>2. CASE Abort
  BY <1>2, Fixed DEF Abort, End, Forget, Fresh, vars, world, tables, step, PlainFlight
<1>3. CASE Drained
  BY <1>3, Fixed DEF Drained, End, Forget, Fresh, vars, world, tables, step, PlainFlight
<1>4. CASE EnterStep
  BY <1>4, Fixed DEF EnterStep, Fresh, vars, world, tables, step, PlainFlight
<1>5. CASE Sift
  BY <1>5, Fixed DEF Sift, vars, world, tables, step, PlainFlight
<1>6. CASE SkipOne
  BY <1>6, Fixed DEF SkipOne, vars, world, tables, step, PlainFlight
<1>7. CASE Idle
  BY <1>7, Fixed DEF Idle, End, Forget, Fresh, vars, world, tables, step, PlainFlight
<1>8. CASE Fill
  BY <1>8, Fixed DEF Fill, vars, world, tables, step, PlainFlight
<1>9. CASE Saturated
  BY <1>9, Fixed DEF Saturated, vars, world, tables, step, PlainFlight
<1>10. CASE NoCandidate
  BY <1>10, Fixed DEF NoCandidate, vars, world, tables, step, PlainFlight
<1>11. CASE DispatchDepFailed
  BY <1>11, Fixed DEF DispatchDepFailed, HandledNoSubprocess, vars, world, tables, step, PlainFlight
<1>12. CASE TriggerSkips
  BY <1>12, Fixed DEF TriggerSkips, HandledNoSubprocess, vars, world, tables, step, PlainFlight
<1>13. CASE OrphanDefers
  BY <1>13, Fixed DEF OrphanDefers, HandledNoSubprocess, vars, world, tables, step, PlainFlight
<1>14. CASE Spawned
  <2>1. PICK u \in Runnable : flight' = flight \cup {u}
    BY <1>14, SpawnEffect
  <2>2. kind[u] = "plain"
    BY ScanBounds DEF Allowed, Deferred
  <2> QED BY <2>1, <2>2, Fixed DEF PlainFlight
<1>15. CASE Judge
  BY <1>15, Fixed DEF Judge, vars, world, tables, step, PlainFlight
<1>16. CASE Reap
  BY <1>16, Fixed DEF Reap, vars, world, tables, step, PlainFlight
<1>17. CASE LastStep
  BY <1>17, Fixed DEF LastStep, End, Forget, Fresh, vars, world, tables, step, PlainFlight
<1>18. ASSUME NEW u \in Jobs, Succeeds(u) PROVE PlainFlight'
  BY <1>18, Fixed DEF Succeeds, Settling, vars, world, tables, step, PlainFlight
<1>19. ASSUME NEW u \in Jobs, Fails(u) PROVE PlainFlight'
  BY <1>19, Fixed DEF Fails, Settling, vars, world, tables, step, PlainFlight
<1>20. ASSUME NEW u \in Jobs, PutBack(u) PROVE PlainFlight'
  BY <1>20, Fixed DEF PutBack, Settling, vars, world, tables, step, PlainFlight
<1>21. CASE RequestStop
  BY <1>21, Fixed DEF RequestStop, Happens, run, vars, world, tables, step, PlainFlight
<1>22. CASE Kill
  BY <1>22, Fixed DEF Kill, End, Forget, Fresh, Happens, vars, world, tables, step, PlainFlight
<1>23. CASE OrphanExits
  BY <1>23, Fixed DEF OrphanExits, run, vars, world, tables, step, PlainFlight
<1>24. CASE EnqueueElsewhere
  BY <1>24, Fixed DEF EnqueueElsewhere, Happens, run, vars, world, tables, step, PlainFlight
<1>25. CASE Resume
  BY <1>25, Fixed DEF Resume, run, vars, world, tables, step, PlainFlight
<1>26. CASE UNCHANGED vars
  BY <1>26, Fixed DEF vars, world, tables, step, PlainFlight
<1> QED BY <1>1, <1>2, <1>3, <1>4, <1>5, <1>6, <1>7, <1>8, <1>9, <1>10, <1>11, <1>12, <1>13, <1>14, <1>15, <1>16, <1>17, <1>18, <1>19, <1>20, <1>21, <1>22, <1>23, <1>24, <1>25, <1>26 DEF Next, Main

-----------------------------------------------------------------------------
(* The verdict on a standstill.                                             *)

LEMMA ScanFrame ==
  ASSUME UNCHANGED <<kind, deps, queue, flight, tskip, succ, fail>>
  PROVE  /\ Deferred' = Deferred /\ Ready' = Ready
         /\ DepFailed' = DepFailed /\ MissingUids' = MissingUids
<1>1. Rows' = Rows
  BY DEF Rows
<1>2. Deferred' = Deferred
  BY <1>1 DEF Deferred
<1>3. Allowed' = Allowed /\ Active' = Active
  BY <1>1, <1>2 DEF Allowed, Active
<1>4. Ready' = Ready
  BY <1>3 DEF Ready, Satisfied
<1>5. DepFailed' = DepFailed
  BY <1>3 DEF DepFailed, Failed
<1>6. MissingUids' = MissingUids
  BY <1>1, <1>3, <1>5 DEF MissingUids, Missing
<1> QED BY <1>2, <1>4, <1>5, <1>6

\* Ready jobs depend on no allowed row.
LEMMA ReadyFree == \A u \in Ready : \A d \in deps[u] : d \notin Allowed
  BY DEF Ready, Satisfied, Active, Allowed

\* A run is found blocked only when every ready job depends on a deferred row.
LEMMA BlockedGrounds ==
  ASSUME OnlyBlockedByExclusion PROVE \A u \in Ready : deps[u] \cap Deferred # {}
<1> TAKE u \in Ready
<1> DEFINE R == ReachIn(deps, Deferred, Allowed)
<1>1. u \in Allowed /\ u \notin Deferred
  BY ScanBounds DEF Allowed
<1>2. u \in R
  BY <1>1, ReachIsIn DEF OnlyBlockedByExclusion, Stuck, Unblocked, Blocked
<1>3. PICK d \in deps[u] : d \in R
  BY <1>1, <1>2, ReachFrom
<1>4. d \in Deferred \cup Allowed
  BY <1>3, ReachBounds
<1> QED BY <1>3, <1>4, ReadyFree

\* When nothing is ready, what Kahn's algorithm reaches it reaches from a deferred row.
LEMMA ReducedBlocked ==
  ASSUME Ready = {}, succ \cap fail = {} PROVE Reduced \subseteq Blocked
<1> DEFINE R == ReachIn(deps, Deferred, Allowed)
           X == R \cap Allowed
<1>1. Deferred \subseteq R /\ \A v \in Allowed : \A d \in deps[v] : d \in R => v \in R
  BY ReachBounds, ReachClosed
<1>2. ASSUME NEW v \in Freed(X) PROVE v \in X
  <2>1. v \in Allowed /\ \A d \in deps[v] : d \in Deferred \cup X \/ DependencyReady(d)
    BY DEF Freed
  <2>2. CASE \E d \in deps[v] : d \in Deferred \cup X
    <3>1. PICK d \in deps[v] : d \in R
      BY <2>2, <1>1
    <3> HIDE DEF R
    <3> QED BY <2>1, <3>1, <1>1
  <2>3. CASE \A d \in deps[v] : d \notin Deferred \cup X
    <3>1. \A d \in deps[v] : d \notin Rows \cup flight /\ d \in succ \cup tskip
      BY <2>1, <2>3 DEF DependencyReady
    <3>2. \A d \in deps[v] : Satisfied(d)
      BY <3>1 DEF Satisfied, Active
    <3>3. v \in Ready
      BY <2>1, <3>2 DEF Ready
    <3> QED BY <3>3
  <2> QED BY <2>2, <2>3
<1>3. Reduced \subseteq X
  <2>1. X \subseteq Allowed /\ Freed(X) \subseteq X
    BY <1>2
  <2> HIDE DEF X
  <2> QED BY <2>1, ReducedLeast
<1> QED BY <1>3, ReachIsIn DEF Blocked

\* A job that Kahn's algorithm does not reach depends on another one, when no dependency
\* has failed, is missing or in flight.
LEMMA StuckOnStuck ==
  ASSUME DepFailed = {}, MissingUids = {}, flight = {}
  PROVE  \A u \in Stuck : \E d \in deps[u] : d \in Stuck
<1> TAKE u \in Stuck
<1>1. u \in Allowed /\ u \notin Reduced
  BY DEF Stuck
<1>2. u \notin Freed(Reduced)
  BY <1>1, ReducedClosed
<1>3. PICK d \in deps[u] : d \notin Deferred /\ d \notin Reduced /\ ~ DependencyReady(d)
  BY <1>1, <1>2 DEF Freed
<1>4. ~ Failed(d)
  BY <1>1 DEF DepFailed
<1>5. ~ Missing(d)
  BY <1>1 DEF MissingUids
<1>6. d \in Rows
  BY <1>3, <1>4, <1>5 DEF Failed, Missing, DependencyReady, Active
<1> QED BY <1>3, <1>6 DEF Stuck, Allowed

\* Stuck jobs that depend on stuck jobs are on a cycle, or wait for one.
LEMMA StuckOnCycle ==
  ASSUME TypedQueues, Stuck # {}, \A u \in Stuck : \E d \in deps[u] : d \in Stuck
  PROVE  Cycles # {}
<1>1. IsFiniteSet(Stuck)
  BY JobsFinite, RowsAreJobs, ScanBounds, FS_Subset
<1>2. PICK C : /\ C # {} /\ C \subseteq Stuck
               /\ \A u \in C : \E d \in deps[u] : d \in C /\ d \in ReachIn(deps, {u}, Stuck)
  BY <1>1, CycleExists
<1>3. C \subseteq {u \in Stuck : \E d \in deps[u] : d \in Reach({u}, Stuck)}
  BY <1>2, ReachIsIn
<1>4. \A u \in C : deps[u] \cap C # {}
  BY <1>2
<1>5. C \in Cycles
  BY <1>2, <1>3, <1>4 DEF Cycles
<1> QED BY <1>5

\* No standstill is without an explanation.
LEMMA NoGapGrounds ==
  ASSUME QueueInv, JudgeInv, pc = "judge", last = "no_candidate", flight = {}
  PROVE  Arbitration # "gap"
<1> SUFFICES ASSUME Arbitration = "gap" PROVE FALSE
  OBVIOUS
<1>1. MissingUids = {} /\ ImpossibleUids = {} /\ Cycles = {} /\ finite # TRUE /\ ~ OnlyBlockedByExclusion
  BY DEF Arbitration
<1>2. DepFailed = {} /\ Ready = {}
  BY <1>1 DEF JudgeInv
<1>3. Stuck = {}
  BY <1>1, <1>2, StuckOnStuck, StuckOnCycle DEF QueueInv, Typed
<1>4. Unblocked = {}
  BY <1>2, ReducedBlocked DEF Unblocked, QueueInv, Books
<1> QED BY <1>1, <1>3, <1>4 DEF OnlyBlockedByExclusion

LEMMA JudgeInvStep ==
  ASSUME QueueInv, JudgeInv, VerdictInv, [Next]_vars PROVE JudgeInv'
<1>1. CASE StartRun
  <2>1. pc' # "judge"
    BY <1>1 DEF StartRun
  <2> QED BY <2>1 DEF JudgeInv
<1>2. CASE Abort
  <2>1. pc' # "judge"
    BY <1>2 DEF Abort, End
  <2> QED BY <2>1 DEF JudgeInv
<1>3. CASE Drained
  <2>1. pc' # "judge"
    BY <1>3 DEF Drained, End
  <2> QED BY <2>1 DEF JudgeInv
<1>4. CASE EnterStep
  <2>1. pc' # "judge"
    BY <1>4 DEF EnterStep
  <2> QED BY <2>1 DEF JudgeInv
<1>5. CASE Sift
  <2>1. pc' # "judge"
    BY <1>5 DEF Sift
  <2> QED BY <2>1 DEF JudgeInv
<1>6. CASE SkipOne
  <2>1. pc' # "judge"
    BY <1>6 DEF SkipOne
  <2> QED BY <2>1 DEF JudgeInv
<1>7. CASE Idle
  <2>1. pc' # "judge"
    BY <1>7 DEF Idle, End
  <2> QED BY <2>1 DEF JudgeInv
<1>8. CASE Fill
  <2>1. pc = "fill" /\ last' = last
    BY <1>8 DEF Fill, step
  <2> QED BY <2>1 DEF JudgeInv, VerdictInv
<1>9. CASE Saturated
  <2>1. last' = "saturated"
    BY <1>9 DEF Saturated
  <2> QED BY <2>1 DEF JudgeInv
<1>10. CASE NoCandidate
  <2>1. UNCHANGED <<kind, deps, queue, flight, tskip, succ, fail, res>>
    BY <1>10 DEF NoCandidate, world, tables
  <2>2. /\ DepFailed' = DepFailed /\ MissingUids' = MissingUids /\ Ready' = Ready
    BY <2>1, ScanFrame
  <2>3. ImpossibleUids' = ImpossibleUids
    BY <2>1, <2>2 DEF ImpossibleUids
  <2>4. DepFailed = {} /\ Runnable = {}
    BY <1>10 DEF NoCandidate
  <2>5. finite' = TRUE \/ MissingUids # {} \/ ImpossibleUids # {} \/ ~ \E w \in Ready : res[w] = "busy"
    BY <1>10, Zenon DEF NoCandidate, MinWaitFinite
  <2>6. ASSUME NEW w \in Ready, res[w] # "busy" PROVE res[w] = "impossible"
    <3>1. res[w] \in Resources
      BY ScanBounds, RowsAreJobs DEF QueueInv, Typed, TypedWorld
    <3> QED BY <2>4, <2>6, <3>1 DEF Runnable, Resources
  <2>7. finite' = TRUE \/ MissingUids # {} \/ ImpossibleUids # {} \/ Ready = {}
    BY <2>5, <2>6 DEF ImpossibleUids
  <2> QED BY <2>2, <2>3, <2>4, <2>7 DEF JudgeInv
<1>11. CASE DispatchDepFailed
  <2>1. pc' # "judge"
    BY <1>11 DEF DispatchDepFailed, HandledNoSubprocess
  <2> QED BY <2>1 DEF JudgeInv
<1>12. CASE TriggerSkips
  <2>1. pc' # "judge"
    BY <1>12 DEF TriggerSkips, HandledNoSubprocess
  <2> QED BY <2>1 DEF JudgeInv
<1>13. CASE OrphanDefers
  <2>1. pc' # "judge"
    BY <1>13 DEF OrphanDefers, HandledNoSubprocess
  <2> QED BY <2>1 DEF JudgeInv
<1>14. CASE Spawned
  <2>1. pc' # "judge"
    BY <1>14 DEF Spawned
  <2> QED BY <2>1 DEF JudgeInv
<1>15. CASE Judge
  <2>1. pc' # "judge"
    BY <1>15 DEF Judge
  <2> QED BY <2>1 DEF JudgeInv
<1>16. CASE Reap
  <2>1. pc' # "judge"
    BY <1>16 DEF Reap
  <2> QED BY <2>1 DEF JudgeInv
<1>17. CASE LastStep
  <2>1. pc' # "judge"
    BY <1>17 DEF LastStep, End
  <2> QED BY <2>1 DEF JudgeInv
<1>18. ASSUME NEW u \in Jobs, Succeeds(u) PROVE JudgeInv'
  <2>1. pc' # "judge"
    BY <1>18 DEF Succeeds, Settling
  <2> QED BY <2>1 DEF JudgeInv
<1>19. ASSUME NEW u \in Jobs, Fails(u) PROVE JudgeInv'
  <2>1. pc' # "judge"
    BY <1>19 DEF Fails, Settling
  <2> QED BY <2>1 DEF JudgeInv
<1>20. ASSUME NEW u \in Jobs, PutBack(u) PROVE JudgeInv'
  <2>1. pc' # "judge"
    BY <1>20 DEF PutBack, Settling
  <2> QED BY <2>1 DEF JudgeInv
<1>21. CASE RequestStop
  <2>1. UNCHANGED <<kind, deps, queue, flight, tskip, succ, fail, res, pc, last, finite>>
    BY <1>21 DEF RequestStop, tables, run, step
  <2>2. DepFailed' = DepFailed /\ MissingUids' = MissingUids /\ Ready' = Ready
    BY <2>1, ScanFrame
  <2>3. ImpossibleUids' = ImpossibleUids
    BY <2>1, <2>2 DEF ImpossibleUids
  <2> QED BY <2>1, <2>2, <2>3 DEF JudgeInv
<1>22. CASE Kill
  <2>1. pc' # "judge"
    BY <1>22 DEF Kill, End
  <2> QED BY <2>1 DEF JudgeInv
<1>23. CASE OrphanExits
  <2>1. UNCHANGED <<kind, deps, queue, flight, tskip, succ, fail, res, pc, last, finite>>
    BY <1>23 DEF OrphanExits, tables, run, step
  <2>2. DepFailed' = DepFailed /\ MissingUids' = MissingUids /\ Ready' = Ready
    BY <2>1, ScanFrame
  <2>3. ImpossibleUids' = ImpossibleUids
    BY <2>1, <2>2 DEF ImpossibleUids
  <2> QED BY <2>1, <2>2, <2>3 DEF JudgeInv
<1>24. CASE EnqueueElsewhere
  <2>1. UNCHANGED <<kind, deps, queue, flight, tskip, succ, fail, res, pc, last, finite>>
    BY <1>24 DEF EnqueueElsewhere, run, step
  <2>2. DepFailed' = DepFailed /\ MissingUids' = MissingUids /\ Ready' = Ready
    BY <2>1, ScanFrame
  <2>3. ImpossibleUids' = ImpossibleUids
    BY <2>1, <2>2 DEF ImpossibleUids
  <2> QED BY <2>1, <2>2, <2>3 DEF JudgeInv
<1>25. CASE Resume
  <2>1. UNCHANGED <<kind, deps, queue, flight, tskip, succ, fail, pc, last, finite>>
    BY <1>25 DEF Resume, tables, run, step
  <2>2. DepFailed' = DepFailed /\ MissingUids' = MissingUids /\ Ready' = Ready
    BY <2>1, ScanFrame
  <2>3. \A w \in Jobs : res'[w] = "impossible" <=> res[w] = "impossible"
    BY <1>25 DEF Resume, QueueInv, Typed, TypedWorld
  <2>4. Ready \subseteq Jobs
    BY ScanBounds, RowsAreJobs DEF QueueInv, Typed
  <2>5. ImpossibleUids' = ImpossibleUids
    BY <2>2, <2>3, <2>4 DEF ImpossibleUids
  <2> QED BY <2>1, <2>2, <2>5 DEF JudgeInv
<1>26. CASE UNCHANGED vars
  <2>1. UNCHANGED <<kind, deps, queue, flight, tskip, succ, fail, res, pc, last, finite>>
    BY <1>26 DEF vars, world, tables, step
  <2>2. DepFailed' = DepFailed /\ MissingUids' = MissingUids /\ Ready' = Ready
    BY <2>1, ScanFrame
  <2>3. ImpossibleUids' = ImpossibleUids
    BY <2>1, <2>2 DEF ImpossibleUids
  <2> QED BY <2>1, <2>2, <2>3 DEF JudgeInv
<1> QED BY <1>1, <1>2, <1>3, <1>4, <1>5, <1>6, <1>7, <1>8, <1>9, <1>10, <1>11, <1>12, <1>13, <1>14, <1>15, <1>16, <1>17, <1>18, <1>19, <1>20, <1>21, <1>22, <1>23, <1>24, <1>25, <1>26 DEF Next, Main

LEMMA VerdictInvStep ==
  ASSUME QueueInv, JudgeInv, VerdictInv, [Next]_vars PROVE VerdictInv'
<1>1. CASE StartRun
  <2>1. verdict' = "none"
    BY <1>1 DEF VerdictInv, StartRun, step
  <2>2. last' = "no_candidate" => pc' \in {"judge", "settle", "gate"}
    BY <1>1 DEF VerdictInv, StartRun, step
  <2> QED BY <2>1, <2>2 DEF VerdictInv, BlockedCannotRun, NoGap
<1>2. CASE Abort
  <2>1. verdict' = "none"
    BY <1>2 DEF Abort, End, Fresh
  <2>2. last' = "no_candidate" => pc' \in {"judge", "settle", "gate"}
    BY <1>2 DEF VerdictInv, Abort, End, Fresh
  <2> QED BY <2>1, <2>2 DEF VerdictInv, BlockedCannotRun, NoGap
<1>3. CASE Drained
  <2>1. verdict' = "none"
    BY <1>3 DEF Drained, End, Fresh
  <2>2. last' = "no_candidate" => pc' \in {"judge", "settle", "gate"}
    BY <1>3 DEF VerdictInv, Drained, End, Fresh
  <2> QED BY <2>1, <2>2 DEF VerdictInv, BlockedCannotRun, NoGap
<1>4. CASE EnterStep
  <2>1. verdict' = "none"
    BY <1>4 DEF EnterStep, Fresh
  <2>2. last' = "no_candidate" => pc' \in {"judge", "settle", "gate"}
    BY <1>4 DEF VerdictInv, EnterStep, Fresh
  <2> QED BY <2>1, <2>2 DEF VerdictInv, BlockedCannotRun, NoGap
<1>5. CASE Sift
  <2>1. verdict' = "none"
    BY <1>5 DEF VerdictInv, Sift, step
  <2>2. last' = "no_candidate" => pc' \in {"judge", "settle", "gate"}
    BY <1>5 DEF VerdictInv, Sift, step
  <2> QED BY <2>1, <2>2 DEF VerdictInv, BlockedCannotRun, NoGap
<1>6. CASE SkipOne
  <2>1. verdict' = "none"
    BY <1>6 DEF VerdictInv, SkipOne
  <2>2. last' = "no_candidate" => pc' \in {"judge", "settle", "gate"}
    BY <1>6 DEF VerdictInv, SkipOne
  <2> QED BY <2>1, <2>2 DEF VerdictInv, BlockedCannotRun, NoGap
<1>7. CASE Idle
  <2>1. verdict' = "none"
    BY <1>7 DEF Idle, End, Fresh
  <2>2. last' = "no_candidate" => pc' \in {"judge", "settle", "gate"}
    BY <1>7 DEF VerdictInv, Idle, End, Fresh
  <2> QED BY <2>1, <2>2 DEF VerdictInv, BlockedCannotRun, NoGap
<1>8. CASE Fill
  <2>1. verdict' = "none"
    BY <1>8 DEF VerdictInv, Fill, FillCheck, step
  <2>2. last' = "no_candidate" => pc' \in {"judge", "settle", "gate"}
    BY <1>8 DEF VerdictInv, Fill, FillCheck, step
  <2> QED BY <2>1, <2>2 DEF VerdictInv, BlockedCannotRun, NoGap
<1>9. CASE Saturated
  <2>1. verdict' = "none"
    BY <1>9 DEF VerdictInv, Saturated
  <2>2. last' = "no_candidate" => pc' \in {"judge", "settle", "gate"}
    BY <1>9 DEF VerdictInv, Saturated
  <2> QED BY <2>1, <2>2 DEF VerdictInv, BlockedCannotRun, NoGap
<1>10. CASE NoCandidate
  <2>1. verdict' = "none"
    BY <1>10 DEF VerdictInv, NoCandidate, Picking
  <2>2. last' = "no_candidate" => pc' \in {"judge", "settle", "gate"}
    BY <1>10 DEF VerdictInv, NoCandidate, Picking
  <2> QED BY <2>1, <2>2 DEF VerdictInv, BlockedCannotRun, NoGap
<1>11. CASE DispatchDepFailed
  <2>1. verdict' = "none"
    BY <1>11 DEF VerdictInv, DispatchDepFailed, Picking, HandledNoSubprocess
  <2>2. last' = "no_candidate" => pc' \in {"judge", "settle", "gate"}
    BY <1>11 DEF VerdictInv, DispatchDepFailed, Picking, HandledNoSubprocess
  <2> QED BY <2>1, <2>2 DEF VerdictInv, BlockedCannotRun, NoGap
<1>12. CASE TriggerSkips
  <2>1. verdict' = "none"
    BY <1>12 DEF VerdictInv, TriggerSkips, Picking, HandledNoSubprocess
  <2>2. last' = "no_candidate" => pc' \in {"judge", "settle", "gate"}
    BY <1>12 DEF VerdictInv, TriggerSkips, Picking, HandledNoSubprocess
  <2> QED BY <2>1, <2>2 DEF VerdictInv, BlockedCannotRun, NoGap
<1>13. CASE OrphanDefers
  <2>1. verdict' = "none"
    BY <1>13 DEF VerdictInv, OrphanDefers, Picking, HandledNoSubprocess
  <2>2. last' = "no_candidate" => pc' \in {"judge", "settle", "gate"}
    BY <1>13 DEF VerdictInv, OrphanDefers, Picking, HandledNoSubprocess
  <2> QED BY <2>1, <2>2 DEF VerdictInv, BlockedCannotRun, NoGap
<1>14. CASE Spawned
  <2>1. verdict' = "none"
    BY <1>14 DEF VerdictInv, Spawned, Picking
  <2>2. last' = "no_candidate" => pc' \in {"judge", "settle", "gate"}
    BY <1>14 DEF VerdictInv, Spawned, Picking
  <2> QED BY <2>1, <2>2 DEF VerdictInv, BlockedCannotRun, NoGap
<1>15. CASE Judge
  <2>1. pc = "judge" /\ flight = {} /\ pc' = "gate" /\ UNCHANGED <<kind, deps, flight, tskip, last>>
    BY <1>15 DEF Judge, world
  <2>2. verdict' # "gap"
    BY <1>15, <2>1, NoGapGrounds DEF Judge, VerdictInv, NoGap
  <2>3. ASSUME verdict' = "blocked" PROVE BlockedCannotRun'
    <3>1. verdict = "none"
      BY <2>1 DEF VerdictInv
    <3>2. Arbitration = "blocked" /\ UNCHANGED <<queue, succ, fail>>
      BY <1>15, <2>3, <3>1 DEF Judge, tables
    <3>3. OnlyBlockedByExclusion
      BY <3>2 DEF Arbitration
    <3>4. Ready' = Ready /\ Deferred' = Deferred
      BY <2>1, <3>2, ScanFrame
    <3> QED BY <2>1, <3>3, <3>4, BlockedGrounds DEF BlockedCannotRun
  <2>4. BlockedCannotRun'
    BY <2>3 DEF BlockedCannotRun
  <2> QED BY <2>1, <2>2, <2>4 DEF VerdictInv, NoGap
<1>16. CASE Reap
  <2>1. verdict' = "none"
    BY <1>16 DEF VerdictInv, Reap, step
  <2>2. last' = "no_candidate" => pc' \in {"judge", "settle", "gate"}
    BY <1>16 DEF VerdictInv, Reap, step
  <2> QED BY <2>1, <2>2 DEF VerdictInv, BlockedCannotRun, NoGap
<1>17. CASE LastStep
  <2>1. verdict' = "none"
    BY <1>17 DEF LastStep, End, Fresh
  <2>2. last' = "no_candidate" => pc' \in {"judge", "settle", "gate"}
    BY <1>17 DEF VerdictInv, LastStep, End, Fresh
  <2> QED BY <2>1, <2>2 DEF VerdictInv, BlockedCannotRun, NoGap
<1>18. ASSUME NEW u \in Jobs, Succeeds(u) PROVE VerdictInv'
  <2>1. verdict' = "none"
    BY <1>18 DEF VerdictInv, Succeeds, Settling
  <2>2. last' = "no_candidate" => pc' \in {"judge", "settle", "gate"}
    BY <1>18 DEF VerdictInv, Succeeds, Settling
  <2> QED BY <2>1, <2>2 DEF VerdictInv, BlockedCannotRun, NoGap
<1>19. ASSUME NEW u \in Jobs, Fails(u) PROVE VerdictInv'
  <2>1. verdict' = "none"
    BY <1>19 DEF VerdictInv, Fails, Settling
  <2>2. last' = "no_candidate" => pc' \in {"judge", "settle", "gate"}
    BY <1>19 DEF VerdictInv, Fails, Settling
  <2> QED BY <2>1, <2>2 DEF VerdictInv, BlockedCannotRun, NoGap
<1>20. ASSUME NEW u \in Jobs, PutBack(u) PROVE VerdictInv'
  <2>1. verdict' = "none"
    BY <1>20 DEF VerdictInv, PutBack, Settling
  <2>2. last' = "no_candidate" => pc' \in {"judge", "settle", "gate"}
    BY <1>20 DEF VerdictInv, PutBack, Settling
  <2> QED BY <2>1, <2>2 DEF VerdictInv, BlockedCannotRun, NoGap
<1>21. CASE RequestStop
  <2>1. UNCHANGED <<kind, deps, queue, flight, tskip, succ, fail, pc, last, verdict>>
    BY <1>21 DEF RequestStop, tables, run, step
  <2>2. Ready' = Ready /\ Deferred' = Deferred
    BY <2>1, ScanFrame
  <2> QED BY <2>1, <2>2 DEF VerdictInv, BlockedCannotRun, NoGap
<1>22. CASE Kill
  <2>1. verdict' = "none"
    BY <1>22 DEF Kill, End, Fresh
  <2>2. last' = "no_candidate" => pc' \in {"judge", "settle", "gate"}
    BY <1>22 DEF VerdictInv, Kill, End, Fresh
  <2> QED BY <2>1, <2>2 DEF VerdictInv, BlockedCannotRun, NoGap
<1>23. CASE OrphanExits
  <2>1. UNCHANGED <<kind, deps, queue, flight, tskip, succ, fail, pc, last, verdict>>
    BY <1>23 DEF OrphanExits, tables, run, step
  <2>2. Ready' = Ready /\ Deferred' = Deferred
    BY <2>1, ScanFrame
  <2> QED BY <2>1, <2>2 DEF VerdictInv, BlockedCannotRun, NoGap
<1>24. CASE EnqueueElsewhere
  <2>1. UNCHANGED <<kind, deps, queue, flight, tskip, succ, fail, pc, last, verdict>>
    BY <1>24 DEF EnqueueElsewhere, run, step
  <2>2. Ready' = Ready /\ Deferred' = Deferred
    BY <2>1, ScanFrame
  <2> QED BY <2>1, <2>2 DEF VerdictInv, BlockedCannotRun, NoGap
<1>25. CASE Resume
  <2>1. UNCHANGED <<kind, deps, queue, flight, tskip, succ, fail, pc, last, verdict>>
    BY <1>25 DEF Resume, tables, run, step
  <2>2. Ready' = Ready /\ Deferred' = Deferred
    BY <2>1, ScanFrame
  <2> QED BY <2>1, <2>2 DEF VerdictInv, BlockedCannotRun, NoGap
<1>26. CASE UNCHANGED vars
  <2>1. UNCHANGED <<kind, deps, queue, flight, tskip, succ, fail, pc, last, verdict>>
    BY <1>26 DEF vars, world, tables, step
  <2>2. Ready' = Ready /\ Deferred' = Deferred
    BY <2>1, ScanFrame
  <2> QED BY <2>1, <2>2 DEF VerdictInv, BlockedCannotRun, NoGap
<1> QED BY <1>1, <1>2, <1>3, <1>4, <1>5, <1>6, <1>7, <1>8, <1>9, <1>10, <1>11, <1>12, <1>13, <1>14, <1>15, <1>16, <1>17, <1>18, <1>19, <1>20, <1>21, <1>22, <1>23, <1>24, <1>25, <1>26 DEF Next, Main

-----------------------------------------------------------------------------
(* The pump does not spin.                                                  *)

LEMMA MoveInvStep ==
  ASSUME QueueInv, VerdictInv, MoveInv, [Next]_vars PROVE MoveInv'
<1>1. CASE StartRun
  BY <1>1 DEF StartRun, vars, world, tables, step, MoveInv, VerdictInv
<1>2. CASE Abort
  BY <1>2 DEF Abort, End, Forget, Fresh, vars, world, tables, step, MoveInv, VerdictInv
<1>3. CASE Drained
  BY <1>3 DEF Drained, End, Forget, Fresh, vars, world, tables, step, MoveInv, VerdictInv
<1>4. CASE EnterStep
  BY <1>4 DEF EnterStep, Fresh, vars, world, tables, step, MoveInv, VerdictInv
<1>5. CASE Sift
  BY <1>5 DEF Sift, vars, world, tables, step, MoveInv, VerdictInv
<1>6. CASE SkipOne
  BY <1>6 DEF SkipOne, vars, world, tables, step, MoveInv, VerdictInv
<1>7. CASE Idle
  BY <1>7 DEF Idle, End, Forget, Fresh, vars, world, tables, step, MoveInv, VerdictInv
<1>8. CASE Fill
  BY <1>8 DEF Fill, vars, world, tables, step, FillCheck, MoveInv, VerdictInv
<1>9. CASE Saturated
  BY <1>9 DEF Saturated, vars, world, tables, step, MoveInv, VerdictInv
<1>10. CASE NoCandidate
  BY <1>10 DEF NoCandidate, vars, world, tables, step, Picking, MoveInv, VerdictInv
<1>11. CASE DispatchDepFailed
  BY <1>11 DEF DispatchDepFailed, HandledNoSubprocess, vars, world, tables, step, Picking, MoveInv, VerdictInv
<1>12. CASE TriggerSkips
  BY <1>12 DEF TriggerSkips, HandledNoSubprocess, vars, world, tables, step, Picking, MoveInv, VerdictInv
<1>13. CASE OrphanDefers
  BY <1>13 DEF OrphanDefers, HandledNoSubprocess, vars, world, tables, step, Picking, MoveInv, VerdictInv
<1>14. CASE Spawned
  BY <1>14 DEF Spawned, vars, world, tables, step, Picking, MoveInv, VerdictInv
<1>15. CASE Judge
  <2>1. /\ pc = "judge" /\ pc' = "gate" /\ UNCHANGED <<last, settled, finite, flight>>
        /\ moved' = TRUE \/ moved' = moved
    BY <1>15 DEF Judge
  <2>2. verdict = "none"
    BY <2>1 DEF VerdictInv
  <2>3. verdict' = "resolved" => moved' = TRUE
    BY <1>15, <2>2 DEF Judge
  <2>4. last = "no_candidate" /\ verdict' = "none" => finite = TRUE
    <3>1. last = "no_candidate" => verdict' = Arbitration
      BY <1>15 DEF Judge
    <3>2. Arbitration = "none" => finite
      BY DEF Arbitration
    <3>3. finite => finite = TRUE
      BY Zenon DEF QueueInv, Typed, TypedFlags
    <3> QED BY <3>1, <3>2, <3>3
  <2> QED BY <2>1, <2>3, <2>4 DEF MoveInv
<1>16. CASE Reap
  BY <1>16 DEF Reap, vars, world, tables, step, MoveInv, VerdictInv
<1>17. CASE LastStep
  BY <1>17 DEF LastStep, End, Forget, Fresh, vars, world, tables, step, MoveInv, VerdictInv
<1>18. ASSUME NEW u \in Jobs, Succeeds(u) PROVE MoveInv'
  BY <1>18 DEF Succeeds, Settling, vars, world, tables, step, MoveInv, VerdictInv
<1>19. ASSUME NEW u \in Jobs, Fails(u) PROVE MoveInv'
  BY <1>19 DEF Fails, Settling, vars, world, tables, step, MoveInv, VerdictInv
<1>20. ASSUME NEW u \in Jobs, PutBack(u) PROVE MoveInv'
  BY <1>20 DEF PutBack, Settling, vars, world, tables, step, MoveInv, VerdictInv
<1>21. CASE RequestStop
  BY <1>21 DEF RequestStop, Happens, run, vars, world, tables, step, MoveInv, VerdictInv
<1>22. CASE Kill
  BY <1>22 DEF Kill, End, Forget, Fresh, Happens, vars, world, tables, step, MoveInv, VerdictInv
<1>23. CASE OrphanExits
  BY <1>23 DEF OrphanExits, run, vars, world, tables, step, MoveInv, VerdictInv
<1>24. CASE EnqueueElsewhere
  BY <1>24 DEF EnqueueElsewhere, Happens, run, vars, world, tables, step, MoveInv, VerdictInv
<1>25. CASE Resume
  BY <1>25 DEF Resume, run, vars, world, tables, step, MoveInv, VerdictInv
<1>26. CASE UNCHANGED vars
  BY <1>26 DEF vars, world, tables, step, MoveInv, VerdictInv
<1> QED BY <1>1, <1>2, <1>3, <1>4, <1>5, <1>6, <1>7, <1>8, <1>9, <1>10, <1>11, <1>12, <1>13, <1>14, <1>15, <1>16, <1>17, <1>18, <1>19, <1>20, <1>21, <1>22, <1>23, <1>24, <1>25, <1>26 DEF Next, Main


-----------------------------------------------------------------------------
(* The invariant of a run.                                                  *)

LEMMA RunInvInit == Init => RunInv
<1> SUFFICES ASSUME Init PROVE RunInv
  OBVIOUS
<1>1. SkipInv
  BY DEF Init, SkipInv, DirtyPlace, RulesOK, SkipsDone, DoomClosed
<1>2. FirmInv /\ SeenInv /\ JudgeInv /\ PlainFlight
  BY DEF Init, FirmInv, SeenInv, JudgeInv, PlainFlight
<1>3. VerdictInv
  BY DEF Init, VerdictInv, BlockedCannotRun, NoGap
<1>4. MoveInv
  BY DEF Init, MoveInv
<1> QED BY <1>1, <1>2, <1>3, <1>4 DEF RunInv

LEMMA RunInvStep == QueueInv /\ RunInv /\ [Next]_vars => RunInv'
  BY SkipInvStep, FirmInvStep, SeenInvStep, JudgeInvStep, VerdictInvStep, MoveInvStep, PlainFlightStep
  DEF RunInv

LEMMA RunInvHolds == Spec => [](QueueInv /\ RunInv)
  BY QueueInvInit, QueueInvStep, RunInvInit, RunInvStep, PTL DEF Spec

-----------------------------------------------------------------------------
(* What follows from it.                                                    *)

\* A seen job that is missing was skipped; and a row that depends on a skipped job is
\* none that the pump gets to judge.
LEMMA MissingGrounds == QueueInv /\ RunInv => MissingNeverSeen
<1> SUFFICES ASSUME QueueInv, RunInv, pc = "judge", last = "no_candidate",
                    NEW u \in MissingUids, NEW d \in deps[u], Missing(d), d \in seen
             PROVE  FALSE
  BY DEF MissingNeverSeen
<1>1. d \in skipped
  BY DEF RunInv, SeenInv, Missing
<1>2. u \in Rows
  BY ScanBounds
<1>3. dirty = FALSE
  BY DEF RunInv, SkipInv, DirtyPlace, QueueInv, Typed, TypedFlags
<1>4. Seeds = {}
  BY <1>3 DEF RunInv, SkipInv, SkipsDone
<1> QED BY <1>1, <1>2, <1>4 DEF Seeds

\* The verdicts of the governor have grounds, whatever the dependencies, the selection,
\* the resources and what happens between the scan and the judgement (arbitrate,
\* partition_standstill): a run that ends as blocked leaves no job behind that could run
\* without an excluded one, a dependency that counts as missing has never been in this
\* run's queue, and no standstill is without an explanation.
THEOREM LoopVerdictsGrounded == Spec => []VerdictsGrounded
<1>1. QueueInv /\ RunInv => VerdictsGrounded
  BY MissingGrounds DEF RunInv, VerdictInv, VerdictsGrounded
<1> QED BY <1>1, RunInvHolds, PTL

\* The doomed jobs are in the closure of the Skip rows: by their depths.
LEMMA FirmReached == QueueInv /\ RunInv => SkipRecoverable
<1> SUFFICES ASSUME QueueInv, RunInv, pc = "skips", NEW u \in firm, u \notin FirmClosure PROVE FALSE
  BY DEF SkipRecoverable
<1>1. /\ firm \subseteq Rows
      /\ \A v \in firm : doomed[v] \in Nat
      /\ \A v \in firm : doomed[v] = 0 => kind[v] = "skip"
      /\ \A v \in firm : doomed[v] # 0 => \E d \in deps[v] : d \in firm /\ doomed[v] = doomed[d] + 1
  BY DEF RunInv, FirmInv, QueueInv, Books
<1> DEFINE S == {v \in Rows : kind[v] = "skip"}
<1>2. FirmClosure = ReachIn(deps, S, Rows)
  BY ReachIsIn DEF FirmClosure
<1>3. S \subseteq FirmClosure /\ \A v \in Rows : \A d \in deps[v] : d \in FirmClosure => v \in FirmClosure
  BY <1>2, ReachBounds, ReachClosed
<1> DEFINE lost == {n \in Nat : \E v \in firm : v \notin FirmClosure /\ n = doomed[v]}
<1>4. PICK n \in lost : \A k \in lost : n <= k
  <2>1. lost \subseteq Nat /\ doomed[u] \in lost
    BY <1>1
  <2> HIDE DEF lost
  <2> QED BY <2>1, Least
<1>5. PICK v \in firm : v \notin FirmClosure /\ n = doomed[v]
  OBVIOUS
<1>6. CASE n = 0
  BY <1>1, <1>3, <1>5, <1>6
<1>7. CASE n # 0
  <2>1. PICK d \in deps[v] : d \in firm /\ doomed[v] = doomed[d] + 1
    BY <1>1, <1>5, <1>7
  <2>2. d \notin FirmClosure
    BY <1>1, <1>3, <1>5, <2>1
  <2>3. doomed[d] \in lost
    BY <1>1, <2>1, <2>2
  <2>4. n <= doomed[d] /\ doomed[d] \in Nat
    <3> HIDE DEF lost
    <3> QED BY <1>1, <1>4, <2>1, <2>3
  <2> QED BY <1>5, <2>1, <2>4
<1> QED BY <1>6, <1>7

\* A kill between two transactions of the skip phase loses nothing of the closure of the
\* queued Skip rows: whatever the depths the search has found the jobs at, taking the
\* deepest first leaves each of the others reachable from a Skip row that is left
\* (apply_skips).
THEOREM LoopSkipRecoverable == Spec => []SkipRecoverable
  BY FirmReached, RunInvHolds, PTL

\* Unless a stop was asked for, a step that did nothing for any job is followed by a
\* sleep (decide_wait): the pump waits for a worker, a resource or the grace, or it has
\* something to show.
THEOREM LoopNoBusyLoop == Spec => NoBusyLoop
<1>1. ASSUME QueueInv, RunInv, EnterStep, last # "none", stop = "none", ~ Sleeps PROVE moved
  <2>1. pc = "gate" /\ ~ Terminates
    BY <1>1 DEF EnterStep, AtGate
  <2>2. CASE flight # {}
    <3>1. settled = TRUE
      BY <1>1, <2>2, Zenon DEF Sleeps, QueueInv, Typed, TypedFlags
    <3>2. moved = TRUE
      BY <1>1, <3>1, Zenon DEF RunInv, MoveInv
    <3> QED BY <3>2
  <2>3. CASE flight = {}
    <3>1. /\ verdict \notin {"grace", "gap"} /\ last # "saturated"
          /\ ~ (last = "no_candidate" /\ finite = TRUE)
      BY <1>1, <2>3 DEF Sleeps
    <3>2. verdict \notin {"idle", "blocked"}
      BY <2>1 DEF Terminates
    <3>3. verdict \in {"none", "resolved"} /\ last \in {"no_candidate", "handled", "spawned"}
      BY <1>1, <3>1, <3>2 DEF QueueInv, Typed, TypedWords
    <3>4. moved = TRUE
      BY <1>1, <2>1, <2>3, <3>1, <3>3 DEF RunInv, MoveInv
    <3> QED BY <3>4
  <2> QED BY <2>2, <2>3
<1>2. QueueInv /\ RunInv /\ [Next]_vars
        => [EnterStep /\ last # "none" /\ stop = "none" /\ ~ Sleeps => moved]_vars
  BY <1>1
<1> QED BY <1>2, RunInvHolds, PTL DEF Spec, NoBusyLoop

-----------------------------------------------------------------------------
(* The selection is kept.                                                   *)

\* The archives do not learn of the job w, and it leaves the queue only as skipped.
LeftAlone(w) ==
    /\ w \in succ' <=> w \in succ
    /\ w \in fail' <=> w \in fail
    /\ w \in ToSet(disk) => w \in ToSet(disk') \cup skipped'

LEMMA ExcludedLeftAlone ==
  ASSUME QueueInv, RunInv, NEW w \in Jobs, kind[w] = "exclude", [Next]_vars PROVE LeftAlone(w)
<1> USE DEF QueueInv, Typed
<1>plain. w \notin flight /\ w \notin Allowed
  BY DEF RunInv, PlainFlight, Allowed, Deferred
<1>1. CASE StartRun
  BY <1>1 DEF StartRun, vars, world, tables, step, LeftAlone
<1>2. CASE Abort
  <2>1. PICK done \in SUBSET flight, bad \in SUBSET flight, gone \in SUBSET Jobs :
          /\ gone \subseteq bad \cup Allowed
          /\ succ' = (succ \ gone) \cup (done \ bad) /\ fail' = (fail \ (done \ bad)) \cup gone
          /\ ToSet(disk') = ToSet(disk) \ (done \cup gone)
    BY <1>2, AbortEffect
  <2> QED BY <1>plain, <2>1 DEF LeftAlone
<1>3. CASE Drained
  <2>1. ToSet(disk') = ToSet(disk) \cup Rows /\ UNCHANGED <<succ, fail>>
    BY <1>3, SavedLine DEF Drained, TypedQueues, Rows
  <2> QED BY <2>1 DEF LeftAlone
<1>4. CASE EnterStep
  BY <1>4 DEF EnterStep, Fresh, vars, world, tables, step, LeftAlone
<1>5. CASE Sift
  BY <1>5 DEF Sift, vars, world, tables, step, LeftAlone
<1>6. CASE SkipOne
  <2>1. PICK u \in Rows : ToSet(disk') = ToSet(disk) \ {u} /\ skipped' = skipped \cup {u}
    BY <1>6, SkipEffect
  <2>2. UNCHANGED <<succ, fail>>
    BY <1>6 DEF SkipOne
  <2> QED BY <2>1, <2>2 DEF LeftAlone
<1>7. CASE Idle
  BY <1>7 DEF Idle, End, Forget, Fresh, vars, world, tables, step, LeftAlone
<1>8. CASE Fill
  BY <1>8 DEF Fill, vars, world, tables, step, LeftAlone
<1>9. CASE Saturated
  BY <1>9 DEF Saturated, vars, world, tables, step, LeftAlone
<1>10. CASE NoCandidate
  BY <1>10 DEF NoCandidate, vars, world, tables, step, LeftAlone
<1>11. CASE DispatchDepFailed
  <2>1. PICK gone \in SUBSET Allowed : /\ fail' = fail \cup gone /\ succ' = succ \ gone
                                       /\ ToSet(disk') = ToSet(disk) \ gone
    BY <1>11, DepFailedEffect
  <2> QED BY <1>plain, <2>1 DEF LeftAlone
<1>12. CASE TriggerSkips
  <2>1. PICK u \in Runnable : ToSet(disk') = ToSet(disk) \ {u}
    BY <1>12, TriggerEffect
  <2>2. u \in Allowed /\ UNCHANGED <<succ, fail>>
    BY <1>12, ScanBounds DEF TriggerSkips
  <2> QED BY <1>plain, <2>1, <2>2 DEF LeftAlone
<1>13. CASE OrphanDefers
  BY <1>13 DEF OrphanDefers, HandledNoSubprocess, vars, world, tables, step, LeftAlone
<1>14. CASE Spawned
  BY <1>14 DEF Spawned, vars, world, tables, step, LeftAlone
<1>15. CASE Judge
  <2>1. \/ UNCHANGED <<queue, disk, succ, fail>>
        \/ \E C \in Culprits : /\ C \subseteq Allowed /\ fail' = fail \cup C /\ succ' = succ \ C
                               /\ ToSet(disk') = ToSet(disk) \ C
    BY <1>15, JudgeEffect
  <2> QED BY <1>plain, <2>1 DEF LeftAlone
<1>16. CASE Reap
  BY <1>16 DEF Reap, vars, world, tables, step, LeftAlone
<1>17. CASE LastStep
  BY <1>17 DEF LastStep, End, Forget, Fresh, vars, world, tables, step, LeftAlone
<1>18. ASSUME NEW u \in Jobs, Succeeds(u) PROVE LeftAlone(w)
  <2>1. u \in flight /\ succ' = succ \cup {u} /\ fail' = fail \ {u}
    BY <1>18, SucceedsEffect
  <2>2. PICK born \in SUBSET absent : ToSet(disk') = born \cup (ToSet(disk) \ {u})
    BY <1>18, SucceedsEffect
  <2> QED BY <1>plain, <2>1, <2>2 DEF LeftAlone
<1>19. ASSUME NEW u \in Jobs, Fails(u) PROVE LeftAlone(w)
  <2>1. u \in flight
    BY <1>19, FailsEffect
  <2>2. PICK gone : /\ gone \subseteq {u} \cup Allowed
                    /\ fail' = fail \cup gone /\ succ' = succ \ gone /\ ToSet(disk') = ToSet(disk) \ gone
    BY <1>19, FailsEffect
  <2> QED BY <1>plain, <2>1, <2>2 DEF LeftAlone
<1>20. ASSUME NEW u \in Jobs, PutBack(u) PROVE LeftAlone(w)
  BY <1>20 DEF PutBack, Settling, vars, world, tables, step, LeftAlone
<1>21. CASE RequestStop
  BY <1>21 DEF RequestStop, Happens, run, vars, world, tables, step, LeftAlone
<1>22. CASE Kill
  BY <1>22 DEF Kill, End, Forget, Fresh, Happens, vars, world, tables, step, LeftAlone
<1>23. CASE OrphanExits
  BY <1>23 DEF OrphanExits, run, vars, world, tables, step, LeftAlone
<1>24. CASE EnqueueElsewhere
  <2>1. PICK u \in absent : disk' = Append(disk, u)
    BY <1>24 DEF EnqueueElsewhere
  <2>2. u \in Jobs /\ u \notin ToSet(disk)
    BY DEF TypedSets, Books
  <2>3. ToSet(disk') = ToSet(disk) \cup {u}
    BY <2>1, <2>2, AppendLine DEF TypedQueues
  <2> QED BY <1>24, <2>3 DEF EnqueueElsewhere, LeftAlone
<1>25. CASE Resume
  BY <1>25 DEF Resume, run, vars, world, tables, step, LeftAlone
<1>26. CASE UNCHANGED vars
  BY <1>26 DEF vars, world, tables, step, LeftAlone
<1> QED BY <1>1, <1>2, <1>3, <1>4, <1>5, <1>6, <1>7, <1>8, <1>9, <1>10, <1>11, <1>12, <1>13, <1>14, <1>15, <1>16, <1>17, <1>18, <1>19, <1>20, <1>21, <1>22, <1>23, <1>24, <1>25, <1>26 DEF Next, Main

\* Unless another skip phase is owed, nothing is left to skip where jobs are started,
\* judged and settled.
LEMMA NothingToSkip ==
  ASSUME QueueInv, RunInv, pc \in {"gate", "settle", "fill", "pick", "judge"}, dirty = FALSE
  PROVE  SkipClosure = {}
<1>2. Seeds = {}
  BY DEF RunInv, SkipInv, SkipsDone
<1>3. SkipClosure = ReachIn(deps, {}, Rows)
  BY <1>2, ReachIsIn DEF SkipClosure
<1>4. ReachIn(deps, {}, Rows) \subseteq {}
  BY ReachLeast
<1> QED BY <1>3, <1>4

\* Only the pump starts jobs.
LEMMA StartsAtPick == ASSUME [Next]_vars, flight' \ flight # {} PROVE pc = "pick"
<1>1. CASE StartRun BY <1>1 DEF StartRun
<1>2. CASE Abort \/ Drained \/ LastStep \/ Idle \/ Kill
  BY <1>2 DEF Abort, Drained, LastStep, Idle, Kill, End, Forget
<1>3. CASE EnterStep \/ Sift \/ SkipOne \/ Fill
  BY <1>3 DEF EnterStep, Sift, SkipOne, Fill
<1>4. CASE Saturated \/ NoCandidate \/ DispatchDepFailed \/ TriggerSkips \/ OrphanDefers \/ Spawned
  BY <1>4 DEF Saturated, NoCandidate, DispatchDepFailed, TriggerSkips, OrphanDefers, Spawned, Picking
<1>5. CASE Judge \/ Reap
  BY <1>5 DEF Judge, Reap
<1>6. ASSUME NEW u \in Jobs, Succeeds(u) \/ Fails(u) \/ PutBack(u) PROVE FALSE
  BY <1>6 DEF Succeeds, Fails, PutBack, Settling
<1>7. CASE RequestStop \/ OrphanExits \/ EnqueueElsewhere \/ Resume
  BY <1>7 DEF RequestStop, OrphanExits, EnqueueElsewhere, Resume, run
<1>8. CASE UNCHANGED vars
  BY <1>8 DEF vars
<1> QED BY <1>1, <1>2, <1>3, <1>4, <1>5, <1>6, <1>7, <1>8 DEF Next, Main

\* A cascade takes a queued job only together with something it depends on.
LEMMA CascadeFrom ==
  ASSUME NEW S, NEW u \in WithCascade(S), u \notin S PROVE deps[u] \cap WithCascade(S) # {}
<1>1. WithCascade(S) = ReachIn(deps, S, Allowed \ (succ \cup fail))
  BY ReachIsIn DEF WithCascade
<1>2. \E d \in deps[u] : d \in ReachIn(deps, S, Allowed \ (succ \cup fail))
  BY <1>1, ReachFrom
<1> QED BY <1>1, <1>2

\* The failure archive grows in the pump, in a verdict, in a settlement and in an abort;
\* in the last two by the jobs that fail in flight and by their cascades.
LEMMA ArchivedWhere ==
  ASSUME QueueInv, [Next]_vars, NEW u \in Rows, u \in fail' \ fail
  PROVE  \/ pc \in {"pick", "judge"}
         \/ pc \in {"gate", "settle"} /\ deps[u] \cap fail' # {}
<1> USE DEF QueueInv, Mirror, Books
<1>1. CASE StartRun BY <1>1 DEF StartRun, tables
<1>2. CASE Abort
  <2>0. PICK done \in SUBSET flight : \E bad \in SUBSET done :
            fail' = (fail \ (done \ bad)) \cup WithCascade(bad)
    BY <1>2 DEF Abort
  <2>1. PICK bad \in SUBSET done : fail' = (fail \ (done \ bad)) \cup WithCascade(bad)
    BY <2>0
  <2>2. pc = "gate"
    BY <1>2 DEF Abort, AtGate
  <2>3. u \notin bad
    BY <2>1, <2>2
  <2>4. u \in WithCascade(bad)
    BY <2>1
  <2> QED BY <2>1, <2>2, <2>3, <2>4, CascadeFrom
<1>3. CASE Drained \/ LastStep \/ Idle \/ Kill
  BY <1>3 DEF Drained, LastStep, Idle, Kill, tables
<1>4. CASE EnterStep \/ Sift \/ SkipOne \/ Fill
  BY <1>4 DEF EnterStep, Sift, SkipOne, Fill, tables
<1>5. CASE Saturated \/ NoCandidate \/ DispatchDepFailed \/ TriggerSkips \/ OrphanDefers \/ Spawned
  BY <1>5 DEF Saturated, NoCandidate, DispatchDepFailed, TriggerSkips, OrphanDefers, Spawned, Picking
<1>6. CASE Judge \/ Reap
  BY <1>6 DEF Judge, Reap
<1>7. ASSUME NEW v \in Jobs, Succeeds(v) PROVE FALSE
  BY <1>7 DEF Succeeds
<1>8. ASSUME NEW v \in Jobs, PutBack(v) PROVE FALSE
  BY <1>8 DEF PutBack, tables
<1>9. ASSUME NEW v \in Jobs, Fails(v) PROVE pc \in {"gate", "settle"} /\ deps[u] \cap fail' # {}
  <2>1. pc = "settle" /\ v \in flight
    BY <1>9 DEF Fails, Settling
  <2>2. fail' = fail \cup WithCascade({v})
    BY <1>9 DEF Fails, Archive
  <2>3. u \notin {v} /\ u \in WithCascade({v})
    BY <2>1, <2>2
  <2> QED BY <2>1, <2>2, <2>3, CascadeFrom
<1>10. CASE RequestStop \/ OrphanExits \/ EnqueueElsewhere \/ Resume
  BY <1>10 DEF RequestStop, OrphanExits, EnqueueElsewhere, Resume, tables
<1>11. CASE UNCHANGED vars
  BY <1>11 DEF vars, tables
<1> QED BY <1>1, <1>2, <1>3, <1>4, <1>5, <1>6, <1>7, <1>8, <1>9, <1>10, <1>11 DEF Next, Main

\* No step of a run goes against the selection (apply_skips, allows_task_type), whatever
\* is spawned, settled, stopped or killed in between: what is to be skipped, with all that
\* depends on it, is never started; it is archived only while a skip phase is owed, by the
\* cascade of a settlement or an abort, with something else it depends on; and what is
\* excluded is neither run, archived nor lost.
THEOREM LoopSelectionKept == Spec => SelectionKept
<1>1. ASSUME QueueInv, RunInv, [Next]_vars PROVE SkippedStays
  <2>1. pc = "pick" \/ pc = "judge" => dirty = FALSE
    BY <1>1 DEF RunInv, SkipInv, DirtyPlace, QueueInv, Typed, TypedFlags
  <2>2. (flight' \ flight) \cap SkipClosure = {}
    BY <1>1, <2>1, StartsAtPick, NothingToSkip
  <2>3. ASSUME NEW u \in (fail' \ fail) \cap SkipClosure PROVE dirty = TRUE /\ deps[u] \cap fail' # {}
    <3>1. u \in Rows
      BY SkipClosureBounds
    <3>2. pc \in {"gate", "settle", "pick", "judge"}
      BY <1>1, <2>3, <3>1, ArchivedWhere
    <3>3. dirty \in BOOLEAN
      BY <1>1 DEF QueueInv, Typed, TypedFlags
    <3>4. dirty = TRUE
      BY <1>1, <2>3, <3>2, <3>3, NothingToSkip
    <3> QED BY <1>1, <2>1, <2>3, <3>1, <3>4, ArchivedWhere
  <2> QED BY <2>2, <2>3 DEF SkippedStays
<1>2. ASSUME QueueInv, RunInv, [Next]_vars PROVE ExcludedStays
  <2> SUFFICES ASSUME NEW w \in Jobs, kind[w] = "exclude" PROVE w \notin flight' /\ LeftAlone(w)
    BY DEF ExcludedStays, LeftAlone
  <2>1. PlainFlight'
    BY <1>2, RunInvStep DEF RunInv
  <2>2. w \notin flight'
    BY <1>2, <2>1, Fixed DEF PlainFlight
  <2> QED BY <1>2, <2>2, ExcludedLeftAlone
<1>3. QueueInv /\ RunInv /\ [Next]_vars => [SkippedStays /\ ExcludedStays]_vars
  BY <1>1, <1>2
<1> QED BY <1>3, RunInvHolds, PTL DEF Spec, SelectionKept

-----------------------------------------------------------------------------
(* The deadlock governor by itself: its grace and gap counter, which Loop   *)
(* abstracts to a count of polls and to a verdict.                          *)

\* A grace under way was given to all who now wait, and what is left of it plus the
\* time they have been waited for makes up a full grace.  The deadline alone says
\* nothing: it may be inherited by a smaller set of waiters.
GraceEarned ==
    /\ inFlight => ~ granted
    /\ ~ granted => missing = NoSet
    /\ granted => /\ WaitedFor
                  /\ age = GraceSeconds \/ left + age >= GraceSeconds

\* deadlock_gap_rounds counts the gap polls in a row since it was last reset.
RoundsCounted == streak = rounds \/ (streak = GapRounds /\ rounds = 0)

WaitInv == GovernorTypeOK /\ GraceEarned /\ RoundsCounted

\* The type invariant in three parts: the provers take the flags, the sets and the
\* numbers one at a time.
Flags == inFlight \in BOOLEAN /\ granted \in BOOLEAN

Sets ==
    /\ waiters \subseteq Job /\ causes \subseteq Causes
    /\ missing \in {NoSet} \cup {{s} : s \in SUBSET Job}
    /\ watched \in {NoSet} \cup {{s} : s \in SUBSET Job}
    /\ decision \in Causes \cup {"none", "no_spawner", "grace_waiting", "expired",
                                "gap_retrying", "escalated"}

Numbers ==
    /\ handled \in 0..MaxHandled /\ delay \in 0..MaxDelay
    /\ left \in (0 - GraceSeconds - 1)..GraceSeconds /\ age \in 0..GraceSeconds
    /\ rounds \in 0..(GapRounds - 1) /\ streak \in 0..GapRounds

LEMMA TypeParts == /\ GovernorTypeOK <=> Flags /\ Sets /\ Numbers
                   /\ GovernorTypeOK' <=> Flags' /\ Sets' /\ Numbers'
  BY Zenon DEF GovernorTypeOK, Flags, Sets, Numbers

LEMMA WaitInit == GovernorInit => WaitInv
<1> SUFFICES ASSUME GovernorInit PROVE WaitInv
  OBVIOUS
<1>1. Flags
  BY DEF GovernorInit, Flags
<1>2. Sets
  BY DEF GovernorInit, Sets
<1>3. Numbers
  BY GovernorAssumption DEF GovernorInit, Numbers
<1>4. GraceEarned
  BY DEF GovernorInit, GraceEarned
<1>5. RoundsCounted
  BY DEF GovernorInit, RoundsCounted
<1> QED BY <1>1, <1>2, <1>3, <1>4, <1>5, TypeParts DEF WaitInv

\* A step that takes the grace back, or goes on without one.
LEMMA NoGrace ==
  ASSUME granted' = FALSE, missing' = NoSet
  PROVE  GraceEarned'
  BY Zenon DEF GraceEarned

\* A step that leaves the grace and the time waited for alone, and adds no waiter.
LEMMA SameGrace ==
  ASSUME GraceEarned, UNCHANGED <<granted, left, missing, watched, age>>,
         waiters' \subseteq waiters, inFlight' => inFlight
  PROVE  GraceEarned'
  BY DEF GraceEarned, WaitedFor

\* The steps that only time or the queue take.
LEMMA WaitQueue ==
  ASSUME WaitInv, Dispatch \/ Settled \/ Handled \/ NewRun \/ Tick
  PROVE  WaitInv'
<1> USE GovernorAssumption DEF RoundsCounted
<1>0. Flags /\ Sets /\ Numbers /\ GraceEarned /\ RoundsCounted
  BY TypeParts DEF WaitInv
<1>1. CASE Dispatch
  <2>1. Flags' /\ Sets'
    BY <1>0, <1>1 DEF Dispatch, RecordDispatchProgress, Flags, Sets
  <2>2. Numbers' /\ RoundsCounted'
    BY <1>0, <1>1 DEF Dispatch, RecordDispatchProgress, Numbers
  <2>3. granted' = FALSE /\ missing' = NoSet
    BY <1>0, <1>1 DEF Dispatch, RecordDispatchProgress, GraceEarned, Flags
  <2> QED BY <2>1, <2>2, <2>3, NoGrace, TypeParts DEF WaitInv
<1>2. CASE Settled
  <2>1. Flags' /\ Sets'
    BY <1>0, <1>2 DEF Settled, grace, history, Flags, Sets
  <2>2. Numbers' /\ RoundsCounted'
    BY <1>0, <1>2 DEF Settled, grace, history, Numbers
  <2>3. granted' = FALSE /\ missing' = NoSet
    BY <1>0, <1>2 DEF Settled, grace, GraceEarned, Flags
  <2> QED BY <2>1, <2>2, <2>3, NoGrace, TypeParts DEF WaitInv
<1>3. CASE Handled
  <2>1. Flags' /\ Sets'
    BY <1>0, <1>3 DEF Handled, grace, history, Flags, Sets
  <2>2. Numbers' /\ RoundsCounted'
    BY <1>0, <1>3 DEF Handled, grace, history, Numbers
  <2>3. GraceEarned'
    BY <1>0, <1>3, SameGrace DEF Handled, grace, history
  <2> QED BY <2>1, <2>2, <2>3, TypeParts DEF WaitInv
<1>4. CASE NewRun
  <2>1. Flags' /\ Sets'
    BY <1>0, <1>4 DEF NewRun, Flags, Sets
  <2>2. Numbers' /\ RoundsCounted'
    BY <1>0, <1>4 DEF NewRun, Numbers
  <2>3. granted' = FALSE /\ missing' = NoSet
    BY <1>4 DEF NewRun
  <2> QED BY <2>1, <2>2, <2>3, NoGrace, TypeParts DEF WaitInv
<1>5. CASE Tick
  <2>1. Flags' /\ Sets'
    BY <1>0, <1>5 DEF Tick, scan, Flags, Sets
  <2>2. Numbers' /\ RoundsCounted'
    BY <1>0, <1>5 DEF Tick, scan, Numbers
  <2>3. GraceEarned'
    <3>1. UNCHANGED <<waiters, inFlight, granted, missing, watched>>
      BY <1>5 DEF Tick, scan
    <3>2. ASSUME granted PROVE WaitedFor' /\ (age' = GraceSeconds \/ left' + age' >= GraceSeconds)
      <4>1. WaitedFor /\ (age = GraceSeconds \/ left + age >= GraceSeconds) /\ watched # NoSet
        BY <1>0, <3>2 DEF GraceEarned, WaitedFor, NoSet
      <4>2. age' = IF age < GraceSeconds THEN age + 1 ELSE age
        BY <1>5, <4>1 DEF Tick
      <4>3. left' = left - 1 \/ left' = left
        BY <1>5 DEF Tick
      <4>4. age' = GraceSeconds \/ left' + age' >= GraceSeconds
        <5>1. left \in Int /\ age \in Int /\ GraceSeconds \in Int /\ age <= GraceSeconds
          BY <1>0 DEF Numbers
        <5> QED BY <4>1, <4>2, <4>3, <5>1
      <4> QED BY <3>1, <4>1, <4>4 DEF WaitedFor
    <3> QED BY <1>0, <3>1, <3>2 DEF GraceEarned
  <2> QED BY <2>1, <2>2, <2>3, TypeParts DEF WaitInv
<1> QED BY <1>1, <1>2, <1>3, <1>4, <1>5

\* A poll gives, continues or takes back a grace, and archives.
LEMMA WaitPoll ==
  ASSUME WaitInv, Poll
  PROVE  WaitInv'
<1> USE GovernorAssumption DEF RoundsCounted
<1>0. Flags /\ Sets /\ Numbers /\ GraceEarned /\ RoundsCounted
  BY TypeParts DEF WaitInv
<1>a. delay' = 0 /\ ~ inFlight /\ UNCHANGED <<inFlight, handled>>
  BY DEF Poll, PollBroken, PollMissing, PollImpossible, PollCycle, PollBackpressure,
         PollGap, Polls
<1>1. CASE PollMissing
  <2>1. /\ decision' \in {"no_spawner", "grace_waiting", "expired"}
        /\ decision' # "grace_waiting" => granted' = FALSE /\ missing' = NoSet /\ left' = 0
    BY <1>1 DEF PollMissing, CheckDependencyGrace
  <2>2. waiters' \subseteq Job /\ causes' \subseteq Causes /\ rounds' = 0 /\ streak' = 0
    BY <1>0, <1>1 DEF PollMissing, Archived, Sets
  <2>3. CASE decision' = "grace_waiting"
    <3>1. granted' = TRUE /\ watched' = {waiters} /\ waiters' = waiters
      BY <1>1, <2>3 DEF PollMissing, CheckDependencyGrace, Watch
    <3>2. missing' \in {NoSet, {waiters}} /\ (left' = GraceSeconds \/ (granted /\ left' = left))
      BY <1>1, <2>3 DEF PollMissing, CheckDependencyGrace
    <3>3. age' = IF WaitedFor THEN age ELSE 0
      BY <1>1, <3>1 DEF PollMissing, Watch, NoSet
    <3>4. Numbers'
      BY <1>0, <1>a, <2>2, <3>2, <3>3 DEF Numbers
    <3>5. age' = GraceSeconds \/ left' + age' >= GraceSeconds
      BY <1>0, <3>2, <3>3 DEF Numbers, GraceEarned
    <3>6. WaitedFor'
      BY <3>1 DEF WaitedFor
    <3>7. GraceEarned'
      BY <1>a, <3>1, <3>5, <3>6 DEF GraceEarned
    <3>8. Sets'
      BY <1>0, <2>1, <2>2, <3>1, <3>2 DEF Sets
    <3>9. Flags'
      BY <1>0, <1>a, <3>1 DEF Flags
    <3> QED BY <2>2, <3>4, <3>7, <3>8, <3>9, TypeParts DEF WaitInv
  <2>4. CASE decision' # "grace_waiting"
    <3>1. watched' = NoSet /\ age' = 0
      BY <1>1, <2>4 DEF PollMissing, Watch
    <3>2. Numbers'
      BY <1>0, <1>a, <2>1, <2>2, <2>4, <3>1 DEF Numbers
    <3>3. Sets'
      BY <2>1, <2>2, <2>4, <3>1 DEF Sets
    <3>4. Flags'
      BY <1>0, <1>a, <2>1, <2>4 DEF Flags
    <3> QED BY <2>1, <2>2, <2>4, <3>2, <3>3, <3>4, NoGrace, TypeParts DEF WaitInv
  <2> QED BY <2>3, <2>4
<1>2. CASE PollBroken \/ PollImpossible \/ PollCycle \/ PollBackpressure \/ PollGap
  <2>1. UNCHANGED <<granted, left, missing, watched, age>>
    BY <1>2 DEF PollBroken, PollImpossible, PollCycle, PollBackpressure, PollGap, grace
  <2>2. waiters' \subseteq waiters
    BY <1>2 DEF PollBroken, PollImpossible, PollCycle, PollBackpressure, PollGap
  <2>3. causes' \subseteq causes
    BY <1>2 DEF PollBroken, PollImpossible, PollCycle, PollBackpressure, PollGap, Archived
  <2>4. decision' \in Causes \cup {"none", "gap_retrying", "escalated"}
    BY <1>2 DEF PollBroken, PollImpossible, PollCycle, PollBackpressure, PollGap, Causes
  <2>5. Numbers' /\ RoundsCounted'
    <3>1. CASE PollGap
      BY <1>0, <1>a, <2>1, <3>1 DEF PollGap, Escalates, Numbers
    <3>2. CASE ~ PollGap
      <4>1. rounds' = 0 /\ streak' = 0
        BY <1>2, <3>2 DEF PollBroken, PollImpossible, PollCycle, PollBackpressure
      <4> QED BY <1>0, <1>a, <2>1, <4>1 DEF Numbers
    <3> QED BY <3>1, <3>2
  <2>6. Flags'
    BY <1>0, <1>a, <2>1 DEF Flags
  <2>7. Sets'
    BY <1>0, <2>1, <2>2, <2>3, <2>4 DEF Sets
  <2> QED BY <1>0, <1>a, <2>1, <2>2, <2>5, <2>6, <2>7, SameGrace, TypeParts DEF WaitInv
<1> QED BY <1>1, <1>2 DEF Poll

LEMMA WaitStep == WaitInv /\ [GovernorNext]_governorVars => WaitInv'
<1> SUFFICES ASSUME WaitInv, [GovernorNext]_governorVars PROVE WaitInv'
  OBVIOUS
<1>1. CASE UNCHANGED governorVars
  BY <1>1 DEF governorVars, WaitInv, GovernorTypeOK, GraceEarned, RoundsCounted, WaitedFor
<1> QED BY <1>1, WaitQueue, WaitPoll DEF GovernorNext

\* The governor's state keeps its types: in particular the deadline never runs away
\* and deadlock_gap_rounds stays below its limit, whatever the polls find.
THEOREM GovernorTypes == GovernorSpec => []GovernorTypeOK
<1>1. WaitInv => GovernorTypeOK
  BY DEF WaitInv
<1> QED BY <1>1, WaitInit, WaitStep, PTL DEF GovernorSpec

\* What the verdicts of a poll are worth in a state of WaitInv.
LEMMA VerdictEarned ==
  ASSUME WaitInv, Poll
  PROVE  /\ decision' = "expired" => WaitedFor /\ age = GraceSeconds
         /\ decision' = "escalated" => streak' = GapRounds
<1> USE GovernorAssumption DEF WaitInv, GovernorTypeOK, GraceEarned, RoundsCounted
<1>1. ASSUME decision' = "expired" PROVE WaitedFor /\ age = GraceSeconds
  <2>1. PollMissing
    BY <1>1 DEF Poll, PollBroken, PollImpossible, PollCycle, PollBackpressure, PollGap
  <2>2. granted /\ left <= 0
    BY <1>1, <2>1 DEF PollMissing, CheckDependencyGrace
  <2> QED BY <2>2
<1>2. ASSUME decision' = "escalated" PROVE streak' = GapRounds
  <2>1. PollGap
    BY <1>2 DEF Poll, PollBroken, PollMissing, CheckDependencyGrace, PollImpossible,
                PollCycle, PollBackpressure
  <2>2. rounds + 1 >= GapRounds
    BY <1>2, <2>1 DEF PollGap, Escalates
  <2> QED BY <2>1, <2>2 DEF PollGap
<1> QED BY <1>1, <1>2

\* Nobody is archived before the full wait (check_dependency_grace, _grant_or_expire,
\* record_dispatch_progress, check_gap_or_escalate): an expired grace was waited for by
\* each of the archived jobs, and an escalation follows GapRounds gap polls in a row.
THEOREM FullWaitHolds == GovernorSpec => FullWait
<1>1. WaitInv /\ [GovernorNext]_governorVars =>
        [Poll => /\ decision' = "expired" => WaitedFor /\ age = GraceSeconds
                 /\ decision' = "escalated" => streak' = GapRounds]_governorVars
  BY VerdictEarned
<1> QED BY <1>1, WaitInit, WaitStep, PTL DEF GovernorSpec, FullWait
=============================================================================
