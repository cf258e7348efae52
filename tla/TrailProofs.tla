---------------------------- MODULE TrailProofs -----------------------------
(***************************************************************************)
(* The attempt trail agrees with the archives, activation numbers are      *)
(* distinct and no job is forgotten, for every set of jobs and every       *)
(* bound.  The invariant is stated job by job: most steps touch one job.   *)
(***************************************************************************)
EXTENDS Trail, TLAPS

Outcomes == {"running", "succeeded", "failed", "requeued", "skipped"}
Entry == [act : Nat, no : Nat, outcome : Outcomes, body : BOOLEAN]
QueueRow == [act : Nat, no : Nat]

-----------------------------------------------------------------------------
(* Trails as values: t is the trail of one job, r a row of its queue.       *)

\* Some activation on the trail is the highest.
Topped(t) ==
    \E a \in Nat : /\ a = 0 \/ \E n \in DOMAIN t : t[n].act = a
                   /\ \A n \in DOMAIN t : t[n].act <= a

\* ActivationsDistinct, of one trail.
Ordered(t) ==
    \A m, n \in DOMAIN t :
        t[m].body = TRUE /\ t[n].body = TRUE /\ m < n =>
            /\ t[m].act <= t[n].act
            /\ t[n].no = 1 => t[m].act < t[n].act

Numbered(t) ==
    \A n \in DOMAIN t : t[n].act \in 1..n /\ t[n].no \in 1..(MaxRetries + 1)

GoodTrail(t) ==
    /\ t \in Seq(Entry) /\ Len(t) <= MaxRows
    /\ Topped(t) /\ Ordered(t) /\ Numbered(t)

\* No execution on the trail is of a later activation.
Latest(act, t) == \A n \in DOMAIN t : t[n].body = TRUE => t[n].act <= act

\* A row of the queue: a retry is of the latest activation there is.
GoodRow(r, t) ==
    /\ r \in QueueRow
    /\ r # NoRow => /\ r.act \in 1..(Len(t) + 1) /\ r.no \in 1..(MaxRetries + 1)
                    /\ r.no > 1 => Latest(r.act, t)

\* The row of an execution is the last one on the trail, and open.
GoodExec(e, t) ==
    e # 0 => e = Len(t) /\ t[e].outcome = "running" /\ t[e].body = TRUE

\* The success on record, s, is the last word of the trail.
LastWord(s, t) ==
    s > Seeded => /\ s \in DOMAIN t /\ t[s].outcome = "succeeded"
                  /\ \A n \in DOMAIN t :
                        /\ t[n].outcome = "succeeded" => n <= s
                        /\ t[n].outcome = "failed" => n < s

-----------------------------------------------------------------------------
(* The inductive invariant.                                                 *)

Typed ==
    /\ trigger \in [Jobs -> Triggers]
    /\ queue \in [Jobs -> QueueRow] /\ memory \in [Jobs -> QueueRow]
    /\ succ \in [Jobs -> Int] /\ failed \in [Jobs -> {"no", "plain", "fatal"}]
    /\ trail \in [Jobs -> Seq(Entry)] /\ exec \in [Jobs -> Nat]
    /\ running \in BOOLEAN
    /\ retrying \in Jobs \cup {Nobody} /\ seeding \in Jobs \cup {Nobody}
    /\ wanted \subseteq Jobs /\ owed \subseteq Jobs

\* What the queue table holds of a retry is what the run holds of it.
TableAndRun(j) ==
    queue[j].no > 1 =>
        /\ memory[j] # NoRow => memory[j] = queue[j]
        /\ exec[j] # 0 => RowOf(j) = queue[j]

JobNumbers(j) ==
    /\ GoodTrail(trail[j])
    /\ GoodRow(queue[j], trail[j]) /\ GoodRow(memory[j], trail[j])
    /\ GoodExec(exec[j], trail[j]) /\ (exec[j] # 0 => memory[j] = NoRow)
    /\ TableAndRun(j)

JobArchives(j) ==
    /\ succ[j] >= Absent /\ succ[j] <= Len(trail[j])
    /\ succ[j] = Absent \/ failed[j] = "no"
    /\ LastWord(succ[j], trail[j])
    /\ \A n \in DOMAIN trail[j] : trail[j][n].outcome = "running" =>
          n = exec[j] \/ (closing.job = j /\ closing.row = n) \/ <<j, n>> \in lost
    /\ j \in wanted => queue[j] # NoRow \/ succ[j] # Absent \/ failed[j] # "no"

\* The record that excuses a skip.
Grounds(j) ==
    \/ succ[j] > Seeded
    \/ trigger[j] # "on_input_change" /\ succ[j] = Seeded
    \/ trigger[j] = "once" /\ failed[j] # "no"

ClosingOK ==
    closing # Open =>
        /\ running = TRUE /\ closing.job \in Jobs
        /\ closing = [job |-> closing.job, row |-> closing.row, outcome |-> closing.outcome]
        /\ closing.outcome \in {"skip", "skipped", "failed", "requeued"}
        /\ exec[closing.job] = 0
        /\ closing.row \in DOMAIN trail[closing.job]
        /\ trail[closing.job][closing.row].outcome = "running"
        /\ closing.outcome = "skip" => Grounds(closing.job)
        /\ closing.outcome = "failed" => succ[closing.job] = Absent

\* The console and a run exclude each other, and retry_failure enqueues first.
OneProcess ==
    /\ running = TRUE => retrying = Nobody /\ seeding = Nobody
    /\ running = FALSE => \A j \in Jobs : memory[j] = NoRow /\ exec[j] = 0
    /\ retrying # Nobody => queue[retrying] # NoRow

TrailInv ==
    /\ Typed /\ ClosingOK /\ OneProcess
    /\ \A j \in Jobs : JobNumbers(j) /\ JobArchives(j)

-----------------------------------------------------------------------------
(* What happens to a trail.                                                 *)

LEMMA RowFacts ==
  ASSUME NEW t, NEW n \in DOMAIN t, GoodTrail(t)
  PROVE  /\ n \in 1..Len(t) /\ t[n] \in Entry
         /\ t[n].act \in 1..n /\ t[n].no \in 1..(MaxRetries + 1)
  BY DEF GoodTrail, Numbered

\* A row is opened: record_attempt_dispatch.
LEMMA OpenedEntry ==
  ASSUME NEW t \in Seq(Entry), NEW e \in Entry
  PROVE  /\ Append(t, e) \in Seq(Entry) /\ Len(Append(t, e)) = Len(t) + 1
         /\ DOMAIN Append(t, e) = DOMAIN t \cup {Len(t) + 1}
         /\ Append(t, e)[Len(t) + 1] = e
         /\ \A n \in DOMAIN t : Append(t, e)[n] = t[n] /\ n \in 1..Len(t)
  OBVIOUS

LEMMA OpenedGood ==
  ASSUME NEW t, GoodTrail(t), Len(t) < MaxRows,
         NEW e \in Entry, e.act \in 1..(Len(t) + 1), e.no \in 1..(MaxRetries + 1),
         e.body = TRUE => /\ Latest(e.act, t)
                          /\ e.no = 1 => \A n \in DOMAIN t : t[n].act < e.act
  PROVE  GoodTrail(Append(t, e))
<1> USE TrailAssumption
<1> DEFINE u == Append(t, e)
<1>0. t \in Seq(Entry) /\ Len(t) \in Nat /\ MaxRows \in Nat
  BY DEF GoodTrail
<1>1. /\ u \in Seq(Entry) /\ Len(u) = Len(t) + 1
      /\ DOMAIN u = DOMAIN t \cup {Len(t) + 1}
      /\ u[Len(t) + 1] = e
      /\ \A n \in DOMAIN t : u[n] = t[n] /\ n \in 1..Len(t)
  BY <1>0, OpenedEntry
<1>2. \A n \in DOMAIN t : t[n] \in Entry
  BY <1>0
<1> HIDE DEF u
<1>3. Numbered(u)
  BY <1>1 DEF GoodTrail, Numbered
<1>4. Ordered(u)
  <2> SUFFICES ASSUME NEW m \in DOMAIN u, NEW n \in DOMAIN u,
                      u[m].body = TRUE, u[n].body = TRUE, m < n
               PROVE  u[m].act <= u[n].act /\ (u[n].no = 1 => u[m].act < u[n].act)
    BY DEF Ordered
  <2>1. CASE n \in DOMAIN t
    <3>1. m \in DOMAIN t
      BY <1>0, <1>1, <2>1
    <3> QED BY <1>1, <2>1, <3>1 DEF GoodTrail, Ordered
  <2>2. CASE n = Len(t) + 1
    <3>1. m \in DOMAIN t
      BY <1>0, <1>1, <2>2
    <3> QED BY <1>1, <2>2, <3>1 DEF Latest
  <2> QED BY <1>1, <2>1, <2>2
<1>5. Topped(u)
  <2>1. PICK a \in Nat : /\ a = 0 \/ \E n \in DOMAIN t : t[n].act = a
                         /\ \A n \in DOMAIN t : t[n].act <= a
    BY DEF GoodTrail, Topped
  <2>2. CASE e.act > a
    <3>1. e.act \in Nat /\ \E n \in DOMAIN u : u[n].act = e.act
      BY <1>1
    <3>2. \A n \in DOMAIN t : t[n].act <= e.act
      <4> TAKE n \in DOMAIN t
      <4>1. t[n].act \in Nat /\ t[n].act <= a
        BY <1>2, <2>1 DEF Entry
      <4> QED BY <2>2, <3>1, <4>1
    <3>3. \A n \in DOMAIN u : u[n].act <= e.act
      BY <1>1, <3>1, <3>2
    <3> QED BY <3>1, <3>3 DEF Topped
  <2>3. CASE ~ (e.act > a)
    <3>1. \A n \in DOMAIN u : u[n].act <= a
      BY <1>1, <2>1, <2>3
    <3>2. a = 0 \/ \E n \in DOMAIN u : u[n].act = a
      BY <1>1, <2>1
    <3> QED BY <3>1, <3>2 DEF Topped
  <2> QED BY <2>2, <2>3
<1> QED BY <1>0, <1>1, <1>3, <1>4, <1>5 DEF GoodTrail, u

\* A row is closed, with outcome o.
LEMMA ClosedEntry ==
  ASSUME NEW t \in Seq(Entry), NEW k \in DOMAIN t, NEW o \in Outcomes
  PROVE  LET u == [t EXCEPT ![k].outcome = o]
         IN  /\ u \in Seq(Entry) /\ Len(u) = Len(t) /\ DOMAIN u = DOMAIN t
             /\ u[k].outcome = o
             /\ \A n \in DOMAIN t : n # k => u[n] = t[n]
             /\ \A n \in DOMAIN t : /\ u[n].act = t[n].act /\ u[n].no = t[n].no
                                    /\ u[n].body = t[n].body
<1> DEFINE u == [t EXCEPT ![k].outcome = o]
<1>1. u = [t EXCEPT ![k] = [t[k] EXCEPT !.outcome = o]]
  OBVIOUS
<1>2. t[k] \in Entry
  OBVIOUS
<1> DEFINE f == [t[k] EXCEPT !.outcome = o]
<1>3. /\ f \in Entry /\ f.outcome = o
      /\ f.act = t[k].act /\ f.no = t[k].no /\ f.body = t[k].body
  BY <1>2 DEF Entry
<1> HIDE DEF f
<1> DEFINE v == [t EXCEPT ![k] = f]
<1>4. v \in Seq(Entry) /\ Len(v) = Len(t) /\ DOMAIN v = DOMAIN t
  BY <1>3
<1>5. v[k] = f /\ \A n \in DOMAIN t : n # k => v[n] = t[n]
  OBVIOUS
<1>6. u = v
  BY <1>1 DEF f
<1> HIDE DEF u, v
<1>7. \A n \in DOMAIN t : v[n].act = t[n].act /\ v[n].no = t[n].no /\ v[n].body = t[n].body
  BY <1>3, <1>5
<1>8. /\ u \in Seq(Entry) /\ Len(u) = Len(t) /\ DOMAIN u = DOMAIN t
      /\ u[k].outcome = o
      /\ \A n \in DOMAIN t : n # k => u[n] = t[n]
      /\ \A n \in DOMAIN t : u[n].act = t[n].act /\ u[n].no = t[n].no /\ u[n].body = t[n].body
  BY <1>3, <1>4, <1>5, <1>6, <1>7
<1> QED BY <1>8 DEF u

LEMMA ClosedGood ==
  ASSUME NEW t, GoodTrail(t), NEW k \in DOMAIN t, NEW o \in Outcomes
  PROVE  GoodTrail([t EXCEPT ![k].outcome = o])
<1> DEFINE u == [t EXCEPT ![k].outcome = o]
<1>1. /\ u \in Seq(Entry) /\ Len(u) = Len(t) /\ DOMAIN u = DOMAIN t
      /\ \A n \in DOMAIN t : u[n].act = t[n].act /\ u[n].no = t[n].no /\ u[n].body = t[n].body
  BY ClosedEntry DEF GoodTrail
<1> HIDE DEF u
<1>2. Topped(u)
  BY <1>1 DEF GoodTrail, Topped
<1>3. Ordered(u)
  BY <1>1 DEF GoodTrail, Ordered
<1>4. Numbered(u)
  BY <1>1 DEF GoodTrail, Numbered
<1> QED BY <1>1, <1>2, <1>3, <1>4 DEF GoodTrail, u

\* highest_activation is one.
LEMMA HighestIsHighest ==
  ASSUME NEW j \in Jobs, GoodTrail(trail[j])
  PROVE  /\ HighestActivation(j) \in 0..Len(trail[j])
         /\ \A n \in DOMAIN trail[j] : trail[j][n].act <= HighestActivation(j)
<1> DEFINE t == trail[j]
<1>1. PICK a \in Nat : /\ a = 0 \/ \E n \in DOMAIN t : t[n].act = a
                       /\ \A n \in DOMAIN t : t[n].act <= a
  BY DEF GoodTrail, Topped
<1>2. a \in Activations(j) \cup {0} /\ \A b \in Activations(j) : b <= a
  BY <1>1 DEF Activations
<1> DEFINE h == HighestActivation(j)
<1>3. h \in Activations(j) \cup {0} /\ \A b \in Activations(j) : b <= h
  BY <1>2 DEF HighestActivation
<1> HIDE DEF h
<1>4. \A n \in DOMAIN t : t[n].act <= h
  BY <1>3 DEF Activations
<1>5. Len(t) \in Nat
  BY DEF GoodTrail
<1>6. h \in 0..Len(t)
  <2>1. CASE h = 0
    BY <1>5, <2>1
  <2>2. CASE h \in Activations(j)
    <3>1. PICK n \in DOMAIN t : h = t[n].act
      BY <2>2 DEF Activations
    <3> QED BY <1>5, <3>1, RowFacts
  <2> QED BY <1>3, <2>1, <2>2
<1> QED BY <1>4, <1>6 DEF h

-----------------------------------------------------------------------------
(* Facts about one job that the steps share.                                *)

LEMMA RowStaysOpened ==
  ASSUME NEW t, NEW r, GoodTrail(t), GoodRow(r, t), NEW e \in Entry,
         r.no > 1 /\ e.body = TRUE => e.act <= r.act
  PROVE  GoodRow(r, Append(t, e))
<1>0. t \in Seq(Entry) /\ Len(t) \in Nat
  BY DEF GoodTrail
<1> DEFINE u == Append(t, e)
<1>1. /\ Len(u) = Len(t) + 1 /\ DOMAIN u = DOMAIN t \cup {Len(t) + 1}
      /\ u[Len(t) + 1] = e /\ \A n \in DOMAIN t : u[n] = t[n]
  BY <1>0, OpenedEntry
<1> HIDE DEF u
<1>2. r # NoRow => r.act \in 1..(Len(u) + 1)
  BY <1>0, <1>1 DEF GoodRow
<1>3. r # NoRow /\ r.no > 1 => Latest(r.act, u)
  BY <1>1 DEF GoodRow, Latest
<1> QED BY <1>2, <1>3 DEF GoodRow, u

LEMMA RowStaysClosed ==
  ASSUME NEW t, NEW r, GoodTrail(t), GoodRow(r, t), NEW k \in DOMAIN t, NEW o \in Outcomes
  PROVE  GoodRow(r, [t EXCEPT ![k].outcome = o])
<1> DEFINE u == [t EXCEPT ![k].outcome = o]
<1>1. /\ Len(u) = Len(t) /\ DOMAIN u = DOMAIN t
      /\ \A n \in DOMAIN t : u[n].act = t[n].act /\ u[n].body = t[n].body
  BY ClosedEntry DEF GoodTrail
<1> HIDE DEF u
<1> QED BY <1>1 DEF GoodRow, Latest, u

\* The row of an execution: RowOf is a row of the queue, of the latest activation.
LEMMA ExecRow ==
  ASSUME NEW j \in Jobs, Typed, JobNumbers(j), exec[j] # 0
  PROVE  /\ exec[j] \in DOMAIN trail[j] /\ exec[j] = Len(trail[j])
         /\ RowOf(j) \in QueueRow /\ RowOf(j) # NoRow /\ GoodRow(RowOf(j), trail[j])
         /\ RowOf(j).no \in 1..(MaxRetries + 1) /\ RowOf(j).act \in 1..Len(trail[j])
         /\ Latest(RowOf(j).act, trail[j])
<1> DEFINE t == trail[j]
           e == exec[j]
<1>0. GoodTrail(t) /\ t \in Seq(Entry) /\ Len(t) \in Nat /\ e \in Nat
  BY DEF JobNumbers, GoodTrail, Typed
<1>1. e \in DOMAIN t /\ e = Len(t) /\ t[e].body = TRUE
  BY <1>0 DEF JobNumbers, GoodExec
<1>2. t[e].act \in 1..e /\ t[e].no \in 1..(MaxRetries + 1)
  BY <1>0, <1>1, RowFacts
<1>3. RowOf(j) \in QueueRow /\ RowOf(j).act = t[e].act /\ RowOf(j).no = t[e].no
  BY <1>2, TrailAssumption DEF RowOf, QueueRow
<1>4. RowOf(j) # NoRow
  BY <1>2, <1>3, TrailAssumption DEF NoRow
<1>5. Latest(t[e].act, t)
  <2> SUFFICES ASSUME NEW n \in DOMAIN t, t[n].body = TRUE PROVE t[n].act <= t[e].act
    BY DEF Latest
  <2>1. n \in 1..Len(t) /\ t[n].act \in Nat
    BY <1>0, RowFacts
  <2>2. CASE n = e
    BY <2>1, <2>2
  <2>3. CASE n < e
    BY <1>0, <1>1, <2>3 DEF GoodTrail, Ordered
  <2> QED BY <1>1, <2>1, <2>2, <2>3
<1>6. t[e].act \in 1..(Len(t) + 1)
  BY <1>0, <1>1, <1>2
<1> QED BY <1>1, <1>2, <1>3, <1>4, <1>5, <1>6 DEF GoodRow

\* A job whose row of the queue, execution and trail a step leaves alone.
LEMMA NumbersKept ==
  ASSUME NEW j \in Jobs, JobNumbers(j),
         queue'[j] = queue[j], memory'[j] = memory[j],
         exec'[j] = exec[j], trail'[j] = trail[j]
  PROVE  JobNumbers(j)'
  BY DEF JobNumbers, TableAndRun, RowOf

\* The archives know of everything on the trail and of every job that is wanted.
LEMMA ArchivesKept ==
  ASSUME NEW j \in Jobs, JobArchives(j),
         exec'[j] = exec[j], trail'[j] = trail[j], succ'[j] = succ[j],
         failed'[j] = failed[j], queue[j] # NoRow => queue'[j] # NoRow,
         closing.job = j => closing'.job = j /\ closing'.row = closing.row,
         lost \subseteq lost', j \in wanted' => j \in wanted
  PROVE  JobArchives(j)'
  BY DEF JobArchives

\* Between runs there is nothing in memory, in flight or to be closed.
LEMMA WhenIdle ==
  ASSUME TrailInv, running = FALSE
  PROVE  closing = Open /\ \A j \in Jobs : memory[j] = NoRow /\ exec[j] = 0
  BY DEF TrailInv, ClosingOK, OneProcess

LEMMA WhenCalled ==
  ASSUME TrailInv, Idle
  PROVE  running = FALSE /\ retrying = Nobody /\ seeding = Nobody
  BY Zenon DEF Idle, TrailInv, Typed

LEMMA WhenStepping ==
  ASSUME TrailInv, Steps
  PROVE  running = TRUE /\ closing = Open /\ retrying = Nobody /\ seeding = Nobody
<1>1. running = TRUE
  BY Zenon DEF Steps, TrailInv, Typed
<1> QED BY <1>1 DEF Steps, TrailInv, OneProcess

\* Between a step's start and its end closing names no job.
LEMMA OpenFacts == Open.job \notin Jobs /\ Open.outcome = "none"
  BY TrailAssumption DEF Open

-----------------------------------------------------------------------------
(* A run.                                                                   *)

LEMMA TrailInit == Init => TrailInv
<1> SUFFICES ASSUME Init PROVE TrailInv
  OBVIOUS
<1> USE TrailAssumption
<1>1. Typed
  <2>1. NoRow \in QueueRow /\ Absent \in Int
    BY DEF NoRow, QueueRow, Absent
  <2>2. running \in BOOLEAN
    BY DEF Init
  <2>3. trail \in [Jobs -> Seq(Entry)]
    BY DEF Init
  <2> QED BY <2>1, <2>2, <2>3 DEF Init, Typed
<1>2. ClosingOK
  BY DEF Init, ClosingOK
<1>3. OneProcess
  BY DEF Init, OneProcess
<1>4. ASSUME NEW j \in Jobs PROVE JobNumbers(j) /\ JobArchives(j)
  <2>1. trail[j] = <<>> /\ queue[j] = NoRow /\ memory[j] = NoRow /\ exec[j] = 0
        /\ succ[j] = Absent /\ failed[j] = "no" /\ j \notin wanted
    BY DEF Init
  <2>2. GoodTrail(<<>>)
    <3>1. Topped(<<>>)
      BY DEF Topped
    <3> QED BY <3>1 DEF GoodTrail, Ordered, Numbered
  <2>3. GoodRow(NoRow, <<>>)
    BY DEF GoodRow, NoRow, QueueRow
  <2>4. JobNumbers(j)
    BY <2>1, <2>2, <2>3 DEF JobNumbers, GoodExec, TableAndRun, NoRow
  <2>5. JobArchives(j)
    BY <2>1 DEF JobArchives, LastWord, Absent, Seeded
  <2> QED BY <2>4, <2>5
<1> QED BY <1>1, <1>2, <1>3, <1>4 DEF TrailInv

LEMMA EnqueueStep ==
  ASSUME TrailInv, NEW j \in Jobs, Enqueue(j)
  PROVE  TrailInv'
<1> USE DEF tables, engine, console, budgets, history
<1>1. /\ queue' = [queue EXCEPT ![j] = IF @ = NoRow THEN NewRow ELSE @]
      /\ wanted' = wanted \cup {j}
      /\ UNCHANGED <<trigger, succ, failed, trail, engine, console, owed, lost>>
  BY DEF Enqueue
<1>2. NewRow \in QueueRow /\ NewRow # NoRow /\ NewRow.act = 1 /\ NewRow.no = 1
  BY DEF NewRow, NoRow, QueueRow
<1>3. Typed'
  BY <1>1, <1>2 DEF TrailInv, Typed
<1>4. ClosingOK'
  BY <1>1 DEF TrailInv, ClosingOK, Grounds
<1>5. queue'[j] # NoRow /\ \A k \in Jobs \ {j} : queue'[k] = queue[k]
  BY <1>1, <1>2 DEF TrailInv, Typed
<1>6. OneProcess'
  BY <1>1, <1>5 DEF TrailInv, OneProcess, Typed
<1>7. JobNumbers(j)'
  <2>1. CASE queue[j] # NoRow
    BY <1>1, <2>1, NumbersKept DEF TrailInv, Typed
  <2>2. CASE queue[j] = NoRow
    <3>1. queue'[j] = NewRow
      BY <1>1, <2>2 DEF TrailInv, Typed
    <3>2. GoodRow(NewRow, trail[j])
      BY <1>2, TrailAssumption DEF GoodRow, TrailInv, Typed
    <3> QED BY <1>1, <1>2, <3>1, <3>2 DEF TrailInv, JobNumbers, TableAndRun
  <2> QED BY <2>1, <2>2
<1>8. JobArchives(j)'
  BY <1>1, <1>5 DEF TrailInv, JobArchives
<1>9. ASSUME NEW k \in Jobs, k # j PROVE JobNumbers(k)' /\ JobArchives(k)'
  BY <1>1, <1>5, <1>9, NumbersKept, ArchivesKept DEF TrailInv
<1> QED BY <1>3, <1>4, <1>6, <1>7, <1>8, <1>9 DEF TrailInv

LEMMA StartRunStep ==
  ASSUME TrailInv, StartRun
  PROVE  TrailInv'
<1> USE DEF tables, engine, console, budgets, history
<1>1. /\ running' = TRUE /\ memory' = queue
      /\ UNCHANGED <<trigger, tables, exec, closing, console, history>>
  BY DEF StartRun
<1>2. retrying = Nobody /\ seeding = Nobody /\ closing = Open /\ \A j \in Jobs : exec[j] = 0
  BY WhenCalled, WhenIdle DEF StartRun
<1>3. Typed'
  <2>1. running' \in BOOLEAN
    BY <1>1
  <2> QED BY <1>1, <2>1 DEF TrailInv, Typed
<1>4. ClosingOK' /\ OneProcess'
  BY <1>1, <1>2 DEF ClosingOK, OneProcess
<1>5. ASSUME NEW j \in Jobs PROVE JobNumbers(j)' /\ JobArchives(j)'
  <2>1. JobNumbers(j)'
    BY <1>1, <1>2 DEF TrailInv, JobNumbers, TableAndRun
  <2>2. JobArchives(j)'
    BY <1>1, ArchivesKept DEF TrailInv
  <2> QED BY <2>1, <2>2
<1> QED BY <1>3, <1>4, <1>5 DEF TrailInv

\* A row is opened for job j; what its queue and memory hold then.
LEMMA Opening ==
  ASSUME TrailInv, NEW j \in Jobs, Steps, CanOpen(j), memory[j] # NoRow,
         NEW act \in 1..(Len(trail[j]) + 1), NEW body \in BOOLEAN,
         trail' = WithRow(j, act, memory[j].no, body),
         memory' = [memory EXCEPT ![j] = NoRow],
         body = TRUE => /\ Latest(act, trail[j])
                        /\ memory[j].no = 1 => \A n \in DOMAIN trail[j] : trail[j][n].act < act
                        /\ memory[j].no > 1 => act = memory[j].act
  PROVE  /\ trail' \in [Jobs -> Seq(Entry)] /\ memory' \in [Jobs -> QueueRow]
         /\ GoodTrail(trail'[j]) /\ GoodRow(queue[j], trail'[j]) /\ memory'[j] = NoRow
         /\ GoodRow(NoRow, trail'[j])
         /\ Len(trail'[j]) = Len(trail[j]) + 1
         /\ DOMAIN trail'[j] = DOMAIN trail[j] \cup {Len(trail[j]) + 1}
         /\ \A n \in DOMAIN trail[j] : trail'[j][n] = trail[j][n]
         /\ trail'[j][Len(trail[j]) + 1] =
               [act |-> act, no |-> memory[j].no, outcome |-> "running", body |-> body]
         /\ \A k \in Jobs \ {j} : trail'[k] = trail[k] /\ memory'[k] = memory[k]
<1> DEFINE t == trail[j]
           e == [act |-> act, no |-> memory[j].no, outcome |-> "running", body |-> body]
<1>0. GoodTrail(t) /\ t \in Seq(Entry) /\ Len(t) \in Nat /\ Len(t) < MaxRows
  BY DEF TrailInv, JobNumbers, GoodTrail, CanOpen
<1>1. GoodRow(memory[j], t) /\ GoodRow(queue[j], t)
  BY DEF TrailInv, JobNumbers
<1>2. memory[j].no \in 1..(MaxRetries + 1)
  BY <1>1 DEF GoodRow
<1>3. /\ e \in Entry /\ e.act = act /\ e.no = memory[j].no /\ e.body = body
      /\ e.act \in 1..(Len(t) + 1)
  <2>1. act \in Nat /\ memory[j].no \in Nat /\ "running" \in Outcomes
    BY <1>0, <1>2, TrailAssumption DEF Outcomes
  <2> QED BY <2>1 DEF Entry
<1> HIDE DEF e
<1>4. GoodTrail(Append(t, e))
  BY <1>0, <1>2, <1>3, OpenedGood
<1>5. GoodRow(queue[j], Append(t, e))
  <2>1. ASSUME queue[j].no > 1, e.body = TRUE PROVE e.act <= queue[j].act
    <3>1. memory[j] = queue[j]
      BY <2>1 DEF TrailInv, JobNumbers, TableAndRun
    <3> QED BY <1>3, <2>1, <3>1
  <2> QED BY <1>0, <1>1, <1>3, <2>1, RowStaysOpened
<1>6. /\ Append(t, e) \in Seq(Entry) /\ Len(Append(t, e)) = Len(t) + 1
      /\ DOMAIN Append(t, e) = DOMAIN t \cup {Len(t) + 1}
      /\ Append(t, e)[Len(t) + 1] = e
      /\ \A n \in DOMAIN t : Append(t, e)[n] = t[n]
  BY <1>0, <1>3, OpenedEntry
<1>7. trail' = [trail EXCEPT ![j] = Append(t, e)]
  BY DEF WithRow, e
<1>8. trail'[j] = Append(t, e) /\ \A k \in Jobs \ {j} : trail'[k] = trail[k]
  BY <1>7 DEF TrailInv, Typed
<1>9. trail' \in [Jobs -> Seq(Entry)]
  BY <1>6, <1>7 DEF TrailInv, Typed
<1>10. NoRow \in QueueRow
  BY DEF NoRow, QueueRow
<1>11. /\ memory' \in [Jobs -> QueueRow] /\ memory'[j] = NoRow
       /\ \A k \in Jobs \ {j} : memory'[k] = memory[k]
  BY <1>10 DEF TrailInv, Typed
<1>12. GoodRow(NoRow, trail'[j])
  BY <1>10 DEF GoodRow
<1> QED BY <1>4, <1>5, <1>6, <1>8, <1>9, <1>11, <1>12 DEF e

\* The new row is in flight or about to be closed, and it is not the last word yet.
LEMMA OpeningArchives ==
  ASSUME TrailInv, NEW j \in Jobs, closing = Open, exec[j] = 0,
         Len(trail'[j]) = Len(trail[j]) + 1,
         DOMAIN trail'[j] = DOMAIN trail[j] \cup {Len(trail[j]) + 1},
         \A n \in DOMAIN trail[j] : trail'[j][n] = trail[j][n],
         trail'[j][Len(trail[j]) + 1].outcome = "running",
         \/ exec'[j] = Len(trail[j]) + 1
         \/ closing'.job = j /\ closing'.row = Len(trail[j]) + 1,
         UNCHANGED <<queue, succ, failed, lost, wanted>>
  PROVE  JobArchives(j)'
<1> DEFINE t == trail[j]
<1>0. t \in Seq(Entry) /\ Len(t) \in Nat /\ DOMAIN t = 1..Len(t) /\ succ[j] \in Int
  BY DEF TrailInv, Typed
<1>1. succ[j] >= Absent /\ succ[j] <= Len(trail'[j]) /\ (succ[j] = Absent \/ failed[j] = "no")
  BY <1>0 DEF TrailInv, JobArchives
<1>2. LastWord(succ[j], trail'[j])
  <2>1. LastWord(succ[j], t)
    BY DEF TrailInv, JobArchives
  <2> QED BY <1>0, <2>1 DEF LastWord
<1>3. ASSUME NEW n \in DOMAIN trail'[j], trail'[j][n].outcome = "running"
      PROVE  n = exec'[j] \/ (closing'.job = j /\ closing'.row = n) \/ <<j, n>> \in lost
  <2>1. CASE n \in DOMAIN t
    <3>1. t[n].outcome = "running" /\ n # 0
      BY <1>0, <1>3, <2>1
    <3> QED BY <2>1, <3>1, OpenFacts DEF TrailInv, JobArchives
  <2>2. CASE n = Len(t) + 1
    BY <2>2
  <2> QED BY <2>1, <2>2
<1> QED BY <1>1, <1>2, <1>3 DEF TrailInv, JobArchives

\* The triggers refuse a job only on a record that excuses it.
LEMMA RefusedOnGrounds ==
  ASSUME TrailInv, NEW j \in Jobs, NEW changed \in BOOLEAN, ~ Admitted(j, changed)
  PROVE  Grounds(j)
<1>1. succ[j] \in Int /\ succ[j] >= Absent /\ trigger[j] \in Triggers
  BY DEF TrailInv, Typed, JobArchives
<1>2. succ[j] # Absent => succ[j] > Seeded \/ succ[j] = Seeded
  BY <1>1 DEF Absent, Seeded
<1>3. CASE trigger[j] = "once"
  BY <1>2, <1>3 DEF Admitted, Grounds
<1>4. CASE trigger[j] = "on_failure"
  BY <1>2, <1>4 DEF Admitted, Grounds
<1>5. CASE trigger[j] = "on_input_change"
  BY <1>5 DEF Admitted, Grounds, TrustedBaseline
<1>6. CASE trigger[j] = "always"
  BY <1>6 DEF Admitted
<1> QED BY <1>1, <1>3, <1>4, <1>5, <1>6 DEF Triggers

LEMMA SkipStep ==
  ASSUME TrailInv, NEW j \in Jobs, Skip(j)
  PROVE  TrailInv'
<1> USE DEF tables, engine, console, budgets, history
<1>1. /\ Steps /\ memory[j] # NoRow /\ memory[j].no <= 1 /\ CanOpen(j)
      /\ memory' = [memory EXCEPT ![j] = NoRow]
      /\ trail' = WithRow(j, memory[j].act, memory[j].no, FALSE)
      /\ closing' = [job |-> j, row |-> LastRow(j), outcome |-> "skip"]
      /\ UNCHANGED <<trigger, queue, succ, failed, running, exec, console, history>>
  BY DEF Skip
<1>2. running = TRUE /\ closing = Open /\ retrying = Nobody /\ seeding = Nobody
  BY <1>1, WhenStepping
<1>3. memory[j].act \in 1..(Len(trail[j]) + 1) /\ exec[j] = 0
  BY <1>1 DEF TrailInv, JobNumbers, GoodRow
<1>4. /\ trail' \in [Jobs -> Seq(Entry)] /\ memory' \in [Jobs -> QueueRow]
      /\ GoodTrail(trail'[j]) /\ GoodRow(queue[j], trail'[j]) /\ memory'[j] = NoRow
      /\ GoodRow(NoRow, trail'[j])
      /\ Len(trail'[j]) = Len(trail[j]) + 1
      /\ DOMAIN trail'[j] = DOMAIN trail[j] \cup {Len(trail[j]) + 1}
      /\ \A n \in DOMAIN trail[j] : trail'[j][n] = trail[j][n]
      /\ trail'[j][Len(trail[j]) + 1].outcome = "running"
      /\ \A k \in Jobs \ {j} : trail'[k] = trail[k] /\ memory'[k] = memory[k]
  <2>1. PICK body \in BOOLEAN : body = FALSE
    OBVIOUS
  <2>2. body # TRUE /\ trail' = WithRow(j, memory[j].act, memory[j].no, body)
    BY <1>1, <2>1
  <2>3. trail'[j][Len(trail[j]) + 1] = [act |-> memory[j].act, no |-> memory[j].no,
                                        outcome |-> "running", body |-> body]
    BY <1>1, <1>3, <2>2, Opening
  <2>4. trail'[j][Len(trail[j]) + 1].outcome = "running"
    BY <2>3
  <2> QED BY <1>1, <1>3, <2>2, <2>4, Opening
<1>5. closing'.job = j /\ closing'.row = Len(trail[j]) + 1 /\ closing'.outcome = "skip"
  BY <1>1, <1>4 DEF LastRow
<1>6. Typed'
  BY <1>1, <1>4 DEF TrailInv, Typed
<1>7. Grounds(j)'
  <2>1. Grounds(j)
    BY RefusedOnGrounds DEF Skip
  <2> QED BY <1>1, <2>1 DEF Grounds
<1>8. ClosingOK'
  BY <1>1, <1>2, <1>3, <1>4, <1>5, <1>7 DEF ClosingOK
<1>9. OneProcess'
  BY <1>1, <1>2 DEF OneProcess
<1>10. JobNumbers(j)'
  BY <1>1, <1>3, <1>4 DEF JobNumbers, GoodExec, TableAndRun
<1>11. JobArchives(j)'
  BY <1>1, <1>2, <1>3, <1>4, <1>5, OpeningArchives
<1>12. ASSUME NEW k \in Jobs, k # j PROVE JobNumbers(k)' /\ JobArchives(k)'
  BY <1>1, <1>2, <1>4, <1>12, NumbersKept, ArchivesKept, OpenFacts DEF TrailInv
<1> QED BY <1>6, <1>8, <1>9, <1>10, <1>11, <1>12 DEF TrailInv

LEMMA DispatchStep ==
  ASSUME TrailInv, NEW j \in Jobs, Dispatch(j)
  PROVE  TrailInv'
<1> USE DEF tables, engine, console, budgets, history
<1> DEFINE t == trail[j]
           act == IF memory[j].no <= 1 THEN NextActivation(j) ELSE memory[j].act
<1>1. /\ Steps /\ memory[j] # NoRow /\ exec[j] = 0 /\ CanOpen(j)
      /\ trail' = WithRow(j, act, memory[j].no, TRUE)
      /\ memory' = [memory EXCEPT ![j] = NoRow]
      /\ exec' = [exec EXCEPT ![j] = LastRow(j)]
      /\ owed' = owed \ {j}
      /\ UNCHANGED <<trigger, queue, succ, failed, running, closing, console, wanted, lost>>
  BY DEF Dispatch
<1>2. running = TRUE /\ closing = Open /\ retrying = Nobody /\ seeding = Nobody
  BY <1>1, WhenStepping
<1>3. GoodTrail(t) /\ GoodRow(memory[j], t) /\ Len(t) \in Nat
  BY DEF TrailInv, JobNumbers, GoodTrail
<1>4. memory[j].no \in 1..(MaxRetries + 1) /\ memory[j].act \in 1..(Len(t) + 1)
  BY <1>1, <1>3 DEF GoodRow
<1>5. /\ act \in 1..(Len(t) + 1) /\ Latest(act, t)
      /\ memory[j].no = 1 => \A n \in DOMAIN t : t[n].act < act
      /\ memory[j].no > 1 => act = memory[j].act
  <2>1. CASE memory[j].no <= 1
    <3>1. /\ HighestActivation(j) \in 0..Len(t)
          /\ \A n \in DOMAIN t : t[n].act <= HighestActivation(j)
      BY <1>3, HighestIsHighest
    <3>2. act = HighestActivation(j) + 1
      BY <2>1 DEF NextActivation
    <3>3. \A n \in DOMAIN t : t[n].act \in Int
      BY <1>3, RowFacts
    <3> HIDE DEF act
    <3>4. \A n \in DOMAIN t : t[n].act < act
      BY <3>1, <3>2, <3>3
    <3> QED BY <1>3, <1>4, <2>1, <3>1, <3>2, <3>3, <3>4, TrailAssumption DEF Latest
  <2>2. CASE ~ (memory[j].no <= 1)
    BY <1>1, <1>3, <1>4, <2>2, TrailAssumption DEF GoodRow
  <2> QED BY <2>1, <2>2
<1> HIDE DEF act
<1>6. /\ trail' \in [Jobs -> Seq(Entry)] /\ memory' \in [Jobs -> QueueRow]
      /\ GoodTrail(trail'[j]) /\ GoodRow(queue[j], trail'[j]) /\ memory'[j] = NoRow
      /\ GoodRow(NoRow, trail'[j])
      /\ Len(trail'[j]) = Len(t) + 1
      /\ DOMAIN trail'[j] = DOMAIN t \cup {Len(t) + 1}
      /\ \A n \in DOMAIN t : trail'[j][n] = t[n]
      /\ trail'[j][Len(t) + 1] =
               [act |-> act, no |-> memory[j].no, outcome |-> "running", body |-> TRUE]
      /\ \A k \in Jobs \ {j} : trail'[k] = trail[k] /\ memory'[k] = memory[k]
  BY <1>1, <1>5, Opening
<1>7. exec' \in [Jobs -> Nat] /\ exec'[j] = Len(t) + 1 /\ \A k \in Jobs \ {j} : exec'[k] = exec[k]
  <2>1. LastRow(j) = Len(t) + 1 /\ Len(t) + 1 \in Nat
    BY <1>3, <1>6 DEF LastRow
  <2> QED BY <1>1, <2>1 DEF TrailInv, Typed
<1>8. Typed'
  BY <1>1, <1>6, <1>7 DEF TrailInv, Typed
<1>9. ClosingOK' /\ OneProcess'
  BY <1>1, <1>2 DEF ClosingOK, OneProcess
<1>10. JobNumbers(j)'
  <2>1. GoodExec(exec'[j], trail'[j])
    BY <1>6, <1>7 DEF GoodExec
  <2>2. ASSUME queue[j].no > 1 PROVE RowOf(j)' = queue[j]
    <3>1. memory[j] = queue[j]
      BY <1>1, <2>2 DEF TrailInv, JobNumbers, TableAndRun
    <3>2. RowOf(j)' = [act |-> act, no |-> memory[j].no]
      BY <1>6, <1>7 DEF RowOf
    <3>3. act = queue[j].act /\ queue[j] \in QueueRow
      BY <1>5, <2>2, <3>1 DEF TrailInv, Typed
    <3> QED BY <3>1, <3>2, <3>3 DEF QueueRow
  <2> QED BY <1>1, <1>6, <2>1, <2>2 DEF JobNumbers, TableAndRun
<1>11. JobArchives(j)'
  <2>1. trail'[j][Len(t) + 1].outcome = "running"
    BY <1>6
  <2> QED BY <1>1, <1>2, <1>6, <1>7, <2>1, OpeningArchives
<1>12. ASSUME NEW k \in Jobs, k # j PROVE JobNumbers(k)' /\ JobArchives(k)'
  BY <1>1, <1>6, <1>7, <1>12, NumbersKept, ArchivesKept DEF TrailInv
<1> QED BY <1>8, <1>9, <1>10, <1>11, <1>12 DEF TrailInv

LEMMA CommitSkipStep ==
  ASSUME TrailInv, CommitSkip
  PROVE  TrailInv'
<1> USE DEF tables, engine, console, budgets, history
<1>0. closing.outcome = "skip" /\ closing # Open
  BY OpenFacts DEF CommitSkip
<1>j. PICK j \in Jobs : j = closing.job
  BY <1>0 DEF TrailInv, ClosingOK
<1>1. /\ closing.outcome = "skip"
      /\ queue' = [queue EXCEPT ![j] = NoRow]
      /\ closing' = [closing EXCEPT !.outcome = "skipped"]
      /\ UNCHANGED <<trigger, succ, failed, trail, running, memory, exec, console, history>>
  BY <1>j DEF CommitSkip
<1>2. Grounds(j)
  BY <1>0, <1>j DEF TrailInv, ClosingOK
<1>3. /\ closing = [job |-> closing.job, row |-> closing.row, outcome |-> closing.outcome]
      /\ running = TRUE /\ exec[j] = 0 /\ closing.row \in DOMAIN trail[j]
      /\ trail[j][closing.row].outcome = "running"
  BY <1>0, <1>j DEF TrailInv, ClosingOK
<1>4. closing' = [job |-> closing.job, row |-> closing.row, outcome |-> "skipped"]
  BY <1>1, <1>3
<1>5. closing'.job = j /\ closing'.row = closing.row /\ closing'.outcome = "skipped"
  BY <1>4, <1>j
<1>6. NoRow \in QueueRow /\ NoRow.no = 0
  BY DEF NoRow, QueueRow
<1>7. Typed'
  BY <1>1, <1>2, <1>6 DEF TrailInv, Typed
<1>8. ClosingOK'
  BY <1>1, <1>3, <1>4, <1>5 DEF ClosingOK
<1>9. OneProcess'
  BY <1>1, <1>3 DEF TrailInv, OneProcess
<1>10. queue'[j] = NoRow /\ \A k \in Jobs \ {j} : queue'[k] = queue[k]
  BY <1>1, <1>2 DEF TrailInv, Typed
<1>11. JobNumbers(j)'
  <2>1. GoodRow(NoRow, trail[j])
    BY <1>6 DEF GoodRow
  <2> QED BY <1>1, <1>6, <1>10, <2>1 DEF TrailInv, JobNumbers, TableAndRun
<1>12. JobArchives(j)'
  BY <1>1, <1>2, <1>5, <1>10, <1>j DEF TrailInv, JobArchives, Grounds, Seeded, Absent
<1>13. ASSUME NEW k \in Jobs, k # j PROVE JobNumbers(k)' /\ JobArchives(k)'
  BY <1>1, <1>5, <1>10, <1>13, <1>j, NumbersKept, ArchivesKept DEF TrailInv
<1> QED BY <1>7, <1>8, <1>9, <1>11, <1>12, <1>13 DEF TrailInv

LEMMA SucceedStep ==
  ASSUME TrailInv, NEW j \in Jobs, Succeed(j)
  PROVE  TrailInv'
<1> USE DEF tables, engine, console, budgets, history
<1> DEFINE t == trail[j]
           k == exec[j]
           u == [t EXCEPT ![k].outcome = "succeeded"]
<1>1. /\ Steps /\ exec[j] # 0
      /\ trail' = [trail EXCEPT ![j] = u]
      /\ succ' = [succ EXCEPT ![j] = k]
      /\ failed' = [failed EXCEPT ![j] = "no"]
      /\ queue' = [queue EXCEPT ![j] = NoRow]
      /\ exec' = [exec EXCEPT ![j] = 0]
      /\ UNCHANGED <<trigger, running, memory, closing, console, history>>
  BY DEF Succeed
<1>2. running = TRUE /\ closing = Open /\ retrying = Nobody /\ seeding = Nobody
  BY <1>1, WhenStepping
<1>3. /\ k \in DOMAIN t /\ k = Len(t) /\ t \in Seq(Entry) /\ GoodTrail(t) /\ k \in Nat
      /\ DOMAIN t = 1..Len(t) /\ memory[j] = NoRow
  <2>1. k \in DOMAIN t /\ k = Len(t)
    BY <1>1, ExecRow DEF TrailInv
  <2>2. t \in Seq(Entry) /\ k \in Nat /\ DOMAIN t = 1..Len(t)
    BY DEF TrailInv, Typed
  <2>3. GoodTrail(t) /\ memory[j] = NoRow
    BY <1>1 DEF TrailInv, JobNumbers
  <2> QED BY <2>1, <2>2, <2>3
<1>4. /\ u \in Seq(Entry) /\ Len(u) = Len(t) /\ DOMAIN u = DOMAIN t
      /\ u[k].outcome = "succeeded"
      /\ \A n \in DOMAIN t : n # k => u[n] = t[n]
      /\ GoodTrail(u)
  <2>1. "succeeded" \in Outcomes
    BY DEF Outcomes
  <2>2. GoodTrail(u)
    BY <1>3, <2>1, ClosedGood
  <2> QED BY <1>3, <2>1, <2>2, ClosedEntry
<1> HIDE DEF u
<1>5. NoRow \in QueueRow /\ NoRow.no = 0
  BY DEF NoRow, QueueRow
<1>6. /\ trail'[j] = u /\ succ'[j] = k /\ failed'[j] = "no" /\ queue'[j] = NoRow /\ exec'[j] = 0
      /\ memory'[j] = NoRow
  BY <1>1, <1>3 DEF TrailInv, Typed
<1>7. \A i \in Jobs \ {j} : /\ trail'[i] = trail[i] /\ succ'[i] = succ[i]
                            /\ failed'[i] = failed[i] /\ queue'[i] = queue[i]
                            /\ exec'[i] = exec[i] /\ memory'[i] = memory[i]
  BY <1>1 DEF TrailInv, Typed
<1>8. Typed'
  BY <1>1, <1>3, <1>4, <1>5 DEF TrailInv, Typed
<1>9. ClosingOK' /\ OneProcess'
  BY <1>1, <1>2 DEF ClosingOK, OneProcess
<1>10. JobNumbers(j)'
  <2>1. GoodRow(NoRow, u)
    BY <1>5 DEF GoodRow
  <2> QED BY <1>4, <1>5, <1>6, <2>1 DEF JobNumbers, GoodExec, TableAndRun
<1>11. JobArchives(j)'
  <2>1. LastWord(k, u)
    <3>1. \A n \in DOMAIN u : n <= k
      BY <1>3, <1>4
    <3>2. \A n \in DOMAIN u : u[n].outcome = "failed" => n < k
      BY <1>3, <1>4
    <3> QED BY <1>3, <1>4, <3>1, <3>2 DEF LastWord
  <2>2. ASSUME NEW n \in DOMAIN u, u[n].outcome = "running"
        PROVE  n = exec'[j] \/ (closing'.job = j /\ closing'.row = n) \/ <<j, n>> \in lost'
    <3>1. n # k /\ n \in DOMAIN t /\ t[n].outcome = "running"
      BY <1>4, <2>2
    <3> QED BY <1>1, <1>2, <3>1, OpenFacts DEF TrailInv, JobArchives
  <2> QED BY <1>1, <1>3, <1>4, <1>6, <2>1, <2>2 DEF JobArchives, Absent
<1>12. ASSUME NEW i \in Jobs, i # j PROVE JobNumbers(i)' /\ JobArchives(i)'
  BY <1>1, <1>7, <1>12, NumbersKept, ArchivesKept DEF TrailInv
<1> QED BY <1>8, <1>9, <1>10, <1>11, <1>12 DEF TrailInv

\* An execution ends and its row is about to be closed: Fail, Retry and Requeue.  What
\* each does to the queue, the memory and the archives of the job is its own.
LEMMA Ends ==
  ASSUME TrailInv, NEW j \in Jobs, Steps, exec[j] # 0,
         NEW o \in {"failed", "requeued"}, Closes(j, o),
         exec' = [exec EXCEPT ![j] = 0], UNCHANGED <<trigger, trail, running, console, lost, wanted>>,
         queue' \in [Jobs -> QueueRow], memory' \in [Jobs -> QueueRow],
         succ' \in [Jobs -> Int], failed' \in [Jobs -> {"no", "plain", "fatal"}], owed' \subseteq Jobs,
         \A i \in Jobs \ {j} : /\ queue'[i] = queue[i] /\ memory'[i] = memory[i]
                               /\ succ'[i] = succ[i] /\ failed'[i] = failed[i],
         GoodRow(queue'[j], trail[j]), GoodRow(memory'[j], trail[j]),
         queue'[j].no > 1 /\ memory'[j] # NoRow => memory'[j] = queue'[j],
         \/ succ'[j] = Absent /\ failed'[j] # "no"
         \/ o # "failed" /\ succ'[j] = succ[j] /\ failed'[j] = failed[j]
            /\ (queue[j] # NoRow => queue'[j] # NoRow)
  PROVE  TrailInv'
<1> DEFINE t == trail[j]
           k == exec[j]
<1>1. running = TRUE /\ closing = Open /\ retrying = Nobody /\ seeding = Nobody
  BY WhenStepping
<1>2. /\ k \in DOMAIN t /\ t \in Seq(Entry) /\ k \in Nat
      /\ t[k].outcome = "running" /\ Len(t) \in Nat /\ GoodTrail(t)
  BY ExecRow DEF TrailInv, JobNumbers, Typed, GoodExec
<1>3. closing' = [job |-> j, row |-> k, outcome |-> o]
  BY DEF Closes
<1>4. closing'.job = j /\ closing'.row = k /\ closing'.outcome = o
  BY <1>3
<1>5. exec' \in [Jobs -> Nat] /\ exec'[j] = 0 /\ \A i \in Jobs \ {j} : exec'[i] = exec[i]
  BY DEF TrailInv, Typed
<1>6. Typed'
  BY <1>5 DEF TrailInv, Typed, console
<1>7. ClosingOK'
  <2>1. o = "failed" => succ'[j] = Absent
    OBVIOUS
  <2> QED BY <1>1, <1>2, <1>3, <1>4, <1>5, <2>1 DEF ClosingOK
<1>8. OneProcess'
  BY <1>1 DEF OneProcess, console
<1>9. JobNumbers(j)'
  BY <1>2, <1>5 DEF JobNumbers, GoodExec, TableAndRun
<1>10. JobArchives(j)'
  <2>1. JobArchives(j)
    BY DEF TrailInv
  <2>2. succ'[j] >= Absent /\ succ'[j] <= Len(t)
    BY <1>2, <2>1 DEF JobArchives, Absent
  <2>3. LastWord(succ'[j], t)
    BY <2>1 DEF JobArchives, LastWord, Absent, Seeded
  <2>4. \A n \in DOMAIN t : t[n].outcome = "running" =>
           n = exec'[j] \/ (closing'.job = j /\ closing'.row = n) \/ <<j, n>> \in lost
    BY <1>1, <1>4, <2>1, OpenFacts DEF JobArchives
  <2> QED BY <2>1, <2>2, <2>3, <2>4 DEF JobArchives
<1>11. ASSUME NEW i \in Jobs, i # j PROVE JobNumbers(i)' /\ JobArchives(i)'
  BY <1>1, <1>5, <1>11, NumbersKept, ArchivesKept, OpenFacts DEF TrailInv
<1> QED BY <1>6, <1>7, <1>8, <1>9, <1>10, <1>11 DEF TrailInv

LEMMA FailStep ==
  ASSUME TrailInv, NEW j \in Jobs, NEW kind \in {"plain", "fatal"}, Fail(j, kind)
  PROVE  TrailInv'
<1> USE DEF tables, engine, console, budgets, history
<1>1. /\ Steps /\ exec[j] # 0 /\ exec' = [exec EXCEPT ![j] = 0] /\ Closes(j, "failed")
      /\ failed' = [failed EXCEPT ![j] = kind]
      /\ succ' = [succ EXCEPT ![j] = Absent]
      /\ queue' = [queue EXCEPT ![j] = NoRow]
      /\ UNCHANGED <<trigger, trail, running, memory, console, history>>
  BY DEF Fail, SuccessesAfterFailure
<1>2. /\ NoRow \in QueueRow /\ NoRow.no = 0 /\ GoodRow(NoRow, trail[j]) /\ Absent \in Int
      /\ GoodRow(memory[j], trail[j])
  BY DEF NoRow, QueueRow, GoodRow, Absent, TrailInv, JobNumbers
<1>3. /\ queue' \in [Jobs -> QueueRow] /\ memory' \in [Jobs -> QueueRow]
      /\ succ' \in [Jobs -> Int] /\ failed' \in [Jobs -> {"no", "plain", "fatal"}]
      /\ owed' \subseteq Jobs /\ queue'[j] = NoRow /\ succ'[j] = Absent /\ failed'[j] # "no"
      /\ memory'[j] = memory[j]
      /\ \A i \in Jobs \ {j} : /\ queue'[i] = queue[i] /\ memory'[i] = memory[i]
                               /\ succ'[i] = succ[i] /\ failed'[i] = failed[i]
  BY <1>1, <1>2 DEF TrailInv, Typed
<1>4. ~ (queue'[j].no > 1)
  BY <1>2, <1>3
<1> QED BY <1>1, <1>2, <1>3, <1>4, Ends

LEMMA RetryStep ==
  ASSUME TrailInv, NEW j \in Jobs, NEW transient \in BOOLEAN, Retry(j, transient)
  PROVE  TrailInv'
<1> USE DEF tables, engine, console, budgets, history
<1> DEFINE row == [RowOf(j) EXCEPT !.no = IF transient THEN @ ELSE @ + 1]
<1>1. /\ Steps /\ exec[j] # 0 /\ exec' = [exec EXCEPT ![j] = 0] /\ Closes(j, "requeued")
      /\ transient \/ WithinBudget(RowOf(j).no)
      /\ queue' = [queue EXCEPT ![j] = row] /\ memory' = [memory EXCEPT ![j] = row]
      /\ UNCHANGED <<trigger, succ, failed, trail, running, console, history>>
  BY DEF Retry
<1>2. /\ RowOf(j) \in QueueRow /\ RowOf(j) # NoRow
      /\ RowOf(j).no \in 1..(MaxRetries + 1) /\ RowOf(j).act \in 1..Len(trail[j])
      /\ Latest(RowOf(j).act, trail[j]) /\ Len(trail[j]) \in Nat
  BY <1>1, ExecRow DEF TrailInv, Typed
<1>3. /\ row \in QueueRow /\ row.act = RowOf(j).act
      /\ row.no = RowOf(j).no \/ (RowOf(j).no <= MaxRetries /\ row.no = RowOf(j).no + 1)
  BY <1>1, <1>2, TrailAssumption DEF QueueRow, WithinBudget
<1> HIDE DEF row
<1>4. row # NoRow /\ row.no \in 1..(MaxRetries + 1) /\ row.act \in 1..(Len(trail[j]) + 1)
  BY <1>2, <1>3, TrailAssumption DEF NoRow
<1>5. GoodRow(row, trail[j])
  BY <1>2, <1>3, <1>4 DEF GoodRow
<1>6. /\ queue' \in [Jobs -> QueueRow] /\ memory' \in [Jobs -> QueueRow]
      /\ succ' \in [Jobs -> Int] /\ failed' \in [Jobs -> {"no", "plain", "fatal"}]
      /\ owed' \subseteq Jobs /\ queue'[j] = row /\ memory'[j] = row
      /\ \A i \in Jobs \ {j} : /\ queue'[i] = queue[i] /\ memory'[i] = memory[i]
                               /\ succ'[i] = succ[i] /\ failed'[i] = failed[i]
      /\ succ'[j] = succ[j] /\ failed'[j] = failed[j]
  BY <1>1, <1>3 DEF TrailInv, Typed
<1> QED BY <1>1, <1>4, <1>5, <1>6, Ends

LEMMA RequeueStep ==
  ASSUME TrailInv, NEW j \in Jobs, Requeue(j)
  PROVE  TrailInv'
<1> USE DEF tables, engine, console, budgets, history
<1>1. /\ Steps /\ exec[j] # 0 /\ exec' = [exec EXCEPT ![j] = 0] /\ Closes(j, "requeued")
      /\ memory' = [memory EXCEPT ![j] = RowOf(j)]
      /\ UNCHANGED <<trigger, tables, running, console, history>>
  BY DEF Requeue
<1>2. RowOf(j) \in QueueRow /\ GoodRow(RowOf(j), trail[j])
  BY <1>1, ExecRow DEF TrailInv
<1>3. GoodRow(queue[j], trail[j]) /\ (queue[j].no > 1 => RowOf(j) = queue[j])
  BY <1>1 DEF TrailInv, JobNumbers, TableAndRun
<1>4. /\ queue' \in [Jobs -> QueueRow] /\ memory' \in [Jobs -> QueueRow]
      /\ succ' \in [Jobs -> Int] /\ failed' \in [Jobs -> {"no", "plain", "fatal"}]
      /\ owed' \subseteq Jobs /\ queue'[j] = queue[j] /\ memory'[j] = RowOf(j)
      /\ \A i \in Jobs \ {j} : /\ queue'[i] = queue[i] /\ memory'[i] = memory[i]
                               /\ succ'[i] = succ[i] /\ failed'[i] = failed[i]
      /\ succ'[j] = succ[j] /\ failed'[j] = failed[j]
  BY <1>1, <1>2 DEF TrailInv, Typed
<1> QED BY <1>1, <1>2, <1>3, <1>4, Ends

LEMMA CloseRowStep ==
  ASSUME TrailInv, CloseRow
  PROVE  TrailInv'
<1> USE DEF tables, engine, console, budgets, history
<1>1. /\ closing # Open /\ closing.outcome # "skip" /\ closing' = Open
      /\ UNCHANGED <<trigger, queue, succ, failed, running, memory, exec, console, wanted, owed>>
  BY DEF CloseRow
<1>2. PICK j \in Jobs : j = closing.job
  BY <1>1 DEF TrailInv, ClosingOK
<1>3. PICK k \in DOMAIN trail[j] : k = closing.row
  BY <1>1, <1>2 DEF TrailInv, ClosingOK
<1>4. PICK o \in {"skipped", "failed", "requeued"} : o = closing.outcome
  BY <1>1 DEF TrailInv, ClosingOK
<1>5. /\ running = TRUE /\ exec[j] = 0 /\ trail[j][k].outcome = "running"
      /\ o = "failed" => succ[j] = Absent
  BY <1>1, <1>2, <1>3, <1>4 DEF TrailInv, ClosingOK
<1> DEFINE t == trail[j]
           u == [t EXCEPT ![k].outcome = o]
<1>6. \/ trail' = [trail EXCEPT ![j] = u] /\ UNCHANGED lost
      \/ UNCHANGED trail /\ lost' = lost \cup {<<j, k>>}
  <2>1. FinishAttempt(o)
    BY DEF FinishAttempt
  <2> QED BY <1>2, <1>3, <1>4, <2>1 DEF CloseRow
<1>7. t \in Seq(Entry) /\ GoodTrail(t) /\ o \in Outcomes /\ DOMAIN t = 1..Len(t)
  BY DEF TrailInv, Typed, JobNumbers, Outcomes
<1>8. /\ u \in Seq(Entry) /\ Len(u) = Len(t) /\ DOMAIN u = DOMAIN t
      /\ u[k].outcome = o
      /\ \A n \in DOMAIN t : n # k => u[n] = t[n]
      /\ GoodTrail(u)
  <2>1. GoodTrail(u)
    BY <1>7, ClosedGood
  <2> QED BY <1>7, <2>1, ClosedEntry
<1> HIDE DEF u
<1>9. /\ \/ trail'[j] = u /\ UNCHANGED lost
         \/ trail'[j] = t /\ lost' = lost \cup {<<j, k>>}
      /\ \A i \in Jobs \ {j} : trail'[i] = trail[i]
      /\ trail' \in [Jobs -> Seq(Entry)] /\ lost \subseteq lost'
  BY <1>6, <1>8 DEF TrailInv, Typed
<1>10. Typed'
  BY <1>1, <1>9 DEF TrailInv, Typed
<1>11. ClosingOK' /\ OneProcess'
  BY <1>1 DEF TrailInv, ClosingOK, OneProcess
<1>12. JobNumbers(j)'
  <2>1. CASE trail'[j] = t
    BY <1>1, <2>1, NumbersKept DEF TrailInv
  <2>2. CASE trail'[j] = u
    <3>1. GoodRow(queue[j], u) /\ GoodRow(memory[j], u)
      BY <1>7, RowStaysClosed DEF TrailInv, JobNumbers, u
    <3>2. exec'[j] = 0
      BY <1>1, <1>5
    <3>3. TableAndRun(j)'
      BY <1>1, <3>2 DEF TrailInv, JobNumbers, TableAndRun
    <3> QED BY <1>1, <1>8, <2>2, <3>1, <3>2, <3>3 DEF JobNumbers, GoodExec
  <2> QED BY <1>9, <2>1, <2>2
<1>13. JobArchives(j)'
  <2>1. JobArchives(j)
    BY DEF TrailInv
  <2>2. Len(trail'[j]) = Len(t)
    BY <1>8, <1>9
  <2>3. LastWord(succ[j], trail'[j])
    <3>1. CASE trail'[j] = t
      BY <2>1, <3>1 DEF JobArchives
    <3>2. CASE trail'[j] = u
      <4>1. LastWord(succ[j], t)
        BY <2>1 DEF JobArchives
      <4>2. CASE o = "failed"
        BY <1>5, <4>2 DEF LastWord, Absent, Seeded
      <4>3. CASE o # "failed"
        BY <1>5, <1>8, <3>2, <4>1, <4>3 DEF LastWord
      <4> QED BY <4>2, <4>3
    <3> QED BY <1>9, <3>1, <3>2
  <2>4. ASSUME NEW n \in DOMAIN trail'[j], trail'[j][n].outcome = "running"
        PROVE  n = exec'[j] \/ (closing'.job = j /\ closing'.row = n) \/ <<j, n>> \in lost'
    <3>1. CASE n = k
      BY <1>8, <1>9, <2>4, <3>1
    <3>2. CASE n # k
      <4>1. n \in DOMAIN t /\ t[n].outcome = "running"
        BY <1>8, <1>9, <2>4, <3>2
      <4> QED BY <1>1, <1>2, <1>3, <1>9, <2>1, <3>2, <4>1 DEF JobArchives
    <3> QED BY <3>1, <3>2
  <2> QED BY <1>1, <2>1, <2>2, <2>3, <2>4 DEF JobArchives
<1>14. ASSUME NEW i \in Jobs, i # j PROVE JobNumbers(i)' /\ JobArchives(i)'
  BY <1>1, <1>2, <1>9, <1>14, NumbersKept, ArchivesKept DEF TrailInv
<1> QED BY <1>10, <1>11, <1>12, <1>13, <1>14 DEF TrailInv

\* The run is over, by itself or not: nothing is in memory, and what was open is lost.
LEMMA Stops ==
  ASSUME TrailInv, Stopped, lost' = lost \cup OpenRows,
         UNCHANGED <<trigger, succ, failed, trail, wanted, owed>>,
         queue' \in [Jobs -> QueueRow], retrying' = Nobody, seeding' = Nobody,
         \A j \in Jobs : /\ GoodRow(queue'[j], trail[j])
                         /\ queue[j] # NoRow => queue'[j] # NoRow
  PROVE  TrailInv'
<1>1. NoRow \in QueueRow
  BY DEF NoRow, QueueRow
<1>2. /\ running' = FALSE /\ closing' = Open
      /\ memory' = [j \in Jobs |-> NoRow] /\ exec' = [j \in Jobs |-> 0]
  BY DEF Stopped
<1>3. Typed'
  <2>1. running' \in BOOLEAN
    BY <1>2
  <2> QED BY <1>1, <1>2, <2>1 DEF TrailInv, Typed
<1>4. ClosingOK' /\ OneProcess'
  <2>1. running' # TRUE
    BY <1>2
  <2> QED BY <1>2, <2>1 DEF ClosingOK, OneProcess
<1>5. ASSUME NEW j \in Jobs PROVE JobNumbers(j)' /\ JobArchives(j)'
  <2>1. JobNumbers(j) /\ JobArchives(j)
    BY DEF TrailInv
  <2>2. memory'[j] = NoRow /\ exec'[j] = 0 /\ GoodRow(NoRow, trail[j])
    BY <1>1, <1>2 DEF GoodRow
  <2>3. JobNumbers(j)'
    BY <2>1, <2>2 DEF JobNumbers, GoodExec, TableAndRun
  <2>4. \A n \in DOMAIN trail[j] : trail[j][n].outcome = "running" => <<j, n>> \in lost'
    <3> SUFFICES ASSUME NEW n \in DOMAIN trail[j], trail[j][n].outcome = "running"
                 PROVE  <<j, n>> \in lost'
      OBVIOUS
    <3>1. CASE n = exec[j]
      <4>1. n # 0
        BY DEF TrailInv, Typed
      <4> QED BY <3>1, <4>1 DEF OpenRows, InFlight
    <3>2. CASE closing.job = j /\ closing.row = n
      BY <3>2, OpenFacts DEF OpenRows
    <3> QED BY <2>1, <3>1, <3>2 DEF JobArchives
  <2>5. JobArchives(j)'
    BY <2>1, <2>4 DEF JobArchives
  <2> QED BY <2>3, <2>5
<1> QED BY <1>3, <1>4, <1>5 DEF TrailInv

LEMMA EndRunStep ==
  ASSUME TrailInv, EndRun
  PROVE  TrailInv'
<1> USE DEF tables, engine, console, budgets, history
<1>1. /\ Steps
      /\ queue' = [j \in Jobs |-> IF j \in InFlight THEN RowOf(j)
                                  ELSE IF memory[j] # NoRow THEN memory[j] ELSE queue[j]]
      /\ lost' = lost \cup OpenRows
      /\ Stopped
      /\ UNCHANGED <<trigger, succ, failed, trail, console, wanted, owed>>
  BY DEF EndRun
<1>2. retrying' = Nobody /\ seeding' = Nobody
  BY <1>1, WhenStepping
<1>3. ASSUME NEW j \in Jobs
      PROVE  /\ queue'[j] \in QueueRow /\ GoodRow(queue'[j], trail[j])
             /\ queue[j] # NoRow => queue'[j] # NoRow
  <2>1. GoodRow(memory[j], trail[j]) /\ GoodRow(queue[j], trail[j])
    BY DEF TrailInv, JobNumbers
  <2>2. CASE j \in InFlight
    <3>1. RowOf(j) \in QueueRow /\ RowOf(j) # NoRow /\ GoodRow(RowOf(j), trail[j])
      BY <2>2, ExecRow DEF InFlight, TrailInv
    <3> QED BY <1>1, <2>2, <3>1
  <2>3. CASE j \notin InFlight
    BY <1>1, <2>1, <2>3 DEF TrailInv, Typed
  <2> QED BY <2>2, <2>3
<1>4. queue' \in [Jobs -> QueueRow]
  BY <1>1, <1>3
<1> QED BY <1>1, <1>2, <1>3, <1>4, Stops

LEMMA CrashStep ==
  ASSUME TrailInv, Crash
  PROVE  TrailInv'
<1> USE DEF tables, engine, console, budgets, history
<1>1. queue \in [Jobs -> QueueRow] /\ \A j \in Jobs : GoodRow(queue[j], trail[j])
  BY DEF TrailInv, Typed, JobNumbers
<1> QED BY <1>1, Stops DEF Crash

-----------------------------------------------------------------------------
(* The console.                                                             *)

\* A call while no run is under way, that leaves trails alone and queue rows good,
\* and under which a wanted job keeps a place.
LEMMA Calls ==
  ASSUME TrailInv, running = FALSE, UNCHANGED <<trigger, trail, engine, lost>>,
         queue' \in [Jobs -> QueueRow], succ' \in [Jobs -> Int],
         failed' \in [Jobs -> {"no", "plain", "fatal"}],
         retrying' \in Jobs \cup {Nobody}, seeding' \in Jobs \cup {Nobody},
         wanted' \subseteq Jobs, owed' \subseteq Jobs,
         retrying' # Nobody => queue'[retrying'] # NoRow,
         \A j \in Jobs :
            /\ GoodRow(queue'[j], trail[j])
            /\ succ'[j] \in {succ[j], Absent, Seeded} /\ (succ'[j] = Absent \/ failed'[j] = "no")
            /\ j \in wanted' => queue'[j] # NoRow \/ succ'[j] # Absent \/ failed'[j] # "no"
  PROVE  TrailInv'
<1> USE DEF engine
<1>1. closing = Open /\ \A j \in Jobs : memory[j] = NoRow /\ exec[j] = 0
  BY WhenIdle
<1>2. Typed'
  BY DEF TrailInv, Typed
<1>3. ClosingOK'
  BY <1>1 DEF ClosingOK
<1>4. OneProcess'
  <2>1. running' # TRUE
    OBVIOUS
  <2> QED BY <1>1, <2>1 DEF OneProcess
<1>5. ASSUME NEW j \in Jobs PROVE JobNumbers(j)' /\ JobArchives(j)'
  <2>1. JobNumbers(j) /\ JobArchives(j)
    BY DEF TrailInv
  <2>2. JobNumbers(j)'
    BY <1>1, <2>1 DEF JobNumbers, GoodExec, TableAndRun
  <2>3. LastWord(succ'[j], trail[j]) /\ succ'[j] >= Absent /\ succ'[j] <= Len(trail[j])
    <3>1. Len(trail[j]) \in Nat
      BY DEF TrailInv, Typed
    <3> QED BY <2>1, <3>1 DEF JobArchives, LastWord, Absent, Seeded
  <2>4. JobArchives(j)'
    BY <2>1, <2>3 DEF JobArchives
  <2> QED BY <2>2, <2>4
<1> QED BY <1>2, <1>3, <1>4, <1>5 DEF TrailInv

LEMMA RetryFailureStep ==
  ASSUME TrailInv, NEW j \in Jobs, RetryFailure(j)
  PROVE  TrailInv'
<1> USE DEF tables, engine, console, budgets, history
<1> DEFINE row == [act |-> HighestActivation(j) + 1, no |-> 1]
<1>1. /\ Idle /\ retrying' = j
      /\ queue' = [queue EXCEPT ![j] = IF @ = NoRow THEN row ELSE @]
      /\ UNCHANGED <<trigger, succ, failed, trail, engine, seeding, history>>
  BY DEF RetryFailure, Call
<1>2. running = FALSE
  BY <1>1, WhenCalled
<1>3. HighestActivation(j) \in 0..Len(trail[j]) /\ Len(trail[j]) \in Nat
  BY HighestIsHighest DEF TrailInv, JobNumbers, Typed
<1>4. /\ row \in QueueRow /\ row # NoRow /\ row.act = HighestActivation(j) + 1 /\ row.no = 1
      /\ GoodRow(row, trail[j])
  <2>1. row \in QueueRow /\ row.act = HighestActivation(j) + 1 /\ row.no = 1
    BY <1>3 DEF QueueRow
  <2>2. row # NoRow
    BY <2>1 DEF NoRow
  <2>3. GoodRow(row, trail[j])
    BY <1>3, <2>1, TrailAssumption DEF GoodRow
  <2> QED BY <2>1, <2>2, <2>3
<1> HIDE DEF row
<1>5. /\ queue' \in [Jobs -> QueueRow] /\ queue'[j] # NoRow
      /\ queue'[j] \in {row, queue[j]} /\ \A k \in Jobs \ {j} : queue'[k] = queue[k]
  BY <1>1, <1>4 DEF TrailInv, Typed
<1>6. ASSUME NEW k \in Jobs
      PROVE  /\ GoodRow(queue'[k], trail[k])
             /\ succ'[k] \in {succ[k], Absent, Seeded} /\ (succ'[k] = Absent \/ failed'[k] = "no")
             /\ k \in wanted' => queue'[k] # NoRow \/ succ'[k] # Absent \/ failed'[k] # "no"
  <2>1. JobNumbers(k) /\ JobArchives(k)
    BY DEF TrailInv
  <2>2. GoodRow(queue'[k], trail[k])
    BY <1>4, <1>5, <2>1 DEF JobNumbers
  <2> QED BY <1>1, <1>5, <2>1, <2>2 DEF JobArchives
<1> QED BY <1>1, <1>2, <1>5, <1>6, Calls DEF TrailInv, Typed

LEMMA RetryFailureReturnsStep ==
  ASSUME TrailInv, RetryFailureReturns
  PROVE  TrailInv'
<1> USE DEF tables, engine, console, budgets, history
<1>1. PICK j \in Jobs : j = retrying
  BY DEF RetryFailureReturns, TrailInv, Typed
<1>2. /\ retrying' = Nobody
      /\ failed' = [failed EXCEPT ![j] = "no"]
      /\ owed' = owed \cup {j}
      /\ UNCHANGED <<trigger, queue, succ, trail, engine, seeding, wanted, lost>>
  BY <1>1 DEF RetryFailureReturns, DeletedFromArchive
<1>3. retrying # Nobody /\ queue[j] # NoRow
  BY <1>1 DEF RetryFailureReturns, TrailInv, OneProcess
<1>4. running = FALSE
  <2>1. running # TRUE
    BY <1>3 DEF TrailInv, OneProcess
  <2> QED BY <2>1 DEF TrailInv, Typed
<1>5. /\ failed' \in [Jobs -> {"no", "plain", "fatal"}] /\ failed'[j] = "no"
      /\ \A k \in Jobs \ {j} : failed'[k] = failed[k]
  BY <1>2 DEF TrailInv, Typed
<1>6. ASSUME NEW k \in Jobs
      PROVE  /\ GoodRow(queue'[k], trail[k])
             /\ succ'[k] \in {succ[k], Absent, Seeded} /\ (succ'[k] = Absent \/ failed'[k] = "no")
             /\ k \in wanted' => queue'[k] # NoRow \/ succ'[k] # Absent \/ failed'[k] # "no"
  BY <1>2, <1>3, <1>5 DEF TrailInv, JobNumbers, JobArchives
<1> QED BY <1>2, <1>4, <1>5, <1>6, Calls DEF TrailInv, Typed

\* clear_failures and clear_history: whoever loses a record is no longer wanted.
LEMMA Clears ==
  ASSUME TrailInv, Idle, NEW cleared \in SUBSET Jobs, wanted' = wanted \ cleared,
         \/ /\ failed' = [j \in Jobs |-> IF j \in cleared THEN "no" ELSE failed[j]]
            /\ UNCHANGED succ
         \/ /\ succ' = [j \in Jobs |-> IF j \in cleared THEN Absent ELSE succ[j]]
            /\ UNCHANGED failed,
         UNCHANGED <<trigger, queue, trail, engine, console, owed, lost>>
  PROVE  TrailInv'
<1> USE DEF engine, console
<1>1. running = FALSE
  BY WhenCalled
<1>2. /\ failed' \in [Jobs -> {"no", "plain", "fatal"}] /\ succ' \in [Jobs -> Int]
      /\ \A k \in Jobs : succ'[k] \in {succ[k], Absent} /\ failed'[k] \in {failed[k], "no"}
      /\ \A k \in Jobs \ cleared : failed'[k] = failed[k] /\ succ'[k] = succ[k]
  <2>1. Absent \in Int
    BY DEF Absent
  <2> QED BY <2>1 DEF TrailInv, Typed
<1>3. ASSUME NEW k \in Jobs
      PROVE  /\ GoodRow(queue'[k], trail[k])
             /\ succ'[k] \in {succ[k], Absent, Seeded} /\ (succ'[k] = Absent \/ failed'[k] = "no")
             /\ k \in wanted' => queue'[k] # NoRow \/ succ'[k] # Absent \/ failed'[k] # "no"
  BY <1>2 DEF TrailInv, JobNumbers, JobArchives
<1>4. retrying' # Nobody => queue'[retrying'] # NoRow
  BY DEF TrailInv, OneProcess
<1> QED BY <1>1, <1>2, <1>3, <1>4, Calls DEF TrailInv, Typed

LEMMA ClearFailuresStep ==
  ASSUME TrailInv, NEW js \in SUBSET Jobs, NEW keepFatal \in BOOLEAN, ClearFailures(js, keepFatal)
  PROVE  TrailInv'
<1> DEFINE deleted == {j \in js : failed[j] = "plain" \/ (failed[j] = "fatal" /\ ~ keepFatal)}
<1>1. /\ Idle /\ deleted \in SUBSET Jobs
      /\ failed' = [j \in Jobs |-> IF j \in deleted THEN "no" ELSE failed[j]]
      /\ wanted' = wanted \ deleted
      /\ UNCHANGED <<trigger, queue, succ, trail, engine, console, owed, lost>>
  BY DEF ClearFailures, Call
<1> HIDE DEF deleted
<1> QED BY <1>1, Clears

LEMMA ClearHistoryStep ==
  ASSUME TrailInv, NEW js \in SUBSET Jobs, NEW where \in {"successes", "failed"},
         ClearHistory(js, where)
  PROVE  TrailInv'
  BY Clears DEF ClearHistory, Call

LEMMA SeedSuccessesStep ==
  ASSUME TrailInv, NEW j \in Jobs, SeedSuccesses(j)
  PROVE  TrailInv'
<1> USE DEF tables, engine, console, budgets, history
<1>1. Idle /\ seeding' = j /\ UNCHANGED <<trigger, tables, engine, retrying, history>>
  BY DEF SeedSuccesses, Call
<1>2. running = FALSE
  BY <1>1, WhenCalled
<1>3. ASSUME NEW k \in Jobs
      PROVE  /\ GoodRow(queue'[k], trail[k])
             /\ succ'[k] \in {succ[k], Absent, Seeded} /\ (succ'[k] = Absent \/ failed'[k] = "no")
             /\ k \in wanted' => queue'[k] # NoRow \/ succ'[k] # Absent \/ failed'[k] # "no"
  BY <1>1 DEF TrailInv, JobNumbers, JobArchives
<1>4. retrying' # Nobody => queue'[retrying'] # NoRow
  BY <1>1 DEF TrailInv, OneProcess
<1> QED BY <1>1, <1>2, <1>3, <1>4, Calls DEF TrailInv, Typed

LEMMA SeedSuccessesWritesStep ==
  ASSUME TrailInv, SeedSuccessesWrites
  PROVE  TrailInv'
<1> USE DEF tables, engine, console, budgets, history
<1>1. PICK j \in Jobs : j = seeding
  BY DEF SeedSuccessesWrites, TrailInv, Typed
<1>2. /\ seeding' = Nobody
      /\ succ' = IF failed[j] = "no" THEN [succ EXCEPT ![j] = Seeded] ELSE succ
      /\ UNCHANGED <<trigger, queue, failed, trail, engine, retrying, history>>
  BY <1>1 DEF SeedSuccessesWrites
<1>3. running = FALSE
  <2>1. running # TRUE
    BY DEF SeedSuccessesWrites, TrailInv, OneProcess
  <2> QED BY <2>1 DEF TrailInv, Typed
<1>4. /\ succ' \in [Jobs -> Int] /\ \A k \in Jobs \ {j} : succ'[k] = succ[k]
      /\ succ'[j] = succ[j] \/ (succ'[j] = Seeded /\ failed[j] = "no")
  BY <1>2 DEF TrailInv, Typed, Seeded
<1>5. ASSUME NEW k \in Jobs
      PROVE  /\ GoodRow(queue'[k], trail[k])
             /\ succ'[k] \in {succ[k], Absent, Seeded} /\ (succ'[k] = Absent \/ failed'[k] = "no")
             /\ k \in wanted' => queue'[k] # NoRow \/ succ'[k] # Absent \/ failed'[k] # "no"
  BY <1>2, <1>4 DEF TrailInv, JobNumbers, JobArchives, Seeded, Absent
<1>6. retrying' # Nobody => queue'[retrying'] # NoRow
  BY <1>2 DEF TrailInv, OneProcess
<1> QED BY <1>2, <1>3, <1>4, <1>5, <1>6, Calls DEF TrailInv, Typed

-----------------------------------------------------------------------------
(* The theorems.                                                            *)

LEMMA TrailStep == TrailInv /\ [Next]_vars => TrailInv'
<1> SUFFICES ASSUME TrailInv, [Next]_vars PROVE TrailInv'
  OBVIOUS
<1>1. CASE UNCHANGED vars
  BY <1>1 DEF vars, tables, engine, console, budgets, history, TrailInv, Typed, ClosingOK,
              OneProcess, JobNumbers, JobArchives, TableAndRun, RowOf, Grounds
<1>2. ASSUME NEW j \in Jobs, Enqueue(j) \/ Skip(j) \/ Dispatch(j) \/ Result(j) PROVE TrailInv'
  <2>1. CASE Result(j)
    BY <2>1, SucceedStep, FailStep, RetryStep, RequeueStep DEF Result
  <2> QED BY <1>2, <2>1, EnqueueStep, SkipStep, DispatchStep
<1>3. CASE Console
  BY <1>3, RetryFailureStep, SeedSuccessesStep, ClearFailuresStep, ClearHistoryStep DEF Console
<1> QED BY <1>1, <1>2, <1>3, StartRunStep, CommitSkipStep, CloseRowStep, EndRunStep, CrashStep,
           RetryFailureReturnsStep, SeedSuccessesWritesStep DEF Next

\* Rows are numbered within the bounds, an execution has its row, and no job is both in
\* memory and in flight.
THEOREM TrailTypes == Spec => []TypeOK
<1>1. TrailInv => TypeOK
  <2> SUFFICES ASSUME TrailInv PROVE TypeOK
    OBVIOUS
  <2>1. ASSUME NEW j \in Jobs
        PROVE  /\ queue[j] \in Rows /\ memory[j] \in Rows /\ succ[j] \in Absent .. MaxRows
               /\ \A n \in DOMAIN trail[j] : trail[j][n].no \in 1 .. MaxRetries + 1
               /\ j \in InFlight => exec[j] \in DOMAIN trail[j] /\ memory[j] = NoRow
    <3>1. GoodTrail(trail[j]) /\ Len(trail[j]) \in Nat /\ Len(trail[j]) <= MaxRows
      BY DEF TrailInv, JobNumbers, GoodTrail
    <3>2. \A r : GoodRow(r, trail[j]) => r \in Rows
      BY <3>1, TrailAssumption DEF GoodRow, Rows, QueueRow, NoRow
    <3>3. succ[j] \in Absent .. MaxRows
      BY <3>1, TrailAssumption DEF TrailInv, JobArchives, Typed, Absent
    <3>4. j \in InFlight => exec[j] \in DOMAIN trail[j] /\ memory[j] = NoRow
      BY ExecRow DEF InFlight, TrailInv, JobNumbers
    <3>5. GoodRow(queue[j], trail[j]) /\ GoodRow(memory[j], trail[j])
      BY DEF TrailInv, JobNumbers
    <3> QED BY <3>1, <3>2, <3>3, <3>4, <3>5, RowFacts
  <2>2. queue \in [Jobs -> Rows] /\ memory \in [Jobs -> Rows] /\ succ \in [Jobs -> Absent .. MaxRows]
    BY <2>1 DEF TrailInv, Typed
  <2>3. \A j \in InFlight : exec[j] \in DOMAIN trail[j] /\ memory[j] = NoRow
    BY <2>1 DEF InFlight
  <2> QED BY <2>1, <2>2, <2>3 DEF TrailInv, Typed, TypeOK
<1> QED BY <1>1, TrailInit, TrailStep, PTL DEF Spec

\* No accepted job is forgotten (retry_failure, commit_skip, abort and crash between any
\* two transactions): unless somebody cleared it, it is queued or archived.
THEOREM NotForgottenHolds == Spec => []NotForgotten
<1>1. TrailInv => NotForgotten
  BY DEF TrailInv, Typed, JobArchives, NotForgotten, Queued
<1> QED BY <1>1, TrailInit, TrailStep, PTL DEF Spec

\* Activation numbers tell activations apart (highest_activation, the dispatch of a
\* first attempt, retries and requeues that keep theirs).
THEOREM ActivationsDistinctHolds == Spec => []ActivationsDistinct
<1>1. TrailInv => ActivationsDistinct
  <2> SUFFICES ASSUME TrailInv, NEW j \in Jobs, NEW m \in Bodies(j), NEW n \in Bodies(j), m < n
               PROVE  /\ trail[j][m].act <= trail[j][n].act
                      /\ trail[j][n].no = 1 => trail[j][m].act < trail[j][n].act
    BY DEF ActivationsDistinct
  <2>1. Ordered(trail[j]) /\ trail[j] \in Seq(Entry)
    BY DEF TrailInv, JobNumbers, GoodTrail
  <2>2. m \in DOMAIN trail[j] /\ n \in DOMAIN trail[j] /\ trail[j][m].body /\ trail[j][n].body
    BY DEF Bodies
  <2>3. trail[j][m].body \in BOOLEAN /\ trail[j][n].body \in BOOLEAN
    BY <2>1, <2>2 DEF Entry
  <2>4. trail[j][m].body = TRUE /\ trail[j][n].body = TRUE
    BY <2>2, <2>3
  <2> QED BY <2>1, <2>2, <2>4 DEF Ordered
<1> QED BY <1>1, TrailInit, TrailStep, PTL DEF Spec

\* The trail agrees with the archives (commit_job_success, _write_failed_row,
\* _finish_attempt, seed_successes) and every running row is accounted for.
THEOREM TrailAgreesHolds == Spec => []TrailAgrees
<1>1. TrailInv => TrailAgrees
  <2> SUFFICES ASSUME TrailInv, NEW j \in Jobs
               PROVE  /\ succ[j] = Absent \/ failed[j] = "no"
                      /\ succ[j] > Seeded => TrustedBaseline(j) /\ \A n \in DOMAIN trail[j] :
                            trail[j][n].outcome = "failed" => n < succ[j]
                      /\ \A n \in DOMAIN trail[j] :
                            trail[j][n].outcome = "running" => <<j, n>> \in OpenRows \cup lost
    BY DEF TrailAgrees
  <2>1. JobArchives(j)
    BY DEF TrailInv
  <2>2. succ[j] > Seeded => TrustedBaseline(j) /\ \A n \in DOMAIN trail[j] :
           trail[j][n].outcome = "failed" => n < succ[j]
    BY <2>1 DEF JobArchives, LastWord, TrustedBaseline, Successes
  <2>3. ASSUME NEW n \in DOMAIN trail[j], trail[j][n].outcome = "running"
        PROVE  <<j, n>> \in OpenRows \cup lost
    <3>1. CASE n = exec[j]
      <4>1. n # 0
        BY DEF TrailInv, Typed
      <4> QED BY <3>1, <4>1 DEF OpenRows, InFlight
    <3>2. CASE closing.job = j /\ closing.row = n
      BY <3>2, OpenFacts DEF OpenRows
    <3> QED BY <2>1, <2>3, <3>1, <3>2 DEF JobArchives
  <2> QED BY <2>1, <2>2, <2>3 DEF JobArchives
<1> QED BY <1>1, TrailInit, TrailStep, PTL DEF Spec

\* A job leaves the queue as skipped only on a record that excuses it, also when the
\* record was looked at a step before the skip is committed (Skip, commit_skip).
THEOREM SkipHasGroundsHolds == Spec => SkipHasGrounds
<1>1. TrailInv => (closing.outcome = "skip" => Grounds(closing.job))
  BY OpenFacts DEF TrailInv, ClosingOK
<1>2. TrailInv /\ [Next]_vars =>
        [closing.outcome = "skip" /\ closing'.outcome = "skipped" =>
          \/ succ[closing.job] > Seeded
          \/ trigger[closing.job] # "on_input_change" /\ succ[closing.job] = Seeded
          \/ trigger[closing.job] = "once" /\ failed[closing.job] # "no"]_vars
  BY <1>1 DEF Grounds
<1> QED BY <1>2, TrailInit, TrailStep, PTL DEF Spec, SkipHasGrounds
=============================================================================
