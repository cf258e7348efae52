---------------------------- MODULE WorkerProofs ----------------------------
(***************************************************************************)
(* The safety of an execution from dispatch to commit, for any number of   *)
(* jobs, any statuses, any policy and every bound.                         *)
(***************************************************************************)
EXTENDS Worker, TLAPS

-----------------------------------------------------------------------------
(* The inductive invariant.                                                 *)

Exceptions == [cls: SUBSET (Classes \cup {"transport"}), code: Nat, header: Nat, after: Nat,
               suspended: BOOLEAN]
Results == [kind: {"none", "success", "failure", "retry", "artifact_error"},
            transient: BOOLEAN,
            code: {"none", "TIMEOUT", "NO_IPC_RESULT", "PROCESS_CRASH_EXITCODE"},
            fatal: BOOLEAN]
Answers == (Nat \X Nat) \X BOOLEAN
Places == Working \cup {"none", "reported", "dead", "late", "settle", "commit"}

TypedRows ==
    /\ queued \in [Jobs -> BOOLEAN] /\ archive \in [Jobs -> {"none", "succeeded", "failed"}]
    /\ category \in [Jobs -> Categories \cup {"none"}]
    /\ attempt \in [Jobs -> 1 .. MaxRetries + 1]
    /\ cause \in [Jobs -> Categories \cup {"none"}]

TypedRun == pc \in [Jobs -> Places] /\ heard \in [Jobs -> BOOLEAN]

TypedRequest ==
    /\ tries \in [Jobs -> 0 .. LocalRetries] /\ resp \in [Jobs -> Nat \X Nat]
    /\ exc \in [Jobs -> SUBSET Exceptions] /\ paced \in [Jobs -> Nat]
    /\ answer \in [Jobs -> Answers] /\ muted \in [Jobs -> BOOLEAN]

TypedDisk ==
    /\ declared \in [Jobs -> BOOLEAN] /\ file \in [Jobs -> {"none", "foreign", "made"}]
    /\ auth \in [Jobs -> [existing: BOOLEAN, failure: BOOLEAN, success: BOOLEAN]]
    /\ result \in [Jobs -> Results] /\ stranded \in [Jobs -> BOOLEAN]

Typed == TypedRows /\ TypedRun /\ TypedRequest /\ TypedDisk

\* The store holds what it may store.
StoreOK ==
    /\ snapshot \in Nat \X Nat
    /\ snapshot # NoResponse => snapshot[1] \in Codes /\ Storable(snapshot[1])

\* An execution belongs to a queued job, and the main process hears what it finished.
LifeOK(k) ==
    /\ pc[k] # "none" => queued[k] = TRUE
    /\ pc[k] \in {"reported", "dead", "late", "settle", "commit"} => heard[k] = TRUE
    /\ heard[k] = TRUE => pc[k] # "none"
    /\ declared[k] = TRUE => heard[k] = TRUE

\* The response in hand is an answer of this try, and the server limits.
Limited(k) == answer[k][2] = TRUE /\ ClassifyStatus(answer[k][1][1]) = "RateLimitHit"
Need(k) == IF muted[k] THEN DefaultTtl ELSE Ttl(Asked(k))

\* What a request raises.
OfRequest(x) ==
    x.cls \in {{}, {"transport"}, {"FatalError"}, {"RetryError"}, {"RetryError", "RateLimitHit"}}

\* A rate limit on its way: the server's pace is kept already, or this exception will
\* see to it at the outer guard.
Pace(p, need, x) == p >= need \/ (x.suspended = FALSE /\ RateLimitTtl(x) >= need)

UnderWay(k, x) ==
    /\ OfRequest(x)
    /\ Limited(k) => RaisedClass(x) = "RateLimitHit"
    /\ RaisedClass(x) # "RateLimitHit" => muted[k] = FALSE
    /\ answer[k][2] = TRUE \/ Storable(resp[k][1])
    /\ RaisedClass(x) = "RateLimitHit" => Pace(paced[k], Need(k), x)

RequestOK(k) ==
    /\ exc[k] = {} \/ \E x \in exc[k] : exc[k] = {x}
    /\ pc[k] \in {"none", "declare"} => exc[k] = {} /\ answer[k][2] = FALSE /\ muted[k] = FALSE
    /\ pc[k] \in {"lookup", "fetch", "write"} => exc[k] = {} /\ muted[k] = FALSE /\ ~ Limited(k)
    /\ pc[k] \in {"put", "check"} =>
          /\ exc[k] = {} /\ muted[k] = FALSE
          /\ resp[k][1] \in Codes
          /\ \/ answer[k][2] = TRUE /\ resp[k] = answer[k][1]
             \/ answer[k][2] = FALSE /\ pc[k] = "check" /\ Storable(resp[k][1])
    /\ pc[k] = "guard" => \E x \in exc[k] : UnderWay(k, x)
    /\ pc[k] \in {"report", "reported"} =>
          /\ Limited(k) => \E x \in exc[k] : x.cls = {"RetryError", "RateLimitHit"}
          /\ \A x \in exc[k] : "RateLimitHit" \in x.cls => paced[k] >= Need(k)
    /\ pc[k] \in {"settle", "commit"} /\ result[k].code = "none" /\ Limited(k) =>
          result[k].kind = "retry" /\ result[k].transient = TRUE

\* The category that a commit will archive under is that of the cause.
CauseOK(k) ==
    /\ archive[k] = "failed" /\ queued[k] = FALSE => category[k] = cause[k]
    /\ pc[k] \in {"settle", "commit"} =>
          /\ result[k].kind # "none"
          /\ result[k].kind = "retry" => cause[k] = "transient_exhausted"
          /\ result[k].kind = "failure" => cause[k] = FailureCategory(result[k])
          /\ result[k].kind = "success" => result[k].code = "none" /\ result[k].fatal = FALSE
    /\ pc[k] = "commit" => result[k].kind \in {"retry", "success", "failure"}

\* The output path of an execution: what lay there is gone once the output is declared,
\* and what the execution made there is declared, unless nobody hears it.
FilesOK(k) ==
    /\ declared[k] = TRUE => file[k] # "foreign"
    /\ pc[k] = "declare" => declared[k] = FALSE
    /\ pc[k] \in {"lookup", "fetch", "put", "check", "guard", "write"} =>
          file[k] = "none" /\ declared[k] = heard[k]
    /\ pc[k] \in {"report", "reported"} /\ exc[k] = {} => file[k] # "foreign" /\ declared[k] = heard[k]
    /\ pc[k] = "settle" /\ result[k].kind = "success" => declared[k] = TRUE
    /\ pc[k] = "commit" /\ result[k].kind = "success" /\ auth[k].success = FALSE => file[k] = "made"
    /\ archive[k] = "succeeded" /\ queued[k] = FALSE /\ auth[k].success = FALSE => file[k] = "made"
    /\ auth[k].failure = TRUE /\ auth[k].success = TRUE /\ stranded[k] = FALSE /\ file[k] = "made" =>
          declared[k] = TRUE /\ pc[k] # "commit"
    /\ pc[k] # "none" /\ heard[k] = FALSE => stranded[k] = TRUE

JobOK(k) == LifeOK(k) /\ RequestOK(k) /\ CauseOK(k) /\ (k \in Writers => FilesOK(k))

WorkerInv == Typed /\ StoreOK /\ \A k \in Jobs : JobOK(k)

-----------------------------------------------------------------------------
(* The tables and the guards.                                               *)

Verdicts == {"RateLimitHit", "FatalError", "RetryError"}

LEMMA StatusVerdict ==
  /\ \A c : ClassifyStatus(c) \in Verdicts \cup {"none"}
  /\ ClassifyStatus(0) = "none"
  BY HttpAssumption DEF ClassifyStatus, Verdicts

LEMMA Ttls == \A h \in Nat : Ttl(h) \in Nat /\ Ttl(h) # 0 /\ (h = 0 => Ttl(h) = DefaultTtl)
  BY HttpAssumption DEF Ttl

LEMMA ExceptionVerdict ==
  ASSUME NEW x
  PROVE  /\ RaisedClass(x) \in Verdicts \cup {"none"}
         /\ "RateLimitHit" \in x.cls => RaisedClass(x) = "RateLimitHit"
  BY StatusVerdict DEF RaisedClass, Verdicts

LEMMA RaisedVerdict ==
  ASSUME NEW class \in Verdicts, NEW after \in Nat
  PROVE  /\ Raised(class, after) \in Exceptions /\ OfRequest(Raised(class, after))
         /\ RaisedClass(Raised(class, after)) = class
         /\ Raised(class, after).suspended = FALSE /\ Raised(class, after).after = after
         /\ Raised(class, after).header = 0
         /\ class = "RateLimitHit" => Raised(class, after).cls = {"RetryError", "RateLimitHit"}
         /\ class # "RateLimitHit" => "RateLimitHit" \notin Raised(class, after).cls
<1> DEFINE x == Raised(class, after)
<1>0. PICK s : s = IF class = "RateLimitHit" THEN {"RetryError", "RateLimitHit"} ELSE {class}
  OBVIOUS
<1>1. /\ x.cls = s /\ x.code = 0 /\ x.header = 0 /\ x.after = after /\ x.suspended = FALSE
      /\ x = [cls |-> s, code |-> 0, header |-> 0, after |-> after, suspended |-> FALSE]
  BY <1>0 DEF Raised
<1>2. x \in Exceptions
  <2>1. s \in SUBSET (Classes \cup {"transport"})
    BY <1>0 DEF Verdicts, Classes
  <2> HIDE DEF x
  <2> QED BY <1>1, <2>1 DEF Exceptions
<1> HIDE DEF x
<1>3. OfRequest(x) /\ RaisedClass(x) = class
  BY <1>0, <1>1 DEF OfRequest, RaisedClass, Verdicts
<1>4. /\ class # "RateLimitHit" => "RateLimitHit" \notin x.cls
      /\ class = "RateLimitHit" => x.cls = {"RetryError", "RateLimitHit"}
  BY <1>0, <1>1 DEF Verdicts
<1> QED BY <1>1, <1>2, <1>3, <1>4 DEF x

LEMMA StatusErrorVerdict ==
  ASSUME NEW c \in Nat \ {0}, NEW h \in Nat
  PROVE  /\ StatusError(c, h) \in Exceptions /\ OfRequest(StatusError(c, h))
         /\ RaisedClass(StatusError(c, h)) = ClassifyStatus(c)
         /\ StatusError(c, h).suspended = FALSE /\ StatusError(c, h).after = 0
         /\ StatusError(c, h).header = h /\ StatusError(c, h).cls = {}
<1> DEFINE x == StatusError(c, h)
<1>1. /\ x.cls = {} /\ x.code = c /\ x.header = h /\ x.after = 0 /\ x.suspended = FALSE
      /\ x \in Exceptions
  BY DEF StatusError, Exceptions
<1> HIDE DEF x
<1>2. OfRequest(x) /\ RaisedClass(x) = ClassifyStatus(c)
  BY <1>1 DEF OfRequest, RaisedClass
<1> QED BY <1>1, <1>2 DEF x

LEMMA TransportVerdict ==
  /\ TransportError \in Exceptions /\ OfRequest(TransportError)
  /\ RaisedClass(TransportError) = "RetryError" /\ TransportError.suspended = FALSE
<1>1. /\ TransportError.cls = {"transport"} /\ TransportError.code = 0
      /\ TransportError.suspended = FALSE /\ TransportError \in Exceptions
  BY DEF TransportError, Exceptions
<1> QED BY <1>1 DEF OfRequest, RaisedClass

\* A guard lets the class of an exception through, and only a guard in context marks it.
LEMMA GuardVerdict ==
  ASSUME NEW x \in Exceptions, OfRequest(x), NEW full \in BOOLEAN
  PROVE  /\ AfterGuard(full, x) \in Exceptions /\ OfRequest(AfterGuard(full, x))
         /\ RaisedClass(AfterGuard(full, x)) = RaisedClass(x)
         /\ RaisedClass(x) # "none" => RaisedClass(x) \in AfterGuard(full, x).cls
         /\ RaisedClass(x) = "RateLimitHit" =>
               AfterGuard(full, x).cls = {"RetryError", "RateLimitHit"}
         /\ "RateLimitHit" \in x.cls =>
               /\ AfterGuard(full, x).after = x.after /\ AfterGuard(full, x).header = x.header
               /\ full = FALSE => AfterGuard(full, x).suspended = x.suspended
         /\ RaisedClass(x) = "RateLimitHit" /\ "RateLimitHit" \notin x.cls =>
               AfterGuard(full, x) = Raised("RateLimitHit", 0)
<1> DEFINE y == AfterGuard(full, x)
<1>1. RaisedClass(x) \in Verdicts \cup {"none"}
  BY ExceptionVerdict
<1>2. CASE RaisedClass(x) = "none"
  <2>1. y = x /\ "RateLimitHit" \notin x.cls
    BY <1>2, ExceptionVerdict DEF AfterGuard
  <2> QED BY <1>2, <2>1
<1>3. CASE RaisedClass(x) # "none" /\ RaisedClass(x) \in x.cls
  <2>1. y = [x EXCEPT !.suspended = @ \/ Suspends(full, x)]
    BY <1>3 DEF AfterGuard
  <2>2. /\ y.cls = x.cls /\ y.code = x.code /\ y.header = x.header /\ y.after = x.after
        /\ y.suspended = (x.suspended \/ Suspends(full, x))
    BY <2>1 DEF Exceptions
  <2>3. x.suspended \in BOOLEAN /\ Suspends(full, x) \in BOOLEAN
    BY DEF Exceptions, Suspends
  <2>4. y \in Exceptions
    BY <2>1, <2>3 DEF Exceptions
  <2>5. full = FALSE => y.suspended = x.suspended
    BY <2>2, <2>3 DEF Suspends
  <2> HIDE DEF y
  <2>6. OfRequest(y) /\ RaisedClass(y) = RaisedClass(x)
    BY <2>2 DEF OfRequest, RaisedClass
  <2>7. RaisedClass(x) = "RateLimitHit" => y.cls = {"RetryError", "RateLimitHit"}
    BY <1>3, <2>2 DEF OfRequest
  <2> QED BY <1>3, <2>2, <2>4, <2>5, <2>6, <2>7 DEF y
<1>4. CASE RaisedClass(x) # "none" /\ RaisedClass(x) \notin x.cls
  <2>1. PICK v \in Verdicts : v = RaisedClass(x)
    BY <1>1, <1>4
  <2>2. y = Raised(v, 0)
    BY <1>4, <2>1 DEF AfterGuard
  <2>3. "RateLimitHit" \notin x.cls
    BY <1>4, ExceptionVerdict
  <2>4. v \in Raised(v, 0).cls
    BY DEF Raised
  <2>5. /\ Raised(v, 0) \in Exceptions /\ OfRequest(Raised(v, 0)) /\ RaisedClass(Raised(v, 0)) = v
        /\ v = "RateLimitHit" => Raised(v, 0).cls = {"RetryError", "RateLimitHit"}
    BY RaisedVerdict
  <2> HIDE DEF y
  <2> QED BY <2>1, <2>2, <2>3, <2>4, <2>5 DEF y
<1> QED BY <1>2, <1>3, <1>4

\* The outer guard keeps the server's pace.
LEMMA OuterPace ==
  ASSUME NEW x \in Exceptions, NEW p \in Nat, NEW q, NEW need \in Nat
  PROVE  /\ RaisedClass(x) = "RateLimitHit" /\ Pace(p, need, x)
         /\ q = IF Suspends(TRUE, x) /\ RateLimitTtl(x) > p THEN RateLimitTtl(x) ELSE p
         => q >= need
<1>1. RateLimitTtl(x) \in Nat /\ x.suspended \in BOOLEAN
  BY Ttls DEF RateLimitTtl, Exceptions
<1>2. PICK t \in Nat : t = RateLimitTtl(x)
  BY <1>1
<1>3. ASSUME RaisedClass(x) = "RateLimitHit", Pace(p, need, x),
             q = IF Suspends(TRUE, x) /\ RateLimitTtl(x) > p THEN RateLimitTtl(x) ELSE p
      PROVE  /\ x.suspended = FALSE => q = IF t > p THEN t ELSE p
             /\ x.suspended = TRUE => q = p
             /\ p >= need \/ (x.suspended = FALSE /\ t >= need)
  BY <1>1, <1>2, <1>3 DEF Suspends, Pace
<1>4. ASSUME x.suspended = FALSE, q = IF t > p THEN t ELSE p, p >= need \/ t >= need
      PROVE  q >= need
  BY <1>4
<1> QED BY <1>1, <1>3, <1>4

-----------------------------------------------------------------------------
(* Steps and jobs.                                                          *)

Same(k) ==
    /\ queued'[k] = queued[k] /\ archive'[k] = archive[k] /\ category'[k] = category[k]
    /\ cause'[k] = cause[k] /\ pc'[k] = pc[k] /\ heard'[k] = heard[k]
    /\ resp'[k] = resp[k] /\ exc'[k] = exc[k] /\ paced'[k] = paced[k]
    /\ answer'[k] = answer[k] /\ muted'[k] = muted[k]
    /\ declared'[k] = declared[k] /\ auth'[k] = auth[k] /\ file'[k] = file[k]
    /\ result'[k] = result[k] /\ stranded'[k] = stranded[k]

LEMMA RequestSame ==
  ASSUME NEW k, answer'[k] = answer[k], muted'[k] = muted[k], resp'[k] = resp[k]
  PROVE  (Limited(k)' <=> Limited(k)) /\ Need(k)' = Need(k)
  BY DEF Limited, Need, Asked

LEMMA UnderWaySame ==
  ASSUME NEW k, NEW x, answer'[k] = answer[k], muted'[k] = muted[k], paced'[k] = paced[k],
         resp'[k] = resp[k], UnderWay(k, x)
  PROVE  UnderWay(k, x)'
<1>1. (Limited(k)' <=> Limited(k)) /\ Need(k)' = Need(k)
  BY RequestSame
<1>2. /\ OfRequest(x)
      /\ Limited(k)' => RaisedClass(x) = "RateLimitHit"
      /\ RaisedClass(x) # "RateLimitHit" => muted'[k] = FALSE
  BY <1>1 DEF UnderWay
<1>3. /\ answer'[k][2] = TRUE \/ Storable(resp'[k][1])
      /\ RaisedClass(x) = "RateLimitHit" => Pace(paced'[k], Need(k)', x)
  BY <1>1 DEF UnderWay
<1> QED BY <1>2, <1>3 DEF UnderWay

\* A job the step does not touch stays as it was.
LEMMA Elsewhere == ASSUME NEW k, JobOK(k), Same(k) PROVE JobOK(k)'
<1>1. (Limited(k)' <=> Limited(k)) /\ Need(k)' = Need(k)
  BY RequestSame DEF Same
<1>2. LifeOK(k)'
  BY DEF JobOK, Same, LifeOK
<1>3. RequestOK(k)'
  <2>1. pc'[k] = "guard" => \E x \in exc'[k] : UnderWay(k, x)'
    BY UnderWaySame DEF JobOK, Same, RequestOK
  <2>2. RequestOK(k)
    BY DEF JobOK
  <2>3. /\ exc'[k] = exc[k] /\ pc'[k] = pc[k] /\ answer'[k] = answer[k] /\ muted'[k] = muted[k]
        /\ resp'[k] = resp[k] /\ paced'[k] = paced[k] /\ result'[k] = result[k]
    BY DEF Same
  <2> QED BY <1>1, <2>1, <2>2, <2>3 DEF RequestOK
<1>4. CauseOK(k)'
  BY DEF JobOK, Same, CauseOK, FailureCategory
<1>5. k \in Writers => FilesOK(k)'
  BY DEF JobOK, Same, FilesOK
<1> QED BY <1>2, <1>3, <1>4, <1>5 DEF JobOK

LEMMA StepOfOne ==
  ASSUME WorkerInv, NEW j \in Jobs, Typed', StoreOK', JobOK(j)',
         \A k \in Jobs : k # j => Same(k)
  PROVE  WorkerInv'
<1>1. \A k \in Jobs : JobOK(k)'
  BY Elsewhere DEF WorkerInv
<1> QED BY <1>1 DEF WorkerInv

\* An execution that is over leaves nothing to account for.
LEMMA Rested ==
  ASSUME NEW k, pc'[k] = "none", heard'[k] = FALSE, declared'[k] = FALSE, exc'[k] = {},
         answer'[k] = <<NoResponse, FALSE>>, muted'[k] = FALSE
  PROVE  LifeOK(k)' /\ RequestOK(k)'
  BY DEF LifeOK, RequestOK

LEMMA Kept == ASSUME StoreOK, UNCHANGED snapshot PROVE StoreOK'
  BY DEF StoreOK, NoResponse

LEMMA WorkerInit == Init => WorkerInv
<1> SUFFICES ASSUME Init PROVE WorkerInv
  OBVIOUS
<1> USE WorkerAssumption
<1>1. TypedRows /\ TypedRun
  BY DEF Init, TypedRows, TypedRun, Categories, Places
<1>2. TypedRequest
  <2>1. NoResponse \in Nat \X Nat /\ <<NoResponse, FALSE>> \in Answers
    BY DEF NoResponse, Answers
  <2>2. tries \in [Jobs -> 0 .. LocalRetries] /\ paced \in [Jobs -> Nat]
    BY DEF Init
  <2>3. muted \in [Jobs -> BOOLEAN] /\ exc \in [Jobs -> SUBSET Exceptions]
    BY DEF Init
  <2> QED BY <2>1, <2>2, <2>3 DEF Init, TypedRequest
<1>3. TypedDisk
  <2>1. NoResult \in Results
    BY DEF NoResult, Results
  <2>2. auth \in [Jobs -> [existing: BOOLEAN, failure: BOOLEAN, success: BOOLEAN]]
    BY DEF Init
  <2> QED BY <2>1, <2>2 DEF Init, TypedDisk
<1>4. StoreOK
  BY DEF Init, StoreOK, NoResponse
<1>5. ASSUME NEW k \in Jobs PROVE JobOK(k)
  <2>1. /\ pc[k] = "none" /\ queued[k] = TRUE /\ heard[k] = FALSE /\ declared[k] = FALSE
        /\ exc[k] = {} /\ answer[k] = <<NoResponse, FALSE>> /\ muted[k] = FALSE
        /\ archive[k] = "none" /\ file[k] # "made"
    BY DEF Init
  <2>2. LifeOK(k) /\ RequestOK(k) /\ CauseOK(k)
    BY <2>1 DEF LifeOK, RequestOK, CauseOK
  <2>3. FilesOK(k)
    BY <2>1 DEF FilesOK
  <2> QED BY <2>2, <2>3 DEF JobOK
<1> QED BY <1>1, <1>2, <1>3, <1>4, <1>5 DEF WorkerInv, Typed

-----------------------------------------------------------------------------
(* The steps of the worker process.                                         *)

\* Before and after a step that leaves the rows alone, and one that leaves the disk.
LEMMA RowsTyped == ASSUME TypedRows, UNCHANGED <<rows, cause>> PROVE TypedRows'
  BY DEF TypedRows, rows
LEMMA RunTyped ==
  ASSUME TypedRun, NEW j \in Jobs, NEW place \in Places, pc' = [pc EXCEPT ![j] = place],
         UNCHANGED heard
  PROVE  TypedRun'
  BY DEF TypedRun
LEMMA RequestTyped == ASSUME TypedRequest, UNCHANGED request PROVE TypedRequest'
  BY DEF TypedRequest, request
LEMMA DiskTyped ==
  ASSUME TypedDisk, UNCHANGED <<declared, disk, result, stranded>> PROVE TypedDisk'
  BY DEF TypedDisk, disk

LEMMA DispatchStep == ASSUME WorkerInv, NEW j \in Jobs, Dispatch(j) PROVE WorkerInv'
<1>1. Typed /\ StoreOK /\ JobOK(j)
  BY DEF WorkerInv
<1>2. /\ queued[j] /\ pc[j] = "none"
      /\ pc' = [pc EXCEPT ![j] = IF j \in Writers THEN "declare" ELSE "lookup"]
      /\ heard' = [heard EXCEPT ![j] = TRUE]
      /\ UNCHANGED <<rows, request, snapshot, declared, disk, result, cause, stranded>>
  BY DEF Dispatch
<1>3. Typed'
  <2>1. TypedRows' /\ TypedRequest' /\ TypedDisk'
    BY <1>1, <1>2, RowsTyped, RequestTyped, DiskTyped DEF Typed
  <2>2. TypedRun'
    BY <1>1, <1>2 DEF Typed, TypedRun, Places, Working
  <2> QED BY <2>1, <2>2 DEF Typed
<1>4. \A k \in Jobs : k # j => Same(k)
  BY <1>1, <1>2 DEF Same, rows, request, disk, Typed, TypedRun
<1>5. JobOK(j)'
  <2>1. /\ pc'[j] = IF j \in Writers THEN "declare" ELSE "lookup"
        /\ heard'[j] = TRUE /\ queued'[j] = TRUE /\ archive'[j] = archive[j]
        /\ exc'[j] = exc[j] /\ answer'[j] = answer[j] /\ muted'[j] = muted[j]
        /\ declared'[j] = declared[j] /\ file'[j] = file[j] /\ auth'[j] = auth[j]
        /\ stranded'[j] = stranded[j]
    BY <1>1, <1>2 DEF Typed, TypedRun, TypedRows, rows, request, disk
  <2>2. /\ exc[j] = {} /\ answer[j][2] = FALSE /\ muted[j] = FALSE
        /\ heard[j] # TRUE /\ declared[j] # TRUE /\ declared[j] \in BOOLEAN
    BY <1>1, <1>2 DEF JobOK, RequestOK, LifeOK, Typed, TypedDisk
  <2>3. LifeOK(j)'
    BY <2>1 DEF LifeOK
  <2>4. RequestOK(j)'
    BY <2>1, <2>2 DEF RequestOK, Limited
  <2>5. CauseOK(j)'
    BY <2>1 DEF CauseOK
  <2>6. j \in Writers => FilesOK(j)'
    BY <1>1, <2>1, <2>2 DEF JobOK, FilesOK
  <2> QED BY <2>3, <2>4, <2>5, <2>6 DEF JobOK
<1> QED BY <1>1, <1>2, <1>3, <1>4, <1>5, Kept, StepOfOne

\* An exception of the handler's own.
LEMMA OtherTyped ==
  ASSUME NEW classes \in SUBSET (Classes \ {"RateLimitHit"})
  PROVE  Other(classes) \in Exceptions /\ Other(classes).cls = classes
  BY DEF Other, Exceptions

LEMMA OtherReport ==
  ASSUME NEW j \in Jobs, NEW classes \in SUBSET (Classes \ {"RateLimitHit"}), JobOK(j), Typed,
         pc[j] \in {"declare", "write"}, pc'[j] = "report", exc'[j] = {Other(classes)},
         UNCHANGED <<rows, heard, answer, muted, declared, disk, result, cause, stranded>>
  PROVE  JobOK(j)'
<1>1. /\ heard'[j] = heard[j] /\ queued'[j] = queued[j] /\ archive'[j] = archive[j]
      /\ category'[j] = category[j] /\ cause'[j] = cause[j]
      /\ answer'[j] = answer[j] /\ muted'[j] = muted[j] /\ result'[j] = result[j]
      /\ declared'[j] = declared[j] /\ file'[j] = file[j] /\ auth'[j] = auth[j]
      /\ stranded'[j] = stranded[j]
  BY DEF rows, disk
<1>2. LifeOK(j)'
  BY <1>1 DEF JobOK, LifeOK
<1>3. RequestOK(j)'
  <2>1. ~ Limited(j)'
    BY <1>1 DEF JobOK, RequestOK, Limited
  <2>2. \A x \in exc'[j] : "RateLimitHit" \notin x.cls
    BY OtherTyped
  <2> QED BY <2>1, <2>2 DEF RequestOK
<1>4. CauseOK(j)'
  BY <1>1 DEF JobOK, CauseOK
<1>5. j \in Writers => FilesOK(j)'
  BY <1>1 DEF JobOK, FilesOK
<1> QED BY <1>2, <1>3, <1>4, <1>5 DEF JobOK

LEMMA DeclareStep == ASSUME WorkerInv, NEW j \in Jobs, Declare(j) PROVE WorkerInv'
<1>1. Typed /\ StoreOK /\ JobOK(j)
  BY DEF WorkerInv
<1>2. /\ pc[j] = "declare"
      /\ UNCHANGED <<rows, up, heard, tries, resp, paced, answer, muted, snapshot, auth,
                     result, budget, cause>>
  BY DEF Declare
<1>3. CASE file[j] # "none" /\ ~ auth[j].existing
  <2>1. /\ exc' = [exc EXCEPT ![j] = {Other({})}] /\ pc' = [pc EXCEPT ![j] = "report"]
        /\ UNCHANGED <<file, declared, stranded>>
    BY <1>3 DEF Declare
  <2>2. exc'[j] = {Other({})} /\ pc'[j] = "report" /\ {Other({})} \in SUBSET Exceptions
    BY <1>1, <2>1, OtherTyped DEF Typed, TypedRequest, TypedRun
  <2>3. Typed'
    <3>1. TypedRows' /\ TypedRun' /\ TypedDisk'
      BY <1>1, <1>2, <2>1, RowsTyped, RunTyped, DiskTyped DEF Typed, disk, Places, Working
    <3>2. TypedRequest'
      BY <1>1, <1>2, <2>1, <2>2 DEF Typed, TypedRequest
    <3> QED BY <3>1, <3>2 DEF Typed
  <2>4. \A k \in Jobs : k # j => Same(k)
    BY <1>1, <1>2, <2>1 DEF Same, rows, Typed, TypedRun, TypedRequest
  <2>5. JobOK(j)'
    BY <1>1, <1>2, <2>1, <2>2, OtherReport DEF disk
  <2> QED BY <1>1, <1>2, <2>3, <2>4, <2>5, Kept, StepOfOne
<1>4. CASE ~(file[j] # "none" /\ ~ auth[j].existing)
  <2>1. /\ file' = [file EXCEPT ![j] = "none"]
        /\ stranded' = [stranded EXCEPT ![j] = ~ heard[j]]
        /\ Sent(j)
    BY <1>4 DEF Declare
  <2>2. heard[j] = TRUE \/ heard[j] = FALSE
    BY <1>1 DEF Typed, TypedRun
  <2>3. PICK place \in {"lookup", "report"}, e \in SUBSET Exceptions :
           /\ pc' = [pc EXCEPT ![j] = place] /\ exc' = [exc EXCEPT ![j] = e]
           /\ declared' = [declared EXCEPT ![j] = heard[j]]
           /\ \/ heard[j] = TRUE /\ place = "lookup" /\ e = {}
              \/ heard[j] = FALSE /\ place = "report" /\ e = {Other({"ArtifactIOError"})}
    <3>1. /\ exc[j] = {} /\ exc = [exc EXCEPT ![j] = exc[j]]
          /\ declared[j] = TRUE => heard[j] = TRUE
          /\ declared[j] \in BOOLEAN /\ declared = [declared EXCEPT ![j] = declared[j]]
      BY <1>1, <1>2 DEF JobOK, RequestOK, LifeOK, Typed, TypedRequest, TypedDisk
    <3>2. {Other({"ArtifactIOError"})} \in SUBSET Exceptions
      BY OtherTyped DEF Classes
    <3>3. CASE heard[j] = TRUE
      <4>1. /\ pc' = [pc EXCEPT ![j] = "lookup"] /\ exc' = exc
            /\ declared' = [declared EXCEPT ![j] = TRUE]
        BY <2>1, <3>3 DEF Sent
      <4>2. exc' = [exc EXCEPT ![j] = {}]
        BY <3>1, <4>1
      <4> QED BY <3>3, <4>1, <4>2
    <3>4. CASE heard[j] = FALSE
      <4>1. /\ pc' = [pc EXCEPT ![j] = "report"]
            /\ exc' = [exc EXCEPT ![j] = {Other({"ArtifactIOError"})}] /\ declared' = declared
        BY <2>1, <3>4 DEF Sent
      <4>2. declared' = [declared EXCEPT ![j] = heard[j]]
        BY <3>1, <3>4, <4>1
      <4> QED BY <3>2, <3>4, <4>1, <4>2
    <3> QED BY <2>2, <3>3, <3>4
  <2>4. Typed'
    <3>1. TypedRows' /\ TypedRun'
      BY <1>1, <1>2, <2>3, RowsTyped, RunTyped DEF Typed, Places, Working
    <3>2. TypedDisk'
      BY <1>1, <1>2, <2>1, <2>2, <2>3 DEF Typed, TypedDisk
    <3>3. TypedRequest'
      BY <1>1, <1>2, <2>3 DEF Typed, TypedRequest
    <3> QED BY <3>1, <3>2, <3>3 DEF Typed
  <2>5. \A k \in Jobs : k # j => Same(k)
    BY <1>1, <1>2, <2>1, <2>3 DEF Same, rows, Typed, TypedRun, TypedRequest, TypedDisk
  <2>6. /\ pc'[j] = place /\ exc'[j] = e /\ file'[j] = "none" /\ declared'[j] = heard[j]
        /\ stranded'[j] = ~ heard[j] /\ heard'[j] = heard[j] /\ queued'[j] = queued[j]
        /\ archive'[j] = archive[j] /\ category'[j] = category[j] /\ cause'[j] = cause[j]
        /\ answer'[j] = answer[j] /\ muted'[j] = muted[j]
    BY <1>1, <1>2, <2>1, <2>3 DEF rows, Typed, TypedRun, TypedRequest, TypedDisk
  <2>7. LifeOK(j)' /\ CauseOK(j)'
    BY <1>1, <1>2, <2>3, <2>6 DEF JobOK, LifeOK, CauseOK
  <2>8. RequestOK(j)'
    <3>1. \A x \in e : "RateLimitHit" \notin x.cls
      BY <2>3, OtherTyped DEF Classes
    <3>2. answer'[j][2] = FALSE /\ muted'[j] = FALSE
      BY <1>1, <1>2, <2>6 DEF JobOK, RequestOK
    <3> QED BY <2>3, <2>6, <3>1, <3>2 DEF RequestOK, Limited
  <2>9. FilesOK(j)'
    <3>1. queued[j] = TRUE /\ queued'[j] = TRUE
      BY <1>1, <1>2, <2>6 DEF JobOK, LifeOK
    <3> QED BY <2>2, <2>3, <2>6, <3>1 DEF FilesOK
  <2> QED BY <1>1, <1>2, <2>4, <2>5, <2>7, <2>8, <2>9, Kept, StepOfOne DEF JobOK
<1> QED BY <1>3, <1>4

LEMMA DeclareFaultsStep == ASSUME WorkerInv, NEW j \in Jobs, DeclareFaults(j) PROVE WorkerInv'
<1>1. Typed /\ StoreOK /\ JobOK(j)
  BY DEF WorkerInv
<1>2. /\ pc[j] = "declare" /\ exc' = [exc EXCEPT ![j] = {Other({"ArtifactIOError"})}]
      /\ pc' = [pc EXCEPT ![j] = "report"]
      /\ UNCHANGED <<rows, up, heard, tries, resp, paced, answer, muted, snapshot, declared,
                     disk, result, cause, stranded>>
  BY DEF DeclareFaults
<1>3. {"ArtifactIOError"} \in SUBSET (Classes \ {"RateLimitHit"})
  BY DEF Classes
<1>4. /\ exc'[j] = {Other({"ArtifactIOError"})} /\ pc'[j] = "report"
      /\ {Other({"ArtifactIOError"})} \in SUBSET Exceptions
  BY <1>1, <1>2, <1>3, OtherTyped DEF Typed, TypedRequest, TypedRun
<1>5. Typed'
  <2>1. TypedRows' /\ TypedRun' /\ TypedDisk'
    BY <1>1, <1>2, RowsTyped, RunTyped, DiskTyped DEF Typed, Places, Working
  <2>2. TypedRequest'
    BY <1>1, <1>2, <1>4 DEF Typed, TypedRequest
  <2> QED BY <2>1, <2>2 DEF Typed
<1>6. \A k \in Jobs : k # j => Same(k)
  BY <1>1, <1>2 DEF Same, rows, disk, Typed, TypedRun, TypedRequest
<1>7. JobOK(j)'
  BY <1>1, <1>2, <1>3, <1>4, OtherReport
<1> QED BY <1>1, <1>2, <1>5, <1>6, <1>7, Kept, StepOfOne

LEMMA LookupStep == ASSUME WorkerInv, NEW j \in Jobs, Lookup(j) PROVE WorkerInv'
<1>1. Typed /\ StoreOK /\ JobOK(j)
  BY DEF WorkerInv
<1>2. /\ pc[j] = "lookup"
      /\ UNCHANGED <<rows, up, heard, tries, exc, paced, muted, snapshot, declared, disk, result,
                     budget, cause, stranded>>
  BY DEF Lookup
<1>3. PICK place \in {"check", "fetch"} : pc' = [pc EXCEPT ![j] = place]
  BY DEF Lookup
<1>4. /\ answer' \in [Jobs -> Answers] /\ resp' \in [Jobs -> Nat \X Nat]
      /\ \A k \in Jobs : k # j => answer'[k] = answer[k] /\ resp'[k] = resp[k]
      /\ \/ pc'[j] = "check" /\ resp'[j] = snapshot /\ snapshot # NoResponse /\ answer'[j][2] = FALSE
         \/ pc'[j] = "fetch" /\ answer'[j] = answer[j]
  <2>1. /\ answer \in [Jobs -> Answers] /\ resp \in [Jobs -> Nat \X Nat] /\ answer[j] \in Answers
        /\ snapshot \in Nat \X Nat /\ pc \in [Jobs -> Places]
    BY <1>1 DEF Typed, TypedRequest, StoreOK, TypedRun
  <2>2. CASE snapshot # NoResponse
    <3>1. PICK c \in Nat \X Nat : c = answer[j][1]
      BY <2>1 DEF Answers
    <3>2. PICK b : b = <<c, FALSE>>
      OBVIOUS
    <3>3. b \in Answers /\ b[2] = FALSE
      BY <3>2 DEF Answers
    <3>4. /\ resp' = [resp EXCEPT ![j] = snapshot] /\ answer' = [answer EXCEPT ![j] = b]
          /\ pc' = [pc EXCEPT ![j] = "check"]
      BY <2>2, <3>1, <3>2 DEF Lookup
    <3> QED BY <2>1, <2>2, <3>3, <3>4
  <2>3. CASE snapshot = NoResponse
    <3>1. pc' = [pc EXCEPT ![j] = "fetch"] /\ resp' = resp /\ answer' = answer
      BY <2>3 DEF Lookup
    <3> QED BY <2>1, <3>1
  <2> QED BY <2>2, <2>3
<1>5. Typed'
  <2>1. TypedRows' /\ TypedRun' /\ TypedDisk'
    BY <1>1, <1>2, <1>3, RowsTyped, RunTyped, DiskTyped DEF Typed, Places, Working
  <2>2. TypedRequest'
    BY <1>1, <1>2, <1>4 DEF Typed, TypedRequest
  <2> QED BY <2>1, <2>2 DEF Typed
<1>6. \A k \in Jobs : k # j => Same(k)
  BY <1>1, <1>2, <1>3, <1>4 DEF Same, rows, disk, Typed, TypedRun
<1>7. JobOK(j)'
  <2>1. /\ heard'[j] = heard[j] /\ queued'[j] = queued[j] /\ archive'[j] = archive[j]
        /\ category'[j] = category[j] /\ cause'[j] = cause[j] /\ exc'[j] = exc[j]
        /\ muted'[j] = muted[j] /\ declared'[j] = declared[j] /\ file'[j] = file[j]
        /\ auth'[j] = auth[j] /\ stranded'[j] = stranded[j]
    BY <1>2 DEF rows, disk
  <2>2. LifeOK(j)' /\ CauseOK(j)'
    BY <1>1, <1>2, <1>4, <2>1 DEF JobOK, LifeOK, CauseOK
  <2>3. RequestOK(j)'
    <3>1. exc'[j] = {} /\ muted'[j] = FALSE /\ ~ Limited(j)
      BY <1>1, <1>2, <2>1 DEF JobOK, RequestOK
    <3>2. CASE pc'[j] = "check"
      BY <1>1, <1>4, <3>1, <3>2 DEF RequestOK, StoreOK
    <3>3. CASE pc'[j] = "fetch"
      <4>1. answer'[j] = answer[j] /\ ~ Limited(j)'
        BY <1>4, <3>1, <3>3 DEF Limited
      <4> QED BY <3>1, <3>3, <4>1 DEF RequestOK
    <3> QED BY <1>4, <3>2, <3>3
  <2>4. j \in Writers => FilesOK(j)'
    BY <1>1, <1>2, <1>4, <2>1 DEF JobOK, FilesOK
  <2> QED BY <2>2, <2>3, <2>4 DEF JobOK
<1> QED BY <1>1, <1>2, <1>5, <1>6, <1>7, Kept, StepOfOne

LEMMA CheckedVerdict ==
  ASSUME NEW c \in Nat, NEW h \in Nat
  PROVE  \/ ClassifyStatus(c) = "none" /\ Checked(c, h) = {}
         \/ \E x \in Exceptions :
               /\ Checked(c, h) = {x} /\ OfRequest(x) /\ x.suspended = FALSE
               /\ RaisedClass(x) = ClassifyStatus(c) /\ ClassifyStatus(c) # "none"
               /\ ClassifyStatus(c) = "RateLimitHit" =>
                     "RateLimitHit" \in x.cls /\ RateLimitTtl(x) = Ttl(h)
<1>1. CASE ClassifyStatus(c) = "none"
  BY <1>1 DEF Checked
<1>2. CASE ClassifyStatus(c) # "none"
  <2>1. PICK v \in Verdicts : v = ClassifyStatus(c)
    BY <1>2, StatusVerdict
  <2>2. PICK t \in Nat : t = IF v = "RateLimitHit" THEN Ttl(h) ELSE 0
    BY Ttls
  <2>3. Checked(c, h) = {Raised(v, t)}
    BY <1>2, <2>1, <2>2 DEF Checked
  <2>4. PICK x : x = Raised(v, t)
    OBVIOUS
  <2>5. /\ x \in Exceptions /\ OfRequest(x) /\ RaisedClass(x) = v /\ x.suspended = FALSE
        /\ x.after = t /\ (v = "RateLimitHit" => x.cls = {"RetryError", "RateLimitHit"})
    BY <2>4, RaisedVerdict
  <2>6. v = "RateLimitHit" => RateLimitTtl(x) = Ttl(h)
    BY <2>2, <2>5, Ttls DEF RateLimitTtl
  <2>7. v = "RateLimitHit" => "RateLimitHit" \in x.cls
    BY <2>5
  <2>8. Checked(c, h) = {x}
    BY <2>3, <2>4
  <2> QED BY <1>2, <2>1, <2>5, <2>6, <2>7, <2>8
<1> QED BY <1>1, <1>2

\* Whatever guard the fetch function has of its own, the server's pace is kept by it or
\* left to the outer guard; a library exception through a bare one leaves the default.
LEMMA InnerPace ==
  ASSUME NEW x \in Exceptions, NEW p \in Nat, NEW t \in Nat, OfRequest(x),
         RaisedClass(x) = "RateLimitHit", x.suspended = FALSE, RateLimitTtl(x) = t
  PROVE  /\ Pace(p, t, x)
         /\ "RateLimitHit" \in x.cls => Pace(p, t, AfterGuard(FALSE, x))
         /\ "RateLimitHit" \notin x.cls => Pace(p, DefaultTtl, AfterGuard(FALSE, x))
         /\ \A q \in Nat : q >= t => \A y : Pace(q, t, y)
         /\ Suspends(TRUE, x) /\ ~ Suspends(FALSE, x)
<1>1. Suspends(TRUE, x) /\ ~ Suspends(FALSE, x)
  BY DEF Suspends
<1>2. Pace(p, t, x)
  BY DEF Pace
<1>3. ASSUME "RateLimitHit" \in x.cls PROVE Pace(p, t, AfterGuard(FALSE, x))
  <2>1. PICK y : y = AfterGuard(FALSE, x)
    OBVIOUS
  <2>2. y.after = x.after /\ y.header = x.header /\ y.suspended = FALSE
    BY <1>3, <2>1, GuardVerdict
  <2>3. RateLimitTtl(y) = t
    BY <2>2 DEF RateLimitTtl
  <2>4. Pace(p, t, y)
    BY <2>2, <2>3 DEF Pace
  <2> QED BY <2>1, <2>4
<1>4. ASSUME "RateLimitHit" \notin x.cls PROVE Pace(p, DefaultTtl, AfterGuard(FALSE, x))
  <2>1. PICK y : y = Raised("RateLimitHit", 0)
    OBVIOUS
  <2>2. y.after = 0 /\ y.header = 0 /\ y.suspended = FALSE
    BY <2>1, RaisedVerdict DEF Verdicts
  <2>3. RateLimitTtl(y) = DefaultTtl /\ DefaultTtl \in Nat
    BY <2>2, HttpAssumption DEF RateLimitTtl, Ttl
  <2>4. Pace(p, DefaultTtl, y)
    BY <2>2, <2>3 DEF Pace
  <2>5. AfterGuard(FALSE, x) = y
    BY <1>4, <2>1, GuardVerdict
  <2> QED BY <2>4, <2>5
<1>5. \A q \in Nat : q >= t => \A y : Pace(q, t, y)
  BY DEF Pace
<1> QED BY <1>1, <1>2, <1>3, <1>4, <1>5

\* What a fetch does to the job's request.
OnlyAt(j) ==
    /\ answer' = [answer EXCEPT ![j] = answer'[j]] /\ resp' = [resp EXCEPT ![j] = resp'[j]]
    /\ exc' = [exc EXCEPT ![j] = exc'[j]] /\ paced' = [paced EXCEPT ![j] = paced'[j]]
    /\ muted' = [muted EXCEPT ![j] = muted'[j]] /\ pc' = [pc EXCEPT ![j] = pc'[j]]

FetchedOK(j) ==
    /\ OnlyAt(j)
    /\ resp'[j] \in Nat \X Nat /\ exc'[j] \in SUBSET Exceptions /\ paced'[j] \in Nat
    /\ answer'[j] \in Answers /\ answer'[j][2] = TRUE /\ muted'[j] \in BOOLEAN
    /\ \/ /\ pc'[j] = "put" /\ exc'[j] = {} /\ muted'[j] = FALSE
          /\ resp'[j][1] \in Codes /\ resp'[j] = answer'[j][1]
       \/ /\ pc'[j] = "guard"
          /\ \E y \in Exceptions : exc'[j] = {y} /\ UnderWay(j, y)'

LEMMA FetchBrings ==
  ASSUME Typed, NEW j \in Jobs, JobOK(j), Fetch(j)
  PROVE  FetchedOK(j)
<1>1. /\ pc[j] = "fetch" /\ muted[j] = FALSE /\ paced[j] \in Nat
      /\ answer \in [Jobs -> Answers] /\ resp \in [Jobs -> Nat \X Nat]
      /\ exc \in [Jobs -> SUBSET Exceptions] /\ paced \in [Jobs -> Nat]
      /\ muted \in [Jobs -> BOOLEAN] /\ pc \in [Jobs -> Places]
  BY DEF Fetch, JobOK, RequestOK, Typed, TypedRequest, TypedRun
<1>2. PICK code \in Codes \cup {0}, header \in Afters, inner \in Inner, raises \in BOOLEAN :
          LET x == IF code = 0 THEN {TransportError}
                   ELSE IF inner = "none" /\ ~ raises THEN {}
                   ELSE Fetched(code, header, raises)
              limited == code # 0 /\ ClassifyStatus(code) = "RateLimitHit"
          IN  /\ (raises => code >= 400) /\ (header # 0 => limited)
              /\ IF limited THEN Spend("limited", MaxLimited) ELSE UNCHANGED budget
              /\ answer' = [answer EXCEPT ![j] = <<<<code, header>>, TRUE>>]
              /\ resp' = [resp EXCEPT ![j] = IF x = {} THEN <<code, header>> ELSE NoResponse]
              /\ exc' = [exc EXCEPT ![j] =
                            IF inner = "none" THEN x ELSE {AfterGuard(inner = "full", y) : y \in x}]
              /\ paced' = [paced EXCEPT ![j] =
                            IF \E y \in x : Suspends(inner = "full", y) /\ RateLimitTtl(y) > @
                            THEN RateLimitTtl(CHOOSE y \in x : TRUE) ELSE @]
              /\ muted' = [muted EXCEPT ![j] = @ \/ (limited /\ raises /\ inner = "bare")]
              /\ pc' = [pc EXCEPT ![j] = IF x = {} THEN "put" ELSE "guard"]
  BY DEF Fetch
<1> DEFINE x == IF code = 0 THEN {TransportError}
                ELSE IF inner = "none" /\ ~ raises THEN {}
                ELSE Fetched(code, header, raises)
           limited == code # 0 /\ ClassifyStatus(code) = "RateLimitHit"
           full == inner = "full"
<1>3. /\ code \in Nat /\ header \in Nat /\ (code # 0 => code \in Codes) /\ <<code, header>> \in Nat \X Nat
      /\ inner \in {"none", "bare", "full"}
  BY WorkerAssumption
<1>4. /\ answer'[j] = <<<<code, header>>, TRUE>> /\ answer'[j] \in Answers
      /\ answer'[j][1] = <<code, header>> /\ answer'[j][2] = TRUE
      /\ answer'[j][1][1] = code /\ answer'[j][1][2] = header
  BY <1>1, <1>2, <1>3 DEF Answers
<1>5. /\ resp'[j] = IF x = {} THEN <<code, header>> ELSE NoResponse
      /\ exc'[j] = IF inner = "none" THEN x ELSE {AfterGuard(full, y) : y \in x}
      /\ pc'[j] = IF x = {} THEN "put" ELSE "guard"
      /\ muted'[j] = (limited /\ raises /\ inner = "bare")
      /\ muted'[j] \in BOOLEAN /\ full \in BOOLEAN
  BY <1>1, <1>2
<1>6. paced'[j] = IF \E y \in x : Suspends(full, y) /\ RateLimitTtl(y) > paced[j]
                  THEN RateLimitTtl(CHOOSE y \in x : TRUE) ELSE paced[j]
  BY <1>1, <1>2
<1>7. resp'[j] \in Nat \X Nat
  BY <1>3, <1>5 DEF NoResponse
<1>8. OnlyAt(j)
  BY <1>1, <1>2, Zenon DEF OnlyAt
<1>9. CASE x = {}
  <2>1. code # 0 /\ raises = FALSE
    BY <1>9 DEF Fetched
  <2>2. exc'[j] = {} /\ muted'[j] = FALSE /\ pc'[j] = "put" /\ resp'[j] = <<code, header>>
    BY <1>5, <1>9, <2>1
  <2>3. paced'[j] = paced[j]
    BY <1>6, <1>9
  <2>4. resp'[j][1] = code /\ resp'[j] = answer'[j][1] /\ code \in Codes
    BY <1>3, <1>4, <2>1, <2>2
  <2> HIDE DEF x, limited, full
  <2> QED BY <1>1, <1>4, <1>7, <1>8, <2>2, <2>3, <2>4 DEF FetchedOK
<1>10. CASE x # {}
  <2>1. \E z \in Exceptions :
          /\ x = {z} /\ OfRequest(z) /\ z.suspended = FALSE
          /\ RaisedClass(z) = IF code = 0 THEN "RetryError" ELSE ClassifyStatus(code)
          /\ limited => RateLimitTtl(z) = Ttl(header) /\ ("RateLimitHit" \in z.cls <=> raises = FALSE)
    <3>1. CASE code = 0
      BY <3>1, TransportVerdict
    <3>2. CASE code # 0 /\ raises = TRUE
      <4>1. x = {StatusError(code, header)}
        BY <3>2 DEF Fetched
      <4>2. PICK z : z = StatusError(code, header)
        OBVIOUS
      <4>6. code \in Nat \ {0} /\ header \in Nat
        BY <1>3, <3>2
      <4> HIDE DEF x, limited, full
      <4>3. /\ z \in Exceptions /\ OfRequest(z) /\ z.suspended = FALSE /\ z.cls = {}
            /\ RaisedClass(z) = ClassifyStatus(code) /\ z.after = 0 /\ z.header = header
        BY <4>2, <4>6, StatusErrorVerdict
      <4>4. RateLimitTtl(z) = Ttl(header)
        BY <4>3 DEF RateLimitTtl
      <4>5. x = {z}
        BY <4>1, <4>2
      <4> HIDE DEF x, limited
      <4> QED BY <3>2, <4>3, <4>4, <4>5
    <3>3. CASE code # 0 /\ raises = FALSE
      <4>1. x = Checked(code, header)
        BY <1>10, <3>3 DEF Fetched
      <4>2. PICK z \in Exceptions :
               /\ x = {z} /\ OfRequest(z) /\ z.suspended = FALSE
               /\ RaisedClass(z) = ClassifyStatus(code)
               /\ ClassifyStatus(code) = "RateLimitHit" =>
                     "RateLimitHit" \in z.cls /\ RateLimitTtl(z) = Ttl(header)
        <5> HIDE DEF x
        <5> QED BY <1>3, <1>10, <4>1, CheckedVerdict
      <4> HIDE DEF x
      <4> QED BY <3>3, <4>2
    <3> QED BY <3>1, <3>2, <3>3
  <2>2. PICK z \in Exceptions :
          /\ x = {z} /\ OfRequest(z) /\ z.suspended = FALSE
          /\ RaisedClass(z) = IF code = 0 THEN "RetryError" ELSE ClassifyStatus(code)
          /\ limited => RateLimitTtl(z) = Ttl(header) /\ ("RateLimitHit" \in z.cls <=> raises = FALSE)
    BY <2>1
  <2>3. RaisedClass(z) = "RateLimitHit" <=> limited
    BY <2>2, StatusVerdict
  <2> HIDE DEF x
  <2>4. PICK y : y = IF inner = "none" THEN z ELSE AfterGuard(full, z)
    OBVIOUS
  <2>5. exc'[j] = {y} /\ pc'[j] = "guard"
    BY <1>5, <1>10, <2>2, <2>4
  <2>6. y \in Exceptions /\ OfRequest(y) /\ RaisedClass(y) = RaisedClass(z)
    <3> HIDE DEF full
    <3> QED BY <1>5, <2>2, <2>4, GuardVerdict
  <2>7. RateLimitTtl(z) \in Nat
    BY Ttls DEF RateLimitTtl, Exceptions
  <2>8. /\ paced'[j] = IF Suspends(full, z) /\ RateLimitTtl(z) > paced[j]
                       THEN RateLimitTtl(z) ELSE paced[j]
        /\ paced'[j] \in Nat
    <3>1. (CHOOSE y1 \in x : TRUE) = z
      BY <2>2
    <3> HIDE DEF full
    <3>2. paced'[j] = IF Suspends(full, z) /\ RateLimitTtl(z) > paced[j]
                      THEN RateLimitTtl(z) ELSE paced[j]
      BY <1>6, <2>2, <3>1
    <3> QED BY <1>1, <2>7, <3>2
  <2>9. Limited(j)' => RaisedClass(y) = "RateLimitHit"
    <3>1. Limited(j)' => ClassifyStatus(code) = "RateLimitHit"
      BY <1>4 DEF Limited
    <3> QED BY <2>3, <2>6, <3>1, StatusVerdict
  <2>10. RaisedClass(y) # "RateLimitHit" => muted'[j] = FALSE
    BY <1>5, <2>3, <2>6
  <2>11. ASSUME RaisedClass(y) = "RateLimitHit" PROVE Pace(paced'[j], Need(j)', y)
    <3>1. limited /\ RaisedClass(z) = "RateLimitHit" /\ RateLimitTtl(z) = Ttl(header)
      BY <2>2, <2>3, <2>6, <2>11
    <3>2. PICK t \in Nat : t = Ttl(header)
      BY <1>3, Ttls
    <3>3. Need(j)' = IF muted'[j] THEN DefaultTtl ELSE t
      BY <1>4, <3>2 DEF Need, Asked
    <3>4. /\ Pace(paced'[j], t, z)
          /\ "RateLimitHit" \in z.cls => Pace(paced'[j], t, AfterGuard(FALSE, z))
          /\ "RateLimitHit" \notin z.cls => Pace(paced'[j], DefaultTtl, AfterGuard(FALSE, z))
          /\ \A q \in Nat : q >= t => \A w : Pace(q, t, w)
          /\ Suspends(TRUE, z)
      BY <2>2, <2>8, <3>1, <3>2, InnerPace
    <3>5. CASE inner = "none"
      <4>1. y = z /\ muted'[j] = FALSE
        BY <1>5, <2>4, <3>5
      <4> QED BY <3>3, <3>4, <4>1
    <3>6. CASE inner = "bare"
      <4>1. full = FALSE
        BY <3>6
      <4>2. y = AfterGuard(FALSE, z) /\ (muted'[j] = TRUE <=> raises = TRUE)
        BY <1>5, <2>4, <3>1, <3>6, <4>1
      <4>3. CASE raises = TRUE
        <5>1. "RateLimitHit" \notin z.cls /\ Need(j)' = DefaultTtl
          BY <2>2, <3>1, <3>3, <4>2, <4>3
        <5> QED BY <3>4, <4>2, <5>1
      <4>4. CASE raises = FALSE
        <5>1. "RateLimitHit" \in z.cls /\ Need(j)' = t
          BY <1>5, <2>2, <3>1, <3>3, <4>2, <4>4
        <5> QED BY <3>4, <4>2, <5>1
      <4> QED BY <4>3, <4>4
    <3>7. CASE inner = "full"
      <4>1. full = TRUE /\ muted'[j] = FALSE
        BY <1>5, <3>7
      <4>2. Need(j)' = t
        BY <3>3, <4>1
      <4>3. paced'[j] = IF t > paced[j] THEN t ELSE paced[j]
        BY <2>8, <3>1, <3>2, <3>4, <4>1
      <4>4. paced'[j] >= t
        BY <1>1, <4>3
      <4> QED BY <2>8, <3>4, <4>2, <4>4
    <3> QED BY <1>3, <3>5, <3>6, <3>7
  <2>12. UnderWay(j, y)'
    BY <1>4, <2>6, <2>9, <2>10, <2>11 DEF UnderWay
  <2> QED BY <1>4, <1>5, <1>7, <1>8, <2>5, <2>6, <2>8, <2>12 DEF FetchedOK
<1> QED BY <1>9, <1>10

\* The exception of a request is on its way to the outer guard, or the response to the
\* store and the check.
LEMMA Onwards ==
  ASSUME NEW j \in Jobs, JobOK(j), Typed, RequestOK(j)',
         pc[j] \in {"lookup", "fetch", "put", "check", "guard"},
         pc'[j] \in {"lookup", "fetch", "put", "check", "guard", "write"} \/
         (pc'[j] = "report" /\ exc'[j] # {}),
         UNCHANGED <<rows, heard, declared, disk, result, cause, stranded>>
  PROVE  JobOK(j)'
<1>1. /\ heard'[j] = heard[j] /\ queued'[j] = queued[j] /\ archive'[j] = archive[j]
      /\ category'[j] = category[j] /\ cause'[j] = cause[j] /\ result'[j] = result[j]
      /\ declared'[j] = declared[j] /\ file'[j] = file[j] /\ auth'[j] = auth[j]
      /\ stranded'[j] = stranded[j]
  BY DEF rows, disk
<1>2. LifeOK(j)' /\ CauseOK(j)'
  BY <1>1 DEF JobOK, LifeOK, CauseOK
<1>3. j \in Writers => FilesOK(j)'
  BY <1>1 DEF JobOK, FilesOK
<1> QED BY <1>2, <1>3 DEF JobOK

LEMMA FetchStep == ASSUME WorkerInv, NEW j \in Jobs, Fetch(j) PROVE WorkerInv'
<1>1. Typed /\ StoreOK /\ JobOK(j)
  BY DEF WorkerInv
<1>2. FetchedOK(j)
  BY <1>1, FetchBrings
<1>3. /\ pc[j] = "fetch"
      /\ UNCHANGED <<rows, up, heard, tries, snapshot, declared, disk, result, cause, stranded>>
  BY DEF Fetch
<1>4. PICK a, r, e, n, m, place :
         /\ answer' = [answer EXCEPT ![j] = a] /\ resp' = [resp EXCEPT ![j] = r]
         /\ exc' = [exc EXCEPT ![j] = e] /\ paced' = [paced EXCEPT ![j] = n]
         /\ muted' = [muted EXCEPT ![j] = m] /\ pc' = [pc EXCEPT ![j] = place]
  BY <1>2 DEF FetchedOK, OnlyAt
<1>5. TypedRequest /\ TypedRun
  BY <1>1 DEF Typed
<1>6. /\ a = answer'[j] /\ r = resp'[j] /\ e = exc'[j] /\ n = paced'[j] /\ m = muted'[j]
      /\ place = pc'[j]
  BY <1>4, <1>5 DEF TypedRequest, TypedRun
<1>7. Typed'
  <2>1. TypedRows' /\ TypedDisk'
    BY <1>1, <1>3, RowsTyped, DiskTyped DEF Typed
  <2>2. TypedRun'
    <3>1. place \in Places
      BY <1>2, <1>6 DEF FetchedOK, Places, Working
    <3> QED BY <1>3, <1>4, <1>5, <3>1, RunTyped
  <2>3. TypedRequest'
    <3>1. /\ a \in Answers /\ r \in Nat \X Nat /\ e \in SUBSET Exceptions /\ n \in Nat
          /\ m \in BOOLEAN
      BY <1>2, <1>6 DEF FetchedOK
    <3> QED BY <1>3, <1>4, <1>5, <3>1 DEF TypedRequest
  <2> QED BY <2>1, <2>2, <2>3 DEF Typed
<1>8. \A k \in Jobs : k # j => Same(k)
  BY <1>3, <1>4, <1>5 DEF Same, rows, disk, TypedRun, TypedRequest
<1>9. RequestOK(j)'
  <2>1. CASE pc'[j] = "put"
    BY <1>2, <2>1 DEF FetchedOK, RequestOK
  <2>2. CASE pc'[j] = "guard"
    <3>1. PICK y \in Exceptions : exc'[j] = {y} /\ UnderWay(j, y)'
      BY <1>2, <2>2 DEF FetchedOK
    <3> QED BY <2>2, <3>1 DEF RequestOK
  <2> QED BY <1>2, <2>1, <2>2 DEF FetchedOK
<1>10. JobOK(j)'
  <2>1. pc'[j] \in {"put", "guard"}
    BY <1>2 DEF FetchedOK
  <2> QED BY <1>1, <1>3, <1>9, <2>1, Onwards
<1> QED BY <1>1, <1>3, <1>7, <1>8, <1>10, Kept, StepOfOne

LEMMA PutStep == ASSUME WorkerInv, NEW j \in Jobs, Put(j) PROVE WorkerInv'
<1>1. Typed /\ StoreOK /\ JobOK(j)
  BY DEF WorkerInv
<1>2. /\ pc[j] = "put" /\ snapshot' = IF Storable(resp[j][1]) THEN resp[j] ELSE snapshot
      /\ pc' = [pc EXCEPT ![j] = "check"]
      /\ UNCHANGED <<rows, up, heard, request, declared, disk, result, budget, cause, stranded>>
  BY DEF Put
<1>3. Typed'
  BY <1>1, <1>2, RowsTyped, RunTyped, RequestTyped, DiskTyped DEF Typed, Places, Working
<1>4. resp[j] \in Nat \X Nat /\ resp[j][1] \in Codes
  BY <1>1, <1>2 DEF Typed, TypedRequest, JobOK, RequestOK
<1>5. StoreOK'
  <2>1. CASE Storable(resp[j][1])
    BY <1>2, <1>4, <2>1 DEF StoreOK
  <2>2. CASE ~ Storable(resp[j][1])
    BY <1>1, <1>2, <2>2, Kept
  <2> QED BY <2>1, <2>2
<1>6. \A k \in Jobs : k # j => Same(k)
  BY <1>1, <1>2 DEF Same, rows, request, disk, Typed, TypedRun
<1>7. RequestOK(j)'
  <2>1. /\ pc'[j] = "check" /\ exc'[j] = exc[j] /\ muted'[j] = muted[j] /\ resp'[j] = resp[j]
        /\ answer'[j] = answer[j]
    BY <1>1, <1>2 DEF request, Typed, TypedRun
  <2> QED BY <1>1, <1>2, <2>1 DEF JobOK, RequestOK
<1>8. pc'[j] = "check"
  BY <1>1, <1>2 DEF Typed, TypedRun
<1>9. JobOK(j)'
  BY <1>1, <1>2, <1>7, <1>8, Onwards
<1> QED BY <1>3, <1>5, <1>6, <1>9, StepOfOne

LEMMA OthersPutStep == ASSUME WorkerInv, OthersPut PROVE WorkerInv'
<1>1. UNCHANGED <<rows, pc, heard, request, declared, disk, result, cause, stranded>>
  BY DEF OthersPut
<1>2. PICK code \in Codes : Storable(code) /\ snapshot' = <<code, 0>>
  BY DEF OthersPut
<1>3. StoreOK'
  <2>1. code \in Nat
    BY WorkerAssumption
  <2> QED BY <1>2, <2>1 DEF StoreOK
<1>4. Typed'
  BY <1>1, RowsTyped, RequestTyped, DiskTyped DEF WorkerInv, Typed, TypedRun
<1>5. \A k \in Jobs : Same(k)
  BY <1>1 DEF Same, rows, request, disk
<1>6. \A k \in Jobs : JobOK(k)'
  BY <1>5, Elsewhere DEF WorkerInv
<1> QED BY <1>3, <1>4, <1>6 DEF WorkerInv

LEMMA CheckStep == ASSUME WorkerInv, NEW j \in Jobs, Check(j) PROVE WorkerInv'
<1>1. Typed /\ StoreOK /\ JobOK(j)
  BY DEF WorkerInv
<1>2. PICK raised : raised = Checked(resp[j][1], resp[j][2])
  OBVIOUS
<1>3. /\ pc[j] = "check" /\ exc' = [exc EXCEPT ![j] = raised]
      /\ pc' = [pc EXCEPT ![j] = IF raised # {} THEN "guard" ELSE "write"]
      /\ UNCHANGED <<rows, up, heard, tries, resp, paced, answer, muted, snapshot, declared,
                     disk, result, budget, cause, stranded>>
  BY <1>2 DEF Check
<1>4. /\ resp[j] \in Nat \X Nat /\ resp[j][1] \in Nat /\ resp[j][2] \in Nat
      /\ paced[j] \in Nat
  BY <1>1 DEF Typed, TypedRequest
<1>5. PICK code \in Nat, header \in Nat : code = resp[j][1] /\ header = resp[j][2]
  BY <1>4
<1>6. \/ ClassifyStatus(code) = "none" /\ raised = {}
      \/ \E x \in Exceptions :
            /\ raised = {x} /\ OfRequest(x) /\ x.suspended = FALSE
            /\ RaisedClass(x) = ClassifyStatus(code) /\ ClassifyStatus(code) # "none"
            /\ ClassifyStatus(code) = "RateLimitHit" =>
                  "RateLimitHit" \in x.cls /\ RateLimitTtl(x) = Ttl(header)
  BY <1>2, <1>5, CheckedVerdict
<1>7. raised \in SUBSET Exceptions
  BY <1>6
<1>8. Typed'
  <2>1. TypedRows' /\ TypedDisk'
    BY <1>1, <1>3, RowsTyped, DiskTyped DEF Typed
  <2>2. TypedRun' /\ TypedRequest'
    BY <1>1, <1>3, <1>7 DEF Typed, TypedRun, TypedRequest, Places, Working
  <2> QED BY <2>1, <2>2 DEF Typed
<1>9. \A k \in Jobs : k # j => Same(k)
  BY <1>1, <1>3 DEF Same, rows, disk, Typed, TypedRun, TypedRequest
<1>10. /\ exc'[j] = raised /\ pc'[j] = IF raised # {} THEN "guard" ELSE "write"
       /\ muted'[j] = muted[j] /\ answer'[j] = answer[j] /\ paced'[j] = paced[j]
       /\ resp'[j] = resp[j]
  BY <1>1, <1>3 DEF Typed, TypedRun, TypedRequest
<1>11. /\ muted[j] = FALSE /\ code \in Codes
       /\ \/ answer[j][2] = TRUE /\ resp[j] = answer[j][1]
          \/ answer[j][2] = FALSE /\ Storable(code)
  BY <1>1, <1>3, <1>5 DEF JobOK, RequestOK
<1>12. /\ Limited(j)' => ClassifyStatus(code) = "RateLimitHit"
       /\ Need(j)' = Ttl(header)
  BY <1>5, <1>10, <1>11 DEF Limited, Need, Asked
<1>13. RequestOK(j)'
  <2>1. CASE ClassifyStatus(code) = "none" /\ raised = {}
    BY <1>10, <1>11, <1>12, <2>1 DEF RequestOK
  <2>2. CASE \E x \in Exceptions :
            /\ raised = {x} /\ OfRequest(x) /\ x.suspended = FALSE
            /\ RaisedClass(x) = ClassifyStatus(code) /\ ClassifyStatus(code) # "none"
            /\ ClassifyStatus(code) = "RateLimitHit" =>
                  "RateLimitHit" \in x.cls /\ RateLimitTtl(x) = Ttl(header)
    <3>1. PICK x \in Exceptions :
            /\ raised = {x} /\ OfRequest(x) /\ x.suspended = FALSE
            /\ RaisedClass(x) = ClassifyStatus(code) /\ ClassifyStatus(code) # "none"
            /\ ClassifyStatus(code) = "RateLimitHit" =>
                  "RateLimitHit" \in x.cls /\ RateLimitTtl(x) = Ttl(header)
      BY <2>2
    <3>2. answer'[j][2] = TRUE \/ Storable(resp'[j][1])
      BY <1>5, <1>10, <1>11
    <3>3. ASSUME RaisedClass(x) = "RateLimitHit" PROVE Pace(paced'[j], Need(j)', x)
      <4>1. Need(j)' = Ttl(header) /\ RateLimitTtl(x) = Ttl(header) /\ Ttl(header) \in Nat
        BY <1>12, <3>1, <3>3, Ttls
      <4> QED BY <3>1, <4>1 DEF Pace
    <3>4. UnderWay(j, x)'
      BY <1>10, <1>11, <1>12, <3>1, <3>2, <3>3 DEF UnderWay
    <3> QED BY <1>10, <3>1, <3>4 DEF RequestOK
  <2> QED BY <1>6, <2>1, <2>2
<1>14. JobOK(j)'
  BY <1>1, <1>3, <1>10, <1>13, Onwards
<1> QED BY <1>1, <1>3, <1>8, <1>9, <1>14, Kept, StepOfOne

LEMMA GuardStep == ASSUME WorkerInv, NEW j \in Jobs, Guard(j) PROVE WorkerInv'
<1>1. Typed /\ StoreOK /\ JobOK(j)
  BY DEF WorkerInv
<1>2. /\ pc[j] = "guard"
      /\ UNCHANGED <<rows, up, heard, resp, answer, muted, snapshot, declared, disk, result,
                     budget, cause, stranded>>
  BY DEF Guard
<1>3. PICK x \in exc[j] :
          LET out == AfterGuard(TRUE, x) IN
          /\ paced' = [paced EXCEPT ![j] =
                          IF Suspends(TRUE, x) /\ RateLimitTtl(x) > @ THEN RateLimitTtl(x) ELSE @]
          /\ IF TryAgain(j, out)
             THEN /\ tries' = [tries EXCEPT ![j] = @ + 1]
                  /\ exc' = [exc EXCEPT ![j] = {}]
                  /\ pc' = [pc EXCEPT ![j] = "lookup"]
             ELSE /\ exc' = [exc EXCEPT ![j] = {out}]
                  /\ pc' = [pc EXCEPT ![j] = "report"]
                  /\ UNCHANGED tries
  BY DEF Guard
<1>4. PICK out : out = AfterGuard(TRUE, x)
  OBVIOUS
<1>5. /\ exc \in [Jobs -> SUBSET Exceptions] /\ paced \in [Jobs -> Nat]
      /\ tries \in [Jobs -> 0 .. LocalRetries] /\ pc \in [Jobs -> Places]
      /\ x \in Exceptions /\ paced[j] \in Nat /\ LocalRetries \in Nat
      /\ answer[j] \in Answers /\ resp[j] \in Nat \X Nat /\ muted[j] \in BOOLEAN
  BY <1>1, WorkerAssumption DEF Typed, TypedRequest, TypedRun
<1>6. UnderWay(j, x)
  BY <1>1, <1>2 DEF JobOK, RequestOK
<1>7. /\ out \in Exceptions /\ RaisedClass(out) = RaisedClass(x)
      /\ RaisedClass(x) = "RateLimitHit" => out.cls = {"RetryError", "RateLimitHit"}
  BY <1>4, <1>5, <1>6, GuardVerdict DEF UnderWay
<1>8. /\ paced' = [paced EXCEPT ![j] = paced'[j]]
      /\ paced'[j] = IF Suspends(TRUE, x) /\ RateLimitTtl(x) > paced[j]
                     THEN RateLimitTtl(x) ELSE paced[j]
  BY <1>3, <1>5
<1>9. paced'[j] \in Nat
  <2>1. RateLimitTtl(x) \in Nat
    BY <1>5, Ttls DEF RateLimitTtl, Exceptions
  <2> QED BY <1>5, <1>8, <2>1
<1>10. Need(j) \in Nat /\ (Limited(j)' <=> Limited(j)) /\ Need(j)' = Need(j)
  <2>1. Asked(j) \in Nat
    BY <1>5 DEF Answers, Asked
  <2>2. Need(j) \in Nat
    BY <2>1, Ttls, HttpAssumption DEF Need
  <2> QED BY <1>2, <2>2, RequestSame
<1>11. RaisedClass(x) = "RateLimitHit" => paced'[j] >= Need(j)
  <2>1. RaisedClass(x) = "RateLimitHit" => Pace(paced[j], Need(j), x)
    BY <1>6 DEF UnderWay
  <2> QED BY <1>5, <1>8, <1>10, <2>1, OuterPace
<1>12. \/ /\ TryAgain(j, out) /\ tries' = [tries EXCEPT ![j] = @ + 1]
          /\ exc' = [exc EXCEPT ![j] = {}] /\ pc' = [pc EXCEPT ![j] = "lookup"]
       \/ /\ exc' = [exc EXCEPT ![j] = {out}] /\ pc' = [pc EXCEPT ![j] = "report"]
          /\ UNCHANGED tries
  BY <1>3, <1>4
<1>13. /\ exc' \in [Jobs -> SUBSET Exceptions] /\ paced' \in [Jobs -> Nat]
       /\ pc' \in [Jobs -> Places]
       /\ \A k \in Jobs : k # j => exc'[k] = exc[k] /\ paced'[k] = paced[k] /\ pc'[k] = pc[k]
       /\ \/ TryAgain(j, out) /\ exc'[j] = {} /\ pc'[j] = "lookup"
          \/ exc'[j] = {out} /\ pc'[j] = "report"
  <2>1. paced' \in [Jobs -> Nat] /\ \A k \in Jobs : k # j => paced'[k] = paced[k]
    BY <1>5, <1>8, <1>9
  <2> QED BY <1>5, <1>7, <1>12, <2>1 DEF Places, Working
<1>14. tries' \in [Jobs -> 0 .. LocalRetries]
  BY <1>5, <1>12 DEF TryAgain
<1>15. Typed'
  <2>1. TypedRows' /\ TypedDisk'
    BY <1>1, <1>2, RowsTyped, DiskTyped DEF Typed
  <2> QED BY <1>1, <1>2, <1>13, <1>14, <2>1 DEF Typed, TypedRun, TypedRequest
<1>16. \A k \in Jobs : k # j => Same(k)
  BY <1>2, <1>13 DEF Same, rows, disk
<1>17. RequestOK(j)'
  <2>1. muted'[j] = muted[j]
    BY <1>2
  <2>2. CASE TryAgain(j, out) /\ exc'[j] = {} /\ pc'[j] = "lookup"
    <3>1. RaisedClass(x) # "RateLimitHit"
      BY <1>7, <2>2 DEF TryAgain
    <3>2. muted[j] = FALSE /\ ~ Limited(j)
      BY <1>6, <3>1 DEF UnderWay
    <3> QED BY <1>10, <2>1, <2>2, <3>2 DEF RequestOK
  <2>3. CASE exc'[j] = {out} /\ pc'[j] = "report"
    <3>1. Limited(j)' => out.cls = {"RetryError", "RateLimitHit"}
      BY <1>6, <1>7, <1>10 DEF UnderWay
    <3>2. "RateLimitHit" \in out.cls => paced'[j] >= Need(j)'
      BY <1>7, <1>10, <1>11, ExceptionVerdict
    <3> QED BY <2>3, <3>1, <3>2 DEF RequestOK
  <2> QED BY <1>13, <2>2, <2>3
<1>18. JobOK(j)'
  BY <1>1, <1>2, <1>13, <1>17, Onwards
<1> QED BY <1>1, <1>2, <1>15, <1>16, <1>18, Kept, StepOfOne

LEMMA WriteStep == ASSUME WorkerInv, NEW j \in Jobs, Write(j) PROVE WorkerInv'
<1>1. Typed /\ StoreOK /\ JobOK(j)
  BY DEF WorkerInv
<1>2. /\ pc[j] = "write" /\ pc' = [pc EXCEPT ![j] = "report"]
      /\ UNCHANGED <<rows, up, heard, request, snapshot, declared, auth, result, budget, cause,
                     stranded>>
  BY DEF Write
<1>3. \/ j \notin Writers /\ file' = file
      \/ j \in Writers /\ \E made \in {"made", "none"} : file' = [file EXCEPT ![j] = made]
  BY DEF Write
<1>4. /\ file' \in [Jobs -> {"none", "foreign", "made"}] /\ pc'[j] = "report"
      /\ \A k \in Jobs : k # j => file'[k] = file[k]
      /\ j \in Writers => file'[j] \in {"none", "made"}
  BY <1>1, <1>2, <1>3 DEF Typed, TypedDisk, TypedRun
<1>5. Typed'
  <2>1. TypedRows' /\ TypedRun' /\ TypedRequest'
    BY <1>1, <1>2, RowsTyped, RunTyped, RequestTyped DEF Typed, Places, Working
  <2> QED BY <1>1, <1>2, <1>4, <2>1 DEF Typed, TypedDisk
<1>6. \A k \in Jobs : k # j => Same(k)
  BY <1>1, <1>2, <1>4 DEF Same, rows, request, Typed, TypedRun
<1>7. /\ heard'[j] = heard[j] /\ queued'[j] = queued[j] /\ archive'[j] = archive[j]
      /\ category'[j] = category[j] /\ cause'[j] = cause[j] /\ result'[j] = result[j]
      /\ declared'[j] = declared[j] /\ auth'[j] = auth[j] /\ stranded'[j] = stranded[j]
      /\ exc'[j] = exc[j] /\ answer'[j] = answer[j] /\ muted'[j] = muted[j]
  BY <1>2 DEF rows, request
<1>8. LifeOK(j)' /\ CauseOK(j)'
  BY <1>1, <1>2, <1>4, <1>7 DEF JobOK, LifeOK, CauseOK
<1>9. RequestOK(j)'
  <2>1. exc'[j] = {} /\ ~ Limited(j)'
    BY <1>1, <1>2, <1>7 DEF JobOK, RequestOK, Limited
  <2> QED BY <1>4, <2>1 DEF RequestOK
<1>10. j \in Writers => FilesOK(j)'
  <2>1. heard[j] \in BOOLEAN /\ queued[j] = TRUE
    BY <1>1, <1>2 DEF Typed, TypedRun, JobOK, LifeOK
  <2> QED BY <1>1, <1>2, <1>4, <1>7, <2>1 DEF JobOK, FilesOK
<1> QED BY <1>1, <1>2, <1>5, <1>6, <1>8, <1>9, <1>10, Kept, StepOfOne DEF JobOK

LEMMA HandlerRaisesStep == ASSUME WorkerInv, NEW j \in Jobs, HandlerRaises(j) PROVE WorkerInv'
<1>1. Typed /\ StoreOK /\ JobOK(j)
  BY DEF WorkerInv
<1>2. PICK classes \in OwnFaults \cup {{"KeyboardInterrupt"}} :
          exc' = [exc EXCEPT ![j] = {Other(classes)}]
  BY DEF HandlerRaises
<1>3. /\ pc[j] = "write" /\ pc' = [pc EXCEPT ![j] = "report"]
      /\ UNCHANGED <<rows, up, heard, tries, resp, paced, answer, muted, snapshot, declared,
                     disk, result, cause, stranded>>
  BY DEF HandlerRaises
<1>4. classes \in SUBSET (Classes \ {"RateLimitHit"})
  BY DEF OwnFaults, Classes
<1>5. /\ exc'[j] = {Other(classes)} /\ pc'[j] = "report"
      /\ {Other(classes)} \in SUBSET Exceptions
  BY <1>1, <1>2, <1>3, <1>4, OtherTyped DEF Typed, TypedRequest, TypedRun
<1>6. Typed'
  <2>1. TypedRows' /\ TypedRun' /\ TypedDisk'
    BY <1>1, <1>3, RowsTyped, RunTyped, DiskTyped DEF Typed, Places, Working
  <2>2. TypedRequest'
    BY <1>1, <1>2, <1>3, <1>5 DEF Typed, TypedRequest
  <2> QED BY <2>1, <2>2 DEF Typed
<1>7. \A k \in Jobs : k # j => Same(k)
  BY <1>1, <1>2, <1>3 DEF Same, rows, disk, Typed, TypedRun, TypedRequest
<1>8. JobOK(j)'
  BY <1>1, <1>3, <1>4, <1>5, OtherReport
<1> QED BY <1>1, <1>3, <1>6, <1>7, <1>8, Kept, StepOfOne

\* The executions of ks are over, and the others know what they knew.
LEMMA Cleared ==
  ASSUME TypedRequest, NEW ks, Clear(ks)
  PROVE  /\ TypedRequest'
         /\ \A k \in Jobs : k \in ks =>
               exc'[k] = {} /\ answer'[k] = <<NoResponse, FALSE>> /\ muted'[k] = FALSE
         /\ \A k \in Jobs : k \notin ks =>
               /\ resp'[k] = resp[k] /\ exc'[k] = exc[k] /\ paced'[k] = paced[k]
               /\ answer'[k] = answer[k] /\ muted'[k] = muted[k]
<1>1. NoResponse \in Nat \X Nat /\ <<NoResponse, FALSE>> \in Answers
  BY DEF NoResponse, Answers
<1>2. /\ tries' \in [Jobs -> 0 .. LocalRetries] /\ paced' \in [Jobs -> Nat]
      /\ \A k \in Jobs : k \notin ks => paced'[k] = paced[k]
  <2>1. LocalRetries \in Nat
    BY WorkerAssumption
  <2> QED BY <2>1 DEF TypedRequest, Clear
<1>3. /\ resp' \in [Jobs -> Nat \X Nat] /\ answer' \in [Jobs -> Answers]
      /\ exc' \in [Jobs -> SUBSET Exceptions]
      /\ \A k \in Jobs : k \in ks => exc'[k] = {} /\ answer'[k] = <<NoResponse, FALSE>>
      /\ \A k \in Jobs : k \notin ks =>
            resp'[k] = resp[k] /\ exc'[k] = exc[k] /\ answer'[k] = answer[k]
  <2>1. PICK blank \in Answers : blank = <<NoResponse, FALSE>>
    BY <1>1
  <2>2. /\ resp' = [j \in Jobs |-> IF j \in ks THEN NoResponse ELSE resp[j]]
        /\ exc' = [j \in Jobs |-> IF j \in ks THEN {} ELSE exc[j]]
        /\ answer' = [j \in Jobs |-> IF j \in ks THEN blank ELSE answer[j]]
    BY <2>1 DEF Clear
  <2> QED BY <1>1, <2>1, <2>2 DEF TypedRequest
<1>4. /\ muted' \in [Jobs -> BOOLEAN]
      /\ \A k \in Jobs : k \in ks => muted'[k] = FALSE
      /\ \A k \in Jobs : k \notin ks => muted'[k] = muted[k]
  BY DEF TypedRequest, Clear
<1> QED BY <1>2, <1>3, <1>4 DEF TypedRequest

LEMMA Idled ==
  ASSUME TypedRun, NEW ks, Idle(ks)
  PROVE  /\ TypedRun'
         /\ \A k \in Jobs : k \in ks => pc'[k] = "none" /\ heard'[k] = FALSE
         /\ \A k \in Jobs : k \notin ks => pc'[k] = pc[k] /\ heard'[k] = heard[k]
<1>1. /\ pc' = [j \in Jobs |-> IF j \in ks THEN "none" ELSE pc[j]]
      /\ heard' = [j \in Jobs |-> heard[j] /\ j \notin ks]
  BY DEF Idle
<1>2. /\ pc' \in [Jobs -> Places]
      /\ \A k \in Jobs : k \in ks => pc'[k] = "none"
      /\ \A k \in Jobs : k \notin ks => pc'[k] = pc[k]
  BY <1>1 DEF TypedRun, Places
<1>3. /\ heard' \in [Jobs -> BOOLEAN]
      /\ \A k \in Jobs : k \in ks => heard'[k] = FALSE
      /\ \A k \in Jobs : k \notin ks => heard'[k] = heard[k]
  BY <1>1 DEF TypedRun
<1> QED BY <1>2, <1>3 DEF TypedRun

\* An execution nobody hears ends.
LEMMA Unheard ==
  ASSUME WorkerInv, NEW j \in Jobs, pc[j] # "none", heard[j] = FALSE, Idle({j}),
         UNCHANGED <<rows, snapshot, declared, disk, result, cause, stranded>>
  PROVE  WorkerInv'
<1>1. Typed /\ StoreOK /\ JobOK(j)
  BY DEF WorkerInv
<1>2. /\ TypedRun' /\ pc'[j] = "none" /\ heard'[j] = FALSE
      /\ \A k \in Jobs : k # j => pc'[k] = pc[k] /\ heard'[k] = heard[k]
  BY <1>1, Idled DEF Typed
<1>3. /\ TypedRequest' /\ exc'[j] = {} /\ answer'[j] = <<NoResponse, FALSE>> /\ muted'[j] = FALSE
      /\ \A k \in Jobs : k # j =>
            /\ resp'[k] = resp[k] /\ exc'[k] = exc[k] /\ paced'[k] = paced[k]
            /\ answer'[k] = answer[k] /\ muted'[k] = muted[k]
  <2>1. Clear({j}) /\ TypedRequest
    BY <1>1 DEF Typed, Idle
  <2>2. /\ TypedRequest'
        /\ \A k \in Jobs : k \in {j} =>
              exc'[k] = {} /\ answer'[k] = <<NoResponse, FALSE>> /\ muted'[k] = FALSE
        /\ \A k \in Jobs : k \notin {j} =>
              /\ resp'[k] = resp[k] /\ exc'[k] = exc[k] /\ paced'[k] = paced[k]
              /\ answer'[k] = answer[k] /\ muted'[k] = muted[k]
    BY <2>1, Cleared
  <2> QED BY <2>2
<1>4. Typed'
  BY <1>1, <1>2, <1>3, RowsTyped, DiskTyped DEF Typed
<1>5. \A k \in Jobs : k # j => Same(k)
  BY <1>2, <1>3 DEF Same, rows, disk
<1>6. /\ queued'[j] = queued[j] /\ archive'[j] = archive[j] /\ category'[j] = category[j]
      /\ cause'[j] = cause[j] /\ declared'[j] = declared[j] /\ file'[j] = file[j]
      /\ auth'[j] = auth[j] /\ stranded'[j] = stranded[j] /\ declared[j] = FALSE
  BY <1>1 DEF rows, disk, JobOK, LifeOK, Typed, TypedDisk
<1>7. LifeOK(j)' /\ RequestOK(j)'
  BY <1>2, <1>3, <1>6, Rested
<1>8. CauseOK(j)'
  BY <1>1, <1>2, <1>6 DEF JobOK, CauseOK
<1>9. j \in Writers => FilesOK(j)'
  BY <1>1, <1>2, <1>6 DEF JobOK, FilesOK
<1> QED BY <1>1, <1>4, <1>5, <1>7, <1>8, <1>9, Kept, StepOfOne DEF JobOK

\* One that is heard ends, with a report or without.
LEMMA Heard ==
  ASSUME WorkerInv, NEW j \in Jobs, heard[j] = TRUE,
         NEW place \in {"reported", "dead", "late"}, pc' = [pc EXCEPT ![j] = place],
         pc[j] \in Working, place = "reported" => pc[j] = "report",
         UNCHANGED <<rows, heard, request, snapshot, declared, disk, result, cause, stranded>>
  PROVE  WorkerInv'
<1>1. Typed /\ StoreOK /\ JobOK(j)
  BY DEF WorkerInv
<1>2. Typed'
  BY <1>1, RowsTyped, RunTyped, RequestTyped, DiskTyped DEF Typed, Places
<1>3. \A k \in Jobs : k # j => Same(k)
  BY <1>1 DEF Same, rows, request, disk, Typed, TypedRun
<1>4. /\ pc'[j] = place /\ heard'[j] = TRUE /\ queued'[j] = queued[j] /\ archive'[j] = archive[j]
      /\ category'[j] = category[j] /\ cause'[j] = cause[j] /\ result'[j] = result[j]
      /\ declared'[j] = declared[j] /\ file'[j] = file[j] /\ auth'[j] = auth[j]
      /\ stranded'[j] = stranded[j] /\ exc'[j] = exc[j] /\ answer'[j] = answer[j]
      /\ muted'[j] = muted[j] /\ paced'[j] = paced[j] /\ resp'[j] = resp[j]
  BY <1>1 DEF rows, request, disk, Typed, TypedRun
<1>5. pc[j] # "none" /\ pc[j] \notin {"settle", "commit"}
  BY DEF Working
<1>6. LifeOK(j)' /\ CauseOK(j)'
  BY <1>1, <1>4, <1>5 DEF JobOK, LifeOK, CauseOK
<1>7. RequestOK(j)'
  <2>1. RequestOK(j) /\ (Limited(j)' <=> Limited(j)) /\ Need(j)' = Need(j)
    BY <1>1, <1>4, RequestSame DEF JobOK
  <2> QED BY <1>4, <2>1 DEF RequestOK
<1>8. j \in Writers => FilesOK(j)'
  BY <1>1, <1>4, <1>5 DEF JobOK, FilesOK
<1> QED BY <1>1, <1>2, <1>3, <1>6, <1>7, <1>8, Kept, StepOfOne DEF JobOK

LEMMA ReportStep == ASSUME WorkerInv, NEW j \in Jobs, Report(j) PROVE WorkerInv'
<1>1. /\ pc[j] = "report" /\ pc[j] \in Working
      /\ UNCHANGED <<rows, snapshot, declared, disk, result, cause, stranded>>
  BY DEF Report, Working
<1>2. heard[j] = TRUE \/ heard[j] = FALSE
  BY DEF WorkerInv, Typed, TypedRun
<1>3. CASE heard[j] = TRUE
  <2>1. pc' = [pc EXCEPT ![j] = "reported"] /\ UNCHANGED <<heard, request>>
    BY <1>3 DEF Report
  <2> QED BY <1>1, <1>3, <2>1, Heard
<1>4. CASE heard[j] = FALSE
  <2>1. Idle({j})
    BY <1>4 DEF Report
  <2> QED BY <1>1, <1>4, <2>1, Unheard
<1> QED BY <1>2, <1>3, <1>4

LEMMA DieStep == ASSUME WorkerInv, NEW j \in Jobs, Die(j) PROVE WorkerInv'
<1>1. /\ pc[j] \in Working /\ pc[j] # "none"
      /\ UNCHANGED <<rows, snapshot, declared, disk, result, cause, stranded>>
  BY DEF Die, Working
<1>2. heard[j] = TRUE \/ heard[j] = FALSE
  BY DEF WorkerInv, Typed, TypedRun
<1>3. CASE heard[j] = TRUE
  <2>1. PICK how \in {"dead", "late"} : pc' = [pc EXCEPT ![j] = how]
    BY <1>3 DEF Die
  <2>2. UNCHANGED <<heard, request>>
    BY <1>3 DEF Die
  <2> QED BY <1>1, <1>3, <2>1, <2>2, Heard
<1>4. CASE heard[j] = FALSE
  <2>1. Idle({j})
    BY <1>4 DEF Die
  <2> QED BY <1>1, <1>4, <2>1, Unheard
<1> QED BY <1>2, <1>3, <1>4

-----------------------------------------------------------------------------
(* The steps of the main process.                                           *)

LEMMA ReportFields ==
  ASSUME NEW e
  PROVE  /\ WorkerReport(e).status \in {"retry", "interrupted", "artifact_error", "fatal", "error"}
         /\ e = {"RetryError", "RateLimitHit"} =>
               WorkerReport(e).status = "retry" /\ WorkerReport(e).kind # "none"
  BY DEF WorkerReport, ClassifyException

\* What a report is decoded as.
LEMMA DecodedReport ==
  ASSUME NEW j \in Jobs, RequestOK(j), pc[j] = "reported", NEW r \in Decoded(j)
  PROVE  /\ r \in Results /\ r.code = "none" /\ r.kind # "none"
         /\ r.kind = "success" => exc[j] = {} /\ r.fatal = FALSE
         /\ Limited(j) => r.kind = "retry" /\ r.transient = TRUE
<1>1. /\ Limited(j) => \E x \in exc[j] : x.cls = {"RetryError", "RateLimitHit"}
      /\ exc[j] = {} \/ \E x \in exc[j] : exc[j] = {x}
  BY DEF RequestOK
<1>2. CASE exc[j] = {}
  <2>1. r \in {[NoResult EXCEPT !.kind = k] : k \in {"success", "failure"}}
    BY <1>2 DEF Decoded
  <2>2. PICK k \in {"success", "failure"} : r = [NoResult EXCEPT !.kind = k]
    BY <2>1
  <2>3. /\ r.kind = k /\ r.code = "none" /\ r.fatal = FALSE /\ r \in Results
    BY <2>2 DEF NoResult, Results
  <2> QED BY <1>1, <1>2, <2>3
<1>3. CASE exc[j] # {}
  <2>1. PICK x \in exc[j] :
           r = CASE WorkerReport(x.cls).status = "retry" ->
                     [NoResult EXCEPT !.kind = "retry",
                                      !.transient = WorkerReport(x.cls).kind # "none"]
                 [] WorkerReport(x.cls).status = "interrupted" ->
                     [NoResult EXCEPT !.kind = "retry", !.transient = TRUE]
                 [] WorkerReport(x.cls).status = "artifact_error" ->
                     [NoResult EXCEPT !.kind = "artifact_error"]
                 [] OTHER -> [NoResult EXCEPT !.kind = "failure",
                                              !.fatal = WorkerReport(x.cls).status = "fatal"]
    BY <1>3 DEF Decoded
  <2>2. PICK b \in BOOLEAN : b = (WorkerReport(x.cls).kind # "none")
    OBVIOUS
  <2>3. PICK f \in BOOLEAN : f = (WorkerReport(x.cls).status = "fatal")
    OBVIOUS
  <2>4. PICK st \in {"retry", "interrupted", "artifact_error", "fatal", "error"} :
           st = WorkerReport(x.cls).status
    BY ReportFields
  <2>5. \/ st = "retry" /\ r = [NoResult EXCEPT !.kind = "retry", !.transient = b]
        \/ st = "interrupted" /\ r = [NoResult EXCEPT !.kind = "retry", !.transient = TRUE]
        \/ st = "artifact_error" /\ r = [NoResult EXCEPT !.kind = "artifact_error"]
        \/ st \in {"fatal", "error"} /\ r = [NoResult EXCEPT !.kind = "failure", !.fatal = f]
    BY <2>1, <2>2, <2>3, <2>4
  <2>6. /\ r \in Results /\ r.code = "none" /\ r.kind \notin {"none", "success"}
        /\ st = "retry" => r.kind = "retry" /\ r.transient = b
    BY <2>5 DEF NoResult, Results
  <2>7. Limited(j) => st = "retry" /\ b = TRUE
    <3>1. ASSUME Limited(j) PROVE x.cls = {"RetryError", "RateLimitHit"}
      BY <1>1, <3>1
    <3> QED BY <2>2, <2>4, <3>1, ReportFields
  <2> QED BY <2>6, <2>7
<1> QED BY <1>2, <1>3

\* What a death without a report is attributed to.
LEMMA AttributedDeath ==
  ASSUME NEW exit \in Exits, NEW timedOut \in BOOLEAN, NEW r, r = Attributed(exit, timedOut)
  PROVE  /\ r \in Results /\ r.code # "none" /\ r.kind \in {"retry", "failure"}
         /\ r.kind = "retry" => CauseOf(r, exit) = "transient_exhausted"
         /\ r.kind = "failure" =>
               r.code = "TIMEOUT" /\ r.fatal = FALSE /\ CauseOf(r, exit) = "fatal"
<1> DEFINE d == ClassifyDeath(exit, timedOut, TimeoutIsTransient)
<1>1. /\ TimeoutIsTransient = TRUE \/ TimeoutIsTransient = FALSE
      /\ timedOut = TRUE \/ timedOut = FALSE
  BY WorkerAssumption
<1>2. /\ timedOut = TRUE /\ TimeoutIsTransient = TRUE =>
            d.retry = TRUE /\ d.code = "TIMEOUT" /\ d.category = "transient_exhausted"
      /\ timedOut = TRUE /\ TimeoutIsTransient = FALSE =>
            d.retry = FALSE /\ d.code = "TIMEOUT" /\ d.category = "fatal"
      /\ timedOut = FALSE =>
            /\ d.retry = TRUE /\ d.code \in {"NO_IPC_RESULT", "PROCESS_CRASH_EXITCODE"}
            /\ d.category = "transient_exhausted"
  BY DEF ClassifyDeath, DeathCode
<1>3. r = [NoResult EXCEPT !.kind = IF d.retry THEN "retry" ELSE "failure", !.code = d.code]
  BY DEF Attributed
<1> HIDE DEF d
<1>4. \/ d.retry = TRUE /\ d.category = "transient_exhausted"
      \/ d.retry = FALSE /\ d.code = "TIMEOUT" /\ d.category = "fatal"
  BY <1>1, <1>2
<1>5. d.code \in {"TIMEOUT", "NO_IPC_RESULT", "PROCESS_CRASH_EXITCODE"}
  BY <1>1, <1>2
<1>6. /\ r.kind = IF d.retry THEN "retry" ELSE "failure"
      /\ r.code = d.code /\ r.fatal = FALSE /\ r \in Results
  BY <1>3, <1>4, <1>5 DEF NoResult, Results
<1>7. (r.code = "TIMEOUT") = timedOut
  BY <1>1, <1>2, <1>6
<1>8. CauseOf(r, exit) = d.category
  BY <1>5, <1>6, <1>7 DEF CauseOf, d
<1> QED BY <1>4, <1>5, <1>6, <1>8

LEMMA ReapStep == ASSUME WorkerInv, NEW j \in Jobs, Reap(j) PROVE WorkerInv'
<1>1. Typed /\ StoreOK /\ JobOK(j)
  BY DEF WorkerInv
<1>2. PICK exit \in Exits :
        \E r \in IF pc[j] = "reported" THEN Decoded(j) ELSE {Attributed(exit, pc[j] = "late")} :
           /\ result' = [result EXCEPT ![j] = r]
           /\ cause' = [cause EXCEPT ![j] = CauseOf(r, exit)]
  BY DEF Reap
<1>3. PICK r \in IF pc[j] = "reported" THEN Decoded(j) ELSE {Attributed(exit, pc[j] = "late")} :
           /\ result' = [result EXCEPT ![j] = r]
           /\ cause' = [cause EXCEPT ![j] = CauseOf(r, exit)]
  BY <1>2
<1>4. /\ pc[j] \in {"reported", "dead", "late"} /\ pc' = [pc EXCEPT ![j] = "settle"]
      /\ UNCHANGED <<rows, heard, request, snapshot, declared, disk, stranded>>
  BY DEF Reap
<1>5. /\ r \in Results /\ r.kind # "none" /\ CauseOf(r, exit) \in Categories
      /\ r.kind = "retry" => CauseOf(r, exit) = "transient_exhausted"
      /\ r.kind = "failure" => CauseOf(r, exit) = FailureCategory(r)
      /\ r.kind = "success" =>
            r.code = "none" /\ r.fatal = FALSE /\ pc[j] = "reported" /\ exc[j] = {}
      /\ r.code = "none" /\ Limited(j) => r.kind = "retry" /\ r.transient = TRUE
  <2>1. CASE pc[j] = "reported"
    <3>1. /\ r \in Results /\ r.code = "none" /\ r.kind # "none"
          /\ r.kind = "success" => exc[j] = {} /\ r.fatal = FALSE
          /\ Limited(j) => r.kind = "retry" /\ r.transient = TRUE
      BY <1>1, <1>3, <2>1, DecodedReport DEF JobOK
    <3>2. /\ CauseOf(r, exit) = IF r.kind = "retry" THEN "transient_exhausted"
                                ELSE IF r.fatal THEN "fatal" ELSE "unknown"
          /\ FailureCategory(r) = IF r.fatal THEN "fatal" ELSE "unknown"
      BY <3>1 DEF CauseOf, FailureCategory, ClassifyCode
    <3> QED BY <2>1, <3>1, <3>2 DEF Categories
  <2>2. CASE pc[j] # "reported"
    <3>1. PICK timedOut \in BOOLEAN : timedOut = (pc[j] = "late")
      OBVIOUS
    <3>2. r = Attributed(exit, timedOut)
      BY <1>3, <2>2, <3>1
    <3>3. /\ r \in Results /\ r.code # "none" /\ r.kind \in {"retry", "failure"}
          /\ r.kind = "retry" => CauseOf(r, exit) = "transient_exhausted"
          /\ r.kind = "failure" =>
                r.code = "TIMEOUT" /\ r.fatal = FALSE /\ CauseOf(r, exit) = "fatal"
      BY <3>2, AttributedDeath
    <3>4. r.kind = "failure" => FailureCategory(r) = "fatal"
      BY <3>3 DEF FailureCategory, ClassifyCode
    <3> QED BY <3>3, <3>4 DEF Categories
  <2> QED BY <2>1, <2>2
<1>6. /\ result'[j] = r /\ cause'[j] = CauseOf(r, exit) /\ pc'[j] = "settle"
      /\ result' \in [Jobs -> Results] /\ cause' \in [Jobs -> Categories \cup {"none"}]
  BY <1>1, <1>3, <1>4, <1>5 DEF Typed, TypedRows, TypedRun, TypedDisk
<1>7. Typed'
  <2>1. TypedRun' /\ TypedRequest'
    BY <1>1, <1>4, RunTyped, RequestTyped DEF Typed, Places
  <2>2. TypedRows'
    BY <1>1, <1>4, <1>6 DEF Typed, TypedRows, rows
  <2>3. TypedDisk'
    BY <1>1, <1>4, <1>6 DEF Typed, TypedDisk, disk
  <2> QED BY <2>1, <2>2, <2>3 DEF Typed
<1>8. \A k \in Jobs : k # j => Same(k)
  BY <1>1, <1>3, <1>4 DEF Same, rows, request, disk, Typed, TypedRun, TypedRows, TypedDisk
<1>9. /\ heard'[j] = heard[j] /\ queued'[j] = queued[j] /\ archive'[j] = archive[j]
      /\ category'[j] = category[j] /\ declared'[j] = declared[j] /\ file'[j] = file[j]
      /\ auth'[j] = auth[j] /\ stranded'[j] = stranded[j] /\ exc'[j] = exc[j]
      /\ answer'[j] = answer[j] /\ muted'[j] = muted[j]
  BY <1>4 DEF rows, request, disk
<1>10. /\ heard[j] = TRUE /\ queued[j] = TRUE
       /\ pc[j] # "none" /\ pc[j] # "commit"
  BY <1>1, <1>4 DEF JobOK, LifeOK
<1>11. LifeOK(j)' /\ CauseOK(j)'
  <2>1. CauseOK(j)'
    BY <1>5, <1>6, <1>9, <1>10 DEF CauseOK, FailureCategory
  <2> QED BY <1>6, <1>9, <1>10, <2>1 DEF LifeOK
<1>12. RequestOK(j)'
  <2>1. Limited(j)' <=> Limited(j)
    BY <1>9 DEF Limited
  <2>2. exc[j] = {} \/ \E x \in exc[j] : exc[j] = {x}
    BY <1>1 DEF JobOK, RequestOK
  <2> QED BY <1>5, <1>6, <1>9, <2>1, <2>2 DEF RequestOK
<1>13. j \in Writers => FilesOK(j)'
  BY <1>1, <1>4, <1>5, <1>6, <1>9, <1>10 DEF JobOK, FilesOK
<1> QED BY <1>1, <1>4, <1>7, <1>8, <1>11, <1>12, <1>13, Kept, StepOfOne DEF JobOK

LEMMA VerifiedResult ==
  ASSUME TypedDisk, NEW j \in Jobs
  PROVE  /\ Verified(j) \in Results /\ Verified(j).code = result[j].code
         /\ Verified(j).fatal = result[j].fatal /\ Verified(j).transient = result[j].transient
         /\ \/ Verified(j) = result[j]
            \/ result[j].kind = "success" /\ Verified(j).kind = "failure"
         /\ Verified(j).kind = "success" /\ declared[j] = TRUE /\ auth[j].success = FALSE =>
               file[j] # "none"
<1>1. result[j] \in Results
  BY DEF TypedDisk
<1>2. CASE result[j].kind = "success" /\ declared[j] /\ ~ auth[j].success /\ file[j] = "none"
  <2>1. Verified(j) = [result[j] EXCEPT !.kind = "failure"]
    BY <1>2 DEF Verified
  <2> QED BY <1>1, <1>2, <2>1 DEF Results
<1>3. CASE ~ (result[j].kind = "success" /\ declared[j] /\ ~ auth[j].success /\ file[j] = "none")
  <2>1. Verified(j) = result[j]
    BY <1>3 DEF Verified
  <2> QED BY <1>1, <1>3, <2>1
<1> QED BY <1>2, <1>3

LEMMA SettleStep == ASSUME WorkerInv, NEW j \in Jobs, Settle(j) PROVE WorkerInv'
<1>1. Typed /\ StoreOK /\ JobOK(j)
  BY DEF WorkerInv
<1>2. PICK r : r = Verified(j)
  OBVIOUS
<1>3. PICK f : f = CleanedUp(j, r)
  OBVIOUS
<1>4. PICK c : c = IF r = result[j] THEN cause[j] ELSE "unknown"
  OBVIOUS
<1>5. /\ pc[j] = "settle" /\ pc' = [pc EXCEPT ![j] = "commit"] /\ result[j].kind # "artifact_error"
      /\ result' = [result EXCEPT ![j] = r] /\ cause' = [cause EXCEPT ![j] = c]
      /\ file' = [file EXCEPT ![j] = f]
      /\ UNCHANGED <<rows, heard, request, snapshot, declared, auth, stranded>>
  BY <1>2, <1>3, <1>4 DEF Settle
<1>6. /\ r \in Results /\ r.code = result[j].code
      /\ r.fatal = result[j].fatal /\ r.transient = result[j].transient
      /\ r = result[j] \/ (result[j].kind = "success" /\ r.kind = "failure")
      /\ r.kind = "success" /\ declared[j] = TRUE /\ auth[j].success = FALSE => file[j] # "none"
  BY <1>1, <1>2, VerifiedResult DEF Typed
<1>7. /\ f \in {"none", file[j]}
      /\ r.kind = "success" /\ auth[j].success = FALSE => f = file[j]
      /\ auth[j].failure = TRUE /\ auth[j].success = TRUE /\ declared[j] = TRUE => f = "none"
  BY <1>3 DEF CleanedUp
<1>8. /\ c \in Categories \cup {"none"} /\ f \in {"none", "foreign", "made"}
      /\ cause[j] \in Categories \cup {"none"}
  BY <1>1, <1>4, <1>7 DEF Typed, TypedRows, TypedDisk, Categories
<1>9. /\ result'[j] = r /\ cause'[j] = c /\ file'[j] = f /\ pc'[j] = "commit"
      /\ result' \in [Jobs -> Results] /\ cause' \in [Jobs -> Categories \cup {"none"}]
      /\ file' \in [Jobs -> {"none", "foreign", "made"}]
  BY <1>1, <1>5, <1>6, <1>8 DEF Typed, TypedRows, TypedRun, TypedDisk
<1>10. Typed'
  <2>1. TypedRun' /\ TypedRequest'
    BY <1>1, <1>5, RunTyped, RequestTyped DEF Typed, Places
  <2>2. TypedRows'
    BY <1>1, <1>5, <1>9 DEF Typed, TypedRows, rows
  <2>3. TypedDisk'
    BY <1>1, <1>5, <1>9 DEF Typed, TypedDisk
  <2> QED BY <2>1, <2>2, <2>3 DEF Typed
<1>11. \A k \in Jobs : k # j => Same(k)
  BY <1>1, <1>5 DEF Same, rows, request, Typed, TypedRun, TypedRows, TypedDisk
<1>12. /\ heard'[j] = heard[j] /\ queued'[j] = queued[j] /\ archive'[j] = archive[j]
       /\ category'[j] = category[j] /\ declared'[j] = declared[j] /\ auth'[j] = auth[j]
       /\ stranded'[j] = stranded[j] /\ exc'[j] = exc[j] /\ answer'[j] = answer[j]
       /\ muted'[j] = muted[j]
  BY <1>5 DEF rows, request
<1>13. heard[j] = TRUE /\ queued[j] = TRUE
  BY <1>1, <1>5 DEF JobOK, LifeOK
<1>14. LifeOK(j)'
  BY <1>9, <1>12, <1>13 DEF LifeOK
<1>15. CauseOK(j)'
  <2>1. /\ result[j].kind \in {"retry", "success", "failure"}
        /\ result[j].kind = "retry" => cause[j] = "transient_exhausted"
        /\ result[j].kind = "failure" => cause[j] = FailureCategory(result[j])
        /\ result[j].kind = "success" => result[j].code = "none" /\ result[j].fatal = FALSE
    BY <1>1, <1>5 DEF JobOK, CauseOK, Typed, TypedDisk, Results
  <2>2. /\ r.kind \in {"retry", "success", "failure"}
        /\ r.kind = "retry" => c = "transient_exhausted"
        /\ r.kind = "failure" => c = FailureCategory(r)
        /\ r.kind = "success" => r.code = "none" /\ r.fatal = FALSE
    BY <1>4, <1>6, <2>1 DEF FailureCategory, ClassifyCode
  <2> QED BY <1>9, <1>12, <1>13, <2>2 DEF CauseOK, FailureCategory
<1>16. RequestOK(j)'
  <2>1. Limited(j)' <=> Limited(j)
    BY <1>12 DEF Limited
  <2>2. /\ exc[j] = {} \/ \E x \in exc[j] : exc[j] = {x}
        /\ result[j].code = "none" /\ Limited(j) =>
              result[j].kind = "retry" /\ result[j].transient = TRUE
    BY <1>1, <1>5 DEF JobOK, RequestOK
  <2> QED BY <1>6, <1>9, <1>12, <2>1, <2>2 DEF RequestOK
<1>17. j \in Writers => FilesOK(j)'
  <2> SUFFICES ASSUME j \in Writers PROVE FilesOK(j)'
    OBVIOUS
  <2>1. /\ declared[j] = TRUE => file[j] # "foreign"
        /\ result[j].kind = "success" => declared[j] = TRUE
        /\ auth[j].failure = TRUE /\ auth[j].success = TRUE /\ stranded[j] = FALSE
           /\ file[j] = "made" => declared[j] = TRUE
    BY <1>1, <1>5 DEF JobOK, FilesOK
  <2>2. /\ declared[j] = TRUE => f # "foreign"
        /\ r.kind = "success" /\ auth[j].success = FALSE => f = "made"
        /\ auth[j].failure = TRUE /\ auth[j].success = TRUE /\ stranded[j] = FALSE => f # "made"
    BY <1>6, <1>7, <1>8, <2>1
  <2> QED BY <1>9, <1>12, <1>13, <2>2 DEF FilesOK
<1> QED BY <1>1, <1>5, <1>10, <1>11, <1>14, <1>15, <1>16, <1>17, Kept, StepOfOne DEF JobOK

\* The row a commit leaves.
LEMMA CommittedRow ==
  ASSUME Typed, NEW j \in Jobs, JobOK(j), Commit(j)
  PROVE  /\ TypedRows'
         /\ \A k \in Jobs : k # j =>
               /\ queued'[k] = queued[k] /\ archive'[k] = archive[k]
               /\ category'[k] = category[k] /\ cause'[k] = cause[k] /\ attempt'[k] = attempt[k]
         /\ cause'[j] = cause[j]
         /\ \/ /\ result[j].kind = "retry" /\ queued'[j] = TRUE /\ archive'[j] = archive[j]
               /\ result[j].transient = TRUE => attempt'[j] = attempt[j]
            \/ /\ queued'[j] = FALSE /\ archive'[j] = "succeeded" /\ result[j].kind = "success"
            \/ /\ queued'[j] = FALSE /\ archive'[j] = "failed" /\ category'[j] = cause[j]
               /\ result[j].kind # "success" /\ (result[j].kind = "retry" => result[j].transient = FALSE)
<1> DEFINE meta == [fatal |-> FALSE, code |-> "MAX_RETRIES_EXCEEDED"]
<1>1. /\ TypedRows /\ cause' = cause /\ queued[j] = TRUE /\ result[j].transient \in BOOLEAN
      /\ result[j].kind \in {"retry", "success", "failure"}
      /\ result[j].kind = "retry" => cause[j] = "transient_exhausted"
      /\ result[j].kind = "failure" => cause[j] = FailureCategory(result[j])
      /\ cause[j] \in Categories \cup {"none"}
  BY DEF Typed, Commit, JobOK, LifeOK, CauseOK, TypedDisk, TypedRows, Results
<1>2. FailureCategory(meta) = "transient_exhausted"
  BY DEF FailureCategory, ClassifyCode
<1> HIDE DEF meta
<1>3. ASSUME NEW m, Archive(j, m), FailureCategory(m) = cause[j]
      PROVE  /\ TypedRows' /\ queued'[j] = FALSE /\ archive'[j] = "failed"
             /\ category'[j] = cause[j]
             /\ \A k \in Jobs : k # j =>
                   /\ queued'[k] = queued[k] /\ archive'[k] = archive[k]
                   /\ category'[k] = category[k] /\ cause'[k] = cause[k]
                   /\ attempt'[k] = attempt[k]
  BY <1>1, <1>3 DEF Archive, TypedRows
<1>4. CASE result[j].kind = "failure"
  <2>1. Archive(j, result[j])
    BY <1>4 DEF Commit
  <2> QED BY <1>1, <1>3, <1>4, <2>1
<1>5. CASE result[j].kind = "success"
  <2>1. ApplySuccess(j)
    BY <1>5 DEF Commit
  <2>2. /\ TypedRows' /\ queued'[j] = FALSE /\ archive'[j] = "succeeded"
        /\ \A k \in Jobs : k # j =>
              /\ queued'[k] = queued[k] /\ archive'[k] = archive[k]
              /\ category'[k] = category[k] /\ cause'[k] = cause[k] /\ attempt'[k] = attempt[k]
    BY <1>1, <2>1 DEF ApplySuccess, TypedRows
  <2> QED BY <1>1, <1>5, <2>2
<1>6. CASE result[j].kind = "retry"
  <2>1. ApplyRetry(j)
    BY <1>6 DEF Commit
  <2>2. CASE result[j].transient = FALSE /\ attempt[j] > MaxRetries
    <3>1. Archive(j, meta)
      BY <2>1, <2>2 DEF ApplyRetry, meta
    <3> QED BY <1>1, <1>2, <1>3, <1>6, <2>2, <3>1
  <2>3. CASE result[j].transient = TRUE \/ ~ (attempt[j] > MaxRetries)
    <3>1. /\ attempt' = [attempt EXCEPT ![j] = IF result[j].transient THEN @ ELSE @ + 1]
          /\ UNCHANGED <<queued, archive, category>>
      BY <2>1, <2>3 DEF ApplyRetry
    <3>2. PICK n : n = IF result[j].transient THEN attempt[j] ELSE attempt[j] + 1
      OBVIOUS
    <3>3. /\ attempt' = [attempt EXCEPT ![j] = n] /\ attempt \in [Jobs -> 1 .. MaxRetries + 1]
          /\ MaxRetries \in Nat
      BY <1>1, <3>1, <3>2, WorkerAssumption DEF TypedRows
    <3>4. /\ n = attempt[j] \/ (n = attempt[j] + 1 /\ ~ (attempt[j] > MaxRetries))
          /\ result[j].transient = TRUE => n = attempt[j]
      BY <1>1, <2>3, <3>2
    <3>5. n \in 1 .. MaxRetries + 1
      <4>1. n = attempt[j] \/ (n = attempt[j] + 1 /\ ~ (attempt[j] > MaxRetries))
        BY <3>4
      <4> QED BY <3>3, <4>1
    <3>6. /\ attempt' \in [Jobs -> 1 .. MaxRetries + 1] /\ attempt'[j] = n
          /\ \A k \in Jobs : k # j => attempt'[k] = attempt[k]
      BY <3>3, <3>5
    <3>7. TypedRows'
      BY <1>1, <3>1, <3>6 DEF TypedRows
    <3> QED BY <1>1, <1>6, <3>1, <3>4, <3>6, <3>7
  <2> QED BY <1>1, <2>2, <2>3
<1> QED BY <1>1, <1>4, <1>5, <1>6

LEMMA CommitStep == ASSUME WorkerInv, NEW j \in Jobs, Commit(j) PROVE WorkerInv'
<1>1. Typed /\ StoreOK /\ JobOK(j)
  BY DEF WorkerInv
<1>2. /\ pc[j] = "commit" /\ result' = [result EXCEPT ![j] = NoResult]
      /\ Idle({j}) /\ Clear({j}) /\ declared' = [declared EXCEPT ![j] = FALSE]
      /\ UNCHANGED <<snapshot, disk, cause, stranded>>
  BY DEF Commit, Idle
<1>3. /\ TypedRun' /\ pc'[j] = "none" /\ heard'[j] = FALSE
      /\ \A k \in Jobs : k # j => pc'[k] = pc[k] /\ heard'[k] = heard[k]
  BY <1>1, <1>2, Idled DEF Typed
<1>4. /\ TypedRequest' /\ exc'[j] = {} /\ answer'[j] = <<NoResponse, FALSE>> /\ muted'[j] = FALSE
      /\ \A k \in Jobs : k # j =>
            /\ resp'[k] = resp[k] /\ exc'[k] = exc[k] /\ paced'[k] = paced[k]
            /\ answer'[k] = answer[k] /\ muted'[k] = muted[k]
  <2>1. TypedRequest
    BY <1>1 DEF Typed
  <2>2. /\ TypedRequest'
        /\ \A k \in Jobs : k \in {j} =>
              exc'[k] = {} /\ answer'[k] = <<NoResponse, FALSE>> /\ muted'[k] = FALSE
        /\ \A k \in Jobs : k \notin {j} =>
              /\ resp'[k] = resp[k] /\ exc'[k] = exc[k] /\ paced'[k] = paced[k]
              /\ answer'[k] = answer[k] /\ muted'[k] = muted[k]
    BY <1>2, <2>1, Cleared
  <2> QED BY <2>2
<1>5. /\ TypedDisk' /\ declared'[j] = FALSE /\ file'[j] = file[j] /\ auth'[j] = auth[j]
      /\ stranded'[j] = stranded[j]
      /\ \A k \in Jobs : k # j => declared'[k] = declared[k] /\ result'[k] = result[k]
  <2>1. NoResult \in Results
    BY DEF NoResult, Results
  <2> QED BY <1>1, <1>2, <2>1 DEF Typed, TypedDisk, disk
<1>6. Typed' /\ \A k \in Jobs : k # j => Same(k)
  BY <1>1, <1>2, <1>3, <1>4, <1>5, CommittedRow DEF Typed, Same, disk
<1>7. LifeOK(j)' /\ RequestOK(j)'
  BY <1>3, <1>4, <1>5, Rested
<1>8. \/ queued'[j] = TRUE
      \/ queued'[j] = FALSE /\ archive'[j] = "succeeded" /\ result[j].kind = "success"
      \/ queued'[j] = FALSE /\ archive'[j] = "failed" /\ category'[j] = cause'[j]
  BY <1>1, CommittedRow
<1>9. CauseOK(j)'
  BY <1>3, <1>8 DEF CauseOK
<1>10. j \in Writers => FilesOK(j)'
  BY <1>1, <1>2, <1>3, <1>5, <1>8 DEF JobOK, FilesOK
<1> QED BY <1>1, <1>2, <1>6, <1>7, <1>9, <1>10, Kept, StepOfOne DEF JobOK

-----------------------------------------------------------------------------
(* The end of a run.                                                        *)

\* What a run leaves of a job's output: as it was, and stranded if an execution was
\* under way; or cleaned up.
Left(k) ==
    \/ stranded'[k] = (stranded[k] \/ pc[k] # "none") /\ file'[k] = file[k]
    \/ /\ pc[k] # "none" /\ pc'[k] = "none" /\ stranded'[k] = stranded[k]
       /\ file'[k] = IF declared[k] = TRUE /\ auth[k].failure = TRUE THEN "none" ELSE file[k]

\* The run under a job is over: its execution goes on unheard, or is over too.
LEMMA Abandoned ==
  ASSUME Typed, NEW k \in Jobs, JobOK(k), heard'[k] = FALSE, declared'[k] = FALSE, Left(k),
         UNCHANGED <<rows, auth, cause>>,
         \/ /\ pc'[k] = "none" /\ exc'[k] = {} /\ answer'[k] = <<NoResponse, FALSE>>
            /\ muted'[k] = FALSE
         \/ /\ pc'[k] = pc[k] /\ pc[k] \in Working \cup {"none"}
            /\ resp'[k] = resp[k] /\ exc'[k] = exc[k] /\ paced'[k] = paced[k]
            /\ answer'[k] = answer[k] /\ muted'[k] = muted[k]
  PROVE  JobOK(k)'
<1>1. /\ queued'[k] = queued[k] /\ archive'[k] = archive[k] /\ category'[k] = category[k]
      /\ cause'[k] = cause[k] /\ auth'[k] = auth[k]
  BY DEF rows
<1>2. pc'[k] \notin {"reported", "dead", "late", "settle", "commit"}
  BY DEF Working
<1>3. pc'[k] = pc[k] \/ pc'[k] = "none"
  OBVIOUS
<1>4. LifeOK(k)'
  BY <1>1, <1>2, <1>3 DEF JobOK, LifeOK
<1>5. CauseOK(k)'
  BY <1>1, <1>2 DEF JobOK, CauseOK
<1>6. RequestOK(k)'
  <2>1. CASE /\ pc'[k] = "none" /\ exc'[k] = {} /\ answer'[k] = <<NoResponse, FALSE>>
             /\ muted'[k] = FALSE
    BY <2>1, Rested
  <2>2. CASE /\ pc'[k] = pc[k] /\ pc[k] \in Working \cup {"none"}
             /\ resp'[k] = resp[k] /\ exc'[k] = exc[k] /\ paced'[k] = paced[k]
             /\ answer'[k] = answer[k] /\ muted'[k] = muted[k]
    <3>1. (Limited(k)' <=> Limited(k)) /\ Need(k)' = Need(k) /\ RequestOK(k)
      BY <2>2, RequestSame DEF JobOK
    <3>2. pc'[k] = "guard" => \E x \in exc'[k] : UnderWay(k, x)'
      BY <2>2, <3>1, UnderWaySame DEF RequestOK
    <3> QED BY <1>2, <2>2, <3>1, <3>2 DEF RequestOK
  <2> QED BY <2>1, <2>2
<1>7. k \in Writers => FilesOK(k)'
  <2> SUFFICES ASSUME k \in Writers PROVE FilesOK(k)'
    OBVIOUS
  <2>1. FilesOK(k) /\ LifeOK(k) /\ stranded[k] \in BOOLEAN /\ heard[k] \in BOOLEAN
    BY DEF JobOK, Typed, TypedDisk, TypedRun
  <2>2. auth[k].failure \in BOOLEAN /\ auth[k].success \in BOOLEAN /\ declared[k] \in BOOLEAN
    BY DEF Typed, TypedDisk
  <2>3. CASE stranded'[k] = (stranded[k] \/ pc[k] # "none") /\ file'[k] = file[k]
    <3>1. /\ pc[k] # "none" => stranded'[k] = TRUE
          /\ pc[k] = "none" => stranded'[k] = stranded[k]
      BY <2>1, <2>3
    <3>2. /\ pc'[k] \in {"lookup", "fetch", "put", "check", "guard", "write"} => file'[k] = "none"
          /\ pc'[k] \in {"report", "reported"} /\ exc'[k] = {} => file'[k] # "foreign"
          /\ archive'[k] = "succeeded" /\ queued'[k] = FALSE /\ auth'[k].success = FALSE =>
                file'[k] = "made"
      BY <1>1, <1>2, <2>1, <2>3 DEF FilesOK
    <3>3. /\ auth'[k].failure = TRUE /\ auth'[k].success = TRUE /\ stranded'[k] = FALSE =>
                file'[k] # "made"
          /\ pc'[k] # "none" => stranded'[k] = TRUE
      BY <1>1, <1>3, <2>1, <2>3, <3>1 DEF FilesOK, LifeOK
    <3> QED BY <1>2, <3>2, <3>3 DEF FilesOK
  <2>4. CASE /\ pc[k] # "none" /\ pc'[k] = "none" /\ stranded'[k] = stranded[k]
             /\ file'[k] = IF declared[k] = TRUE /\ auth[k].failure = TRUE THEN "none" ELSE file[k]
    <3>1. queued'[k] = TRUE
      BY <1>1, <2>1, <2>4 DEF LifeOK
    <3>2. auth'[k].failure = TRUE /\ auth'[k].success = TRUE /\ stranded'[k] = FALSE =>
             file'[k] # "made"
      BY <1>1, <2>1, <2>2, <2>4 DEF FilesOK
    <3> QED BY <2>4, <3>1, <3>2 DEF FilesOK
  <2> QED BY <2>3, <2>4 DEF Left
<1> QED BY <1>4, <1>5, <1>6, <1>7 DEF JobOK

LEMMA Forgotten ==
  ASSUME TypedDisk, NEW cleaned, EndRun(cleaned), UNCHANGED auth
  PROVE  /\ TypedDisk'
         /\ \A k \in Jobs :
               /\ declared'[k] = FALSE
               /\ k \notin cleaned => /\ stranded'[k] = (stranded[k] \/ pc[k] # "none")
                                      /\ file'[k] = file[k]
               /\ k \in cleaned => /\ stranded'[k] = stranded[k]
                                   /\ file'[k] = IF declared[k] = TRUE /\ auth[k].failure = TRUE
                                                 THEN "none" ELSE file[k]
<1>1. NoResult \in Results
  BY DEF NoResult, Results
<1>2. /\ stranded' \in [Jobs -> BOOLEAN] /\ declared' \in [Jobs -> BOOLEAN]
      /\ \A k \in Jobs :
            /\ declared'[k] = FALSE
            /\ stranded'[k] = (stranded[k] \/ (pc[k] # "none" /\ k \notin cleaned))
  BY DEF EndRun
<1>3. result' \in [Jobs -> Results]
  BY <1>1 DEF EndRun
<1>4. /\ stranded \in [Jobs -> BOOLEAN] /\ declared \in [Jobs -> BOOLEAN]
      /\ file \in [Jobs -> {"none", "foreign", "made"}]
      /\ auth \in [Jobs -> [existing: BOOLEAN, failure: BOOLEAN, success: BOOLEAN]]
  BY DEF TypedDisk
<1>5. \A k \in Jobs : declared[k] \in BOOLEAN /\ auth[k].failure \in BOOLEAN /\ stranded[k] \in BOOLEAN
  BY <1>4
<1>6. /\ file' \in [Jobs -> {"none", "foreign", "made"}]
      /\ \A k \in Jobs : file'[k] = IF k \in cleaned /\ declared[k] /\ auth[k].failure
                                    THEN "none" ELSE file[k]
  BY <1>4 DEF EndRun
<1>7. TypedDisk'
  BY <1>2, <1>3, <1>4, <1>6 DEF TypedDisk
<1>8. \A k \in Jobs : k \notin cleaned => /\ stranded'[k] = (stranded[k] \/ pc[k] # "none")
                                          /\ file'[k] = file[k]
  BY <1>2, <1>6
<1>9. \A k \in Jobs : k \in cleaned => stranded'[k] = stranded[k]
  BY <1>2, <1>5
<1>10. \A k \in Jobs : k \in cleaned =>
          file'[k] = IF declared[k] = TRUE /\ auth[k].failure = TRUE THEN "none" ELSE file[k]
  BY <1>5, <1>6
<1> QED BY <1>2, <1>7, <1>8, <1>9, <1>10

LEMMA CrashStep == ASSUME WorkerInv, Crash PROVE WorkerInv'
<1>1. Typed /\ StoreOK /\ \A k \in Jobs : JobOK(k)
  BY DEF WorkerInv
<1> DEFINE over == {k \in Jobs : pc[k] \notin Working}
<1>2. /\ EndRun({}) /\ Clear(over) /\ heard' = [k \in Jobs |-> FALSE]
      /\ pc' = [k \in Jobs |-> IF pc[k] \in Working THEN pc[k] ELSE "none"]
      /\ UNCHANGED <<rows, snapshot, auth, cause>>
  BY DEF Crash
<1>3. /\ TypedDisk'
      /\ \A k \in Jobs : declared'[k] = FALSE /\ Left(k)
  BY <1>1, <1>2, Forgotten DEF Typed, Left
<1>4. /\ TypedRequest'
      /\ \A k \in Jobs : k \in over =>
            exc'[k] = {} /\ answer'[k] = <<NoResponse, FALSE>> /\ muted'[k] = FALSE
      /\ \A k \in Jobs : k \notin over =>
            /\ resp'[k] = resp[k] /\ exc'[k] = exc[k] /\ paced'[k] = paced[k]
            /\ answer'[k] = answer[k] /\ muted'[k] = muted[k]
  <2>1. TypedRequest
    BY <1>1 DEF Typed
  <2> HIDE DEF over
  <2> QED BY <1>2, <2>1, Cleared
<1>5. /\ TypedRun'
      /\ \A k \in Jobs : /\ heard'[k] = FALSE
                         /\ pc'[k] = IF pc[k] \in Working THEN pc[k] ELSE "none"
  BY <1>1, <1>2 DEF Typed, TypedRun, Places
<1>6. Typed' /\ StoreOK'
  BY <1>1, <1>2, <1>3, <1>4, <1>5, RowsTyped, Kept DEF Typed
<1>7. ASSUME NEW k \in Jobs PROVE JobOK(k)'
  <2>1. declared'[k] = FALSE /\ Left(k) /\ heard'[k] = FALSE /\ JobOK(k)
    BY <1>1, <1>3, <1>5
  <2>2. \/ /\ pc'[k] = "none" /\ exc'[k] = {} /\ answer'[k] = <<NoResponse, FALSE>>
           /\ muted'[k] = FALSE
        \/ /\ pc'[k] = pc[k] /\ pc[k] \in Working \cup {"none"}
           /\ resp'[k] = resp[k] /\ exc'[k] = exc[k] /\ paced'[k] = paced[k]
           /\ answer'[k] = answer[k] /\ muted'[k] = muted[k]
    BY <1>4, <1>5
  <2> QED BY <1>1, <1>2, <2>1, <2>2, Abandoned
<1> QED BY <1>6, <1>7 DEF WorkerInv

\* An abort, whatever it is for.
LEMMA CancelStep == ASSUME WorkerInv, Cancel PROVE WorkerInv'
<1>1. Typed /\ StoreOK /\ \A k \in Jobs : JobOK(k)
  BY DEF WorkerInv
<1> DEFINE over == {k \in Jobs : heard[k]}
<1>2. /\ Idle(over) /\ Clear(over)
      /\ UNCHANGED <<rows, snapshot, auth, cause>>
  BY DEF Cancel, Idle
<1>3. PICK cleaned \in SUBSET {k \in Jobs : heard[k] /\ pc[k] \in Working} : EndRun(cleaned)
  BY DEF Cancel
<1>4. /\ TypedRequest'
      /\ \A k \in Jobs : k \in over =>
            exc'[k] = {} /\ answer'[k] = <<NoResponse, FALSE>> /\ muted'[k] = FALSE
      /\ \A k \in Jobs : k \notin over =>
            /\ resp'[k] = resp[k] /\ exc'[k] = exc[k] /\ paced'[k] = paced[k]
            /\ answer'[k] = answer[k] /\ muted'[k] = muted[k]
  <2>1. TypedRequest
    BY <1>1 DEF Typed
  <2> HIDE DEF over
  <2> QED BY <1>2, <2>1, Cleared
<1>5. /\ TypedRun'
      /\ \A k \in Jobs : k \in over => pc'[k] = "none" /\ heard'[k] = FALSE
      /\ \A k \in Jobs : k \notin over => pc'[k] = pc[k] /\ heard'[k] = heard[k]
  <2>1. TypedRun
    BY <1>1 DEF Typed
  <2> HIDE DEF over
  <2> QED BY <1>2, <2>1, Idled
<1>6. /\ TypedDisk'
      /\ \A k \in Jobs : declared'[k] = FALSE /\ Left(k)
  <2>1. \A k \in Jobs : k \in cleaned => pc[k] # "none" /\ pc'[k] = "none"
    BY <1>3, <1>5 DEF Working
  <2> QED BY <1>1, <1>2, <1>3, <2>1, Forgotten DEF Typed, Left
<1>7. Typed' /\ StoreOK'
  BY <1>1, <1>2, <1>4, <1>5, <1>6, RowsTyped, Kept DEF Typed
<1>8. ASSUME NEW k \in Jobs PROVE JobOK(k)'
  <2>1. /\ declared'[k] = FALSE /\ Left(k) /\ JobOK(k)
        /\ heard[k] = TRUE \/ heard[k] = FALSE
    BY <1>1, <1>6 DEF Typed, TypedRun
  <2>2. CASE heard[k] = TRUE
    <3>1. k \in over
      BY <2>2
    <3> QED BY <1>1, <1>2, <1>4, <1>5, <2>1, <3>1, Abandoned
  <2>3. CASE heard[k] = FALSE
    <3>1. k \notin over
      BY <2>3
    <3>2. pc[k] \in Working \cup {"none"}
      BY <1>1, <2>1, <2>3 DEF JobOK, LifeOK, Typed, TypedRun, Places
    <3> QED BY <1>1, <1>2, <1>4, <1>5, <2>1, <2>3, <3>1, <3>2, Abandoned
  <2> QED BY <2>1, <2>2, <2>3
<1> QED BY <1>7, <1>8 DEF WorkerInv

LEMMA NothingStep ==
  ASSUME WorkerInv, UNCHANGED <<rows, pc, heard, request, snapshot, declared, disk, result, cause, stranded>>
  PROVE  WorkerInv'
<1>1. Typed /\ StoreOK /\ \A k \in Jobs : JobOK(k)
  BY DEF WorkerInv
<1>2. Typed' /\ StoreOK'
  <2>1. TypedRun'
    BY <1>1 DEF Typed, TypedRun
  <2> QED BY <1>1, <2>1, RowsTyped, RequestTyped, DiskTyped, Kept DEF Typed
<1>3. \A k \in Jobs : Same(k)
  BY DEF Same, rows, request, disk
<1>4. \A k \in Jobs : JobOK(k)'
  BY <1>1, <1>3, Elsewhere
<1> QED BY <1>2, <1>4 DEF WorkerInv

LEMMA EnqueueStep == ASSUME WorkerInv, NEW j \in Jobs, Enqueue(j) PROVE WorkerInv'
<1>1. Typed /\ StoreOK /\ JobOK(j)
  BY DEF WorkerInv
<1>2. /\ pc[j] = "none" /\ queued' = [queued EXCEPT ![j] = TRUE]
      /\ attempt' = [attempt EXCEPT ![j] = 1]
      /\ UNCHANGED <<archive, category, pc, heard, request, snapshot, declared, disk, result,
                     cause, stranded>>
  BY DEF Enqueue
<1>3. Typed'
  <2>1. attempt' \in [Jobs -> 1 .. MaxRetries + 1]
    <3>1. 1 \in 1 .. MaxRetries + 1
      BY WorkerAssumption
    <3> QED BY <1>1, <1>2, <3>1 DEF Typed, TypedRows
  <2>2. TypedRows'
    BY <1>1, <1>2, <2>1 DEF Typed, TypedRows
  <2>3. TypedRun'
    BY <1>1, <1>2 DEF Typed, TypedRun
  <2> QED BY <1>1, <1>2, <2>2, <2>3, RequestTyped, DiskTyped DEF Typed
<1>4. \A k \in Jobs : k # j => Same(k)
  BY <1>1, <1>2 DEF Same, request, disk, Typed, TypedRows
<1>5. /\ queued'[j] = TRUE /\ pc'[j] = "none" /\ heard'[j] = heard[j] /\ archive'[j] = archive[j]
      /\ declared'[j] = declared[j] /\ file'[j] = file[j] /\ auth'[j] = auth[j]
      /\ stranded'[j] = stranded[j] /\ exc'[j] = exc[j] /\ answer'[j] = answer[j]
      /\ muted'[j] = muted[j]
  BY <1>1, <1>2 DEF request, disk, Typed, TypedRows
<1>6. LifeOK(j)' /\ RequestOK(j)' /\ CauseOK(j)'
  BY <1>1, <1>2, <1>5 DEF JobOK, LifeOK, RequestOK, CauseOK
<1>7. j \in Writers => FilesOK(j)'
  BY <1>1, <1>2, <1>5 DEF JobOK, FilesOK
<1> QED BY <1>1, <1>2, <1>3, <1>4, <1>6, <1>7, Kept, StepOfOne DEF JobOK

LEMMA WorkerStep == WorkerInv /\ [Next]_vars => WorkerInv'
<1> SUFFICES ASSUME WorkerInv, [Next]_vars PROVE WorkerInv'
  OBVIOUS
<1>1. ASSUME NEW j \in Jobs, InWorker(j) PROVE WorkerInv'
  BY <1>1, DeclareStep, LookupStep, FetchStep, PutStep, CheckStep, GuardStep, WriteStep,
     ReportStep DEF InWorker
<1>2. ASSUME NEW j \in Jobs, InMain(j) PROVE WorkerInv'
  BY <1>2, DispatchStep, ReapStep, SettleStep, CommitStep DEF InMain
<1>3. ASSUME NEW j \in Jobs,
             DeclareFaults(j) \/ HandlerRaises(j) \/ Die(j) \/ StopRun(j) \/ Enqueue(j)
      PROVE  WorkerInv'
  BY <1>3, DeclareFaultsStep, HandlerRaisesStep, DieStep, CancelStep, EnqueueStep DEF StopRun
<1>4. CASE Restart
  BY <1>4, NothingStep DEF Restart
<1>5. CASE UNCHANGED vars
  BY <1>5, NothingStep DEF vars
<1>6. CASE AbortRun
  BY <1>6, CancelStep DEF AbortRun
<1> QED BY <1>1, <1>2, <1>3, <1>4, <1>5, <1>6, CrashStep, OthersPutStep DEF Next

LEMMA WorkerInvariant == Spec => []WorkerInv
  BY WorkerInit, WorkerStep, PTL DEF Spec

-----------------------------------------------------------------------------
(* The properties.                                                          *)

\* Every execution goes through the places of the code in order, keeps to its local
\* retries and its row's attempts, and ends with at most one exception; a declaration
\* belongs to an execution the main process hears, and that one to a queued row.
THEOREM WorkerTypes == Spec => []TypeOK
<1>1. WorkerInv => TypeOK
  <2> SUFFICES ASSUME WorkerInv PROVE TypeOK
    OBVIOUS
  <2>1. ASSUME NEW k \in Jobs
        PROVE  /\ exc[k] = {} \/ \E x \in exc[k] : exc[k] = {x}
               /\ pc[k] = "guard" => exc[k] # {}
               /\ declared[k] => heard[k] /\ pc[k] # "none"
               /\ (pc[k] # "none" /\ heard[k]) => queued[k]
    <3>1. LifeOK(k) /\ RequestOK(k)
      BY DEF WorkerInv, JobOK
    <3>2. declared[k] \in BOOLEAN /\ heard[k] \in BOOLEAN /\ queued[k] \in BOOLEAN
      BY DEF WorkerInv, Typed, TypedRows, TypedRun, TypedDisk
    <3> QED BY <3>1, <3>2 DEF LifeOK, RequestOK
  <2>2. TypedRows /\ TypedRun /\ TypedRequest /\ TypedDisk
    BY DEF WorkerInv, Typed
  <2> QED BY <2>1, <2>2 DEF TypeOK, TypedRows, TypedRun, TypedRequest, TypedDisk, Places
<1> QED BY <1>1, WorkerInvariant, PTL

\* Whatever the policy, a transient exception of the request that is not of this try has
\* a status which the snapshot store does not know as transient and was not told to
\* ignore: a 408, 425, 429 or 5xx never comes again (SnapshotStore.cached,
\* HttpExecutor.execute).
THEOREM TransientIsFreshHolds == Spec => []TransientIsFresh
<1>1. WorkerInv => TransientIsFresh
  <2> SUFFICES ASSUME WorkerInv, NEW j \in Jobs, NEW x \in exc[j], pc[j] = "guard", ~ answer[j][2]
               PROVE  resp[j][1] < 500 /\ resp[j][1] \notin {408, 425, 429} \cup IgnoreStatuses
    BY DEF TransientIsFresh
  <2>1. PICK y \in exc[j] : UnderWay(j, y)
    BY DEF WorkerInv, JobOK, RequestOK
  <2>2. Storable(resp[j][1])
    BY <2>1 DEF UnderWay
  <2> QED BY <2>2 DEF Storable
<1> QED BY <1>1, WorkerInvariant, PTL

\* Whatever the policy, when a rate limit reaches the worker entry the worker has asked
\* for the resource to be suspended for as long as the answer in hand says, whichever
\* guard did it (http_guard.__exit__).
THEOREM ServerPaceKeptHolds == Spec => []ServerPaceKept
<1>1. WorkerInv => ServerPaceKept
  <2> SUFFICES ASSUME WorkerInv, NEW j \in Jobs, NEW x \in exc[j],
                      pc[j] = "report", "RateLimitHit" \in x.cls
               PROVE  paced[j] >= IF muted[j] THEN DefaultTtl ELSE Ttl(Asked(j))
    BY DEF ServerPaceKept
  <2>1. paced[j] >= Need(j)
    BY DEF WorkerInv, JobOK, RequestOK
  <2> QED BY <2>1 DEF Need
<1> QED BY <1>1, WorkerInvariant, PTL

\* The category a failure is archived under is that of what ended the job, for every
\* order of deaths, time-outs, retries and reruns (errorclass.py, _build_terminal_failure).
THEOREM CategoryAgreesHolds == Spec => []CategoryAgrees
<1>1. WorkerInv => CategoryAgrees
  <2> SUFFICES ASSUME WorkerInv, NEW j \in Jobs, archive[j] = "failed", ~ queued[j]
               PROVE  category[j] = cause[j]
    BY DEF CategoryAgrees
  <2>1. queued[j] = FALSE
    BY DEF WorkerInv, Typed, TypedRows
  <2> QED BY <2>1 DEF WorkerInv, JobOK, CauseOK
<1> QED BY <1>1, WorkerInvariant, PTL

\* After a commit a published output is there and a cache is not, for every order of
\* crashes and reruns (verify_artifacts, cleanup_declared_artifacts).
THEOREM OutputsKeptHolds == Spec => []OutputsKept
<1>1. WorkerInv => OutputsKept
  <2> SUFFICES ASSUME WorkerInv, NEW j \in Writers
               PROVE  /\ archive[j] = "succeeded" /\ ~ queued[j] /\ ~ auth[j].success =>
                            file[j] = "made"
                      /\ ~ queued[j] /\ archive[j] # "none" /\ IsCache(j) /\ ~ stranded[j] =>
                            file[j] # "made"
    BY DEF OutputsKept, PublishedExists, CacheGone
  <2>1. j \in Jobs
    BY WorkerAssumption
  <2>2. /\ queued[j] \in BOOLEAN /\ auth[j].success \in BOOLEAN /\ auth[j].failure \in BOOLEAN
        /\ stranded[j] \in BOOLEAN
    BY <2>1 DEF WorkerInv, Typed, TypedRows, TypedDisk
  <2>3. LifeOK(j) /\ FilesOK(j)
    BY <2>1 DEF WorkerInv, JobOK
  <2>4. archive[j] = "succeeded" /\ ~ queued[j] /\ ~ auth[j].success => file[j] = "made"
    BY <2>2, <2>3 DEF FilesOK
  <2>5. ~ queued[j] /\ IsCache(j) /\ ~ stranded[j] => file[j] # "made"
    BY <2>2, <2>3 DEF LifeOK, FilesOK, IsCache
  <2> QED BY <2>4, <2>5
<1> QED BY <1>1, WorkerInvariant, PTL

\* A rate limit that the worker could report costs no attempt and ends no job (guard,
\* worker entry, decoding and _apply_retry together).
THEOREM RateLimitIsFreeHolds == Spec => RateLimitIsFree
<1> DEFINE Costs(j) == attempt'[j] > attempt[j] \/ (queued[j] /\ ~ queued'[j])
<1>1. ASSUME WorkerInv, [Next]_vars, NEW j \in Jobs, Costs(j), result[j].code = "none",
             result[j].kind # "success"
      PROVE  ~ (answer[j][2] /\ ClassifyStatus(answer[j][1][1]) = "RateLimitHit")
  <2>1. Typed /\ JobOK(j)
    BY <1>1 DEF WorkerInv
  <2>2. attempt[j] \in Nat /\ attempt[j] > 0 /\ queued[j] \in BOOLEAN
    <3>1. attempt[j] \in 1 .. MaxRetries + 1
      BY <2>1 DEF Typed, TypedRows
    <3>2. queued[j] \in BOOLEAN
      BY <2>1 DEF Typed, TypedRows
    <3> QED BY <3>1, <3>2, WorkerAssumption
  <2>3. ~ (attempt'[j] = attempt[j] /\ queued'[j] = queued[j])
    BY <1>1, <2>2
  <2>4. ~ UNCHANGED <<queued, attempt>>
    BY <2>3
  <2>5. Commit(j)
    <3>1. \E k \in Jobs : Commit(k) \/ Enqueue(k)
      BY <1>1, <2>4 DEF Next, vars, rows, InWorker, InMain, Declare, Lookup, Fetch, Put, Check,
         Guard, Write, Report, Dispatch, Reap, Settle, DeclareFaults, HandlerRaises, Die,
         StopRun, AbortRun, Cancel, Crash, Restart, OthersPut
    <3>2. PICK k \in Jobs : Commit(k) \/ Enqueue(k)
      BY <3>1
    <3>3. k = j
      <4>1. ASSUME Commit(k), k # j PROVE FALSE
        BY <1>1, <2>1, <2>3, <4>1, CommittedRow DEF WorkerInv
      <4>2. ASSUME Enqueue(k), k # j PROVE FALSE
        BY <2>1, <2>3, <4>2 DEF Enqueue, Typed, TypedRows
      <4> QED BY <3>2, <4>1, <4>2
    <3>4. ~ Enqueue(j)
      <4> SUFFICES ASSUME Enqueue(j) PROVE FALSE
        OBVIOUS
      <4>1. ~ queued[j] /\ attempt'[j] = 1
        BY <2>1 DEF Enqueue, Typed, TypedRows
      <4>2. attempt'[j] > attempt[j]
        BY <1>1, <4>1
      <4> QED BY <2>2, <4>1, <4>2
    <3> QED BY <3>2, <3>3, <3>4
  <2>6. SUFFICES ASSUME Limited(j) PROVE FALSE
    <3>1. answer[j][2] \in BOOLEAN
      BY <2>1 DEF Typed, TypedRequest, Answers
    <3> QED BY <3>1 DEF Limited
  <2>7. result[j].kind = "retry" /\ result[j].transient = TRUE
    BY <1>1, <2>1, <2>5, <2>6 DEF Commit, JobOK, RequestOK
  <2>8. queued'[j] = TRUE /\ attempt'[j] = attempt[j]
    BY <2>1, <2>5, <2>7, CommittedRow
  <2>9. queued[j] = TRUE
    BY <2>1, <2>5 DEF Commit, JobOK, LifeOK
  <2> QED BY <2>3, <2>8, <2>9
<1>2. WorkerInv /\ [Next]_vars =>
         [\A j \in Jobs :
             (attempt'[j] > attempt[j] \/ (queued[j] /\ ~ queued'[j]))
             /\ result[j].code = "none" /\ result[j].kind # "success"
                => ~ (answer[j][2] /\ ClassifyStatus(answer[j][1][1]) = "RateLimitHit")]_vars
  BY <1>1
<1> QED BY <1>2, WorkerInvariant, PTL DEF Spec, RateLimitIsFree

\* What lay at an output path before is removed under delete_existing only, by no
\* cleanup, retry or rerun (record_artifact, cleanup_declared_artifacts).
THEOREM ForeignKeptHolds == Spec => ForeignKept
<1>1. ASSUME WorkerInv, [Next]_vars, NEW j \in Writers, file[j] = "foreign", file'[j] # "foreign"
      PROVE  auth[j].existing
  <2>1. j \in Jobs /\ Typed /\ JobOK(j) /\ FilesOK(j) /\ file[j] # "none"
    BY <1>1, WorkerAssumption DEF WorkerInv, JobOK
  <2>0. (\E k \in Jobs : Declare(k) \/ Write(k) \/ Settle(k)) \/ \E cleaned : EndRun(cleaned)
    BY <1>1 DEF Next, vars, disk, InWorker, InMain, Lookup, Fetch, Put, Check,
       Guard, Report, Dispatch, Reap, Commit, DeclareFaults, HandlerRaises, Die,
       StopRun, AbortRun, Cancel, Enqueue, Crash, Restart, OthersPut
  <2>6. ASSUME NEW cleaned, EndRun(cleaned) PROVE FALSE
    <3>1. file'[j] = IF j \in cleaned /\ declared[j] /\ auth[j].failure THEN "none" ELSE file[j]
      BY <2>1, <2>6 DEF EndRun
    <3>2. declared[j] = TRUE
      BY <1>1, <2>1, <3>1 DEF Typed, TypedDisk
    <3> QED BY <1>1, <2>1, <3>2 DEF FilesOK
  <2>2. PICK k \in Jobs : Declare(k) \/ Write(k) \/ Settle(k)
    BY <2>0, <2>6
  <2>3. CASE Declare(k)
    <3>1. /\ ~ (file[k] # "none" /\ ~ auth[k].existing) /\ file' = [file EXCEPT ![k] = "none"]
      BY <1>1, <2>3 DEF Declare
    <3>2. k = j
      BY <1>1, <2>1, <3>1 DEF Typed, TypedDisk
    <3> QED BY <2>1, <3>1, <3>2
  <2>4. CASE Write(k)
    <3>1. k \in Writers /\ pc[k] = "write" /\ \E made \in {"made", "none"} : file' = [file EXCEPT ![k] = made]
      BY <1>1, <2>4 DEF Write
    <3>2. k = j
      BY <1>1, <2>1, <3>1 DEF Typed, TypedDisk
    <3> QED BY <2>1, <3>1, <3>2 DEF FilesOK
  <2>5. CASE Settle(k)
    <3>1. file' = [file EXCEPT ![k] = CleanedUp(k, Verified(k))]
      BY <2>5 DEF Settle
    <3>2. k = j
      BY <1>1, <2>1, <3>1 DEF Typed, TypedDisk
    <3>3. file'[j] = CleanedUp(j, Verified(j)) /\ declared[j] \in BOOLEAN
      BY <2>1, <3>1, <3>2 DEF Typed, TypedDisk
    <3>4. declared[j] = TRUE
      BY <1>1, <3>3 DEF CleanedUp
    <3> QED BY <1>1, <2>1, <3>4 DEF FilesOK
  <2> QED BY <2>2, <2>3, <2>4, <2>5
<1>2. WorkerInv /\ [Next]_vars =>
         [\A j \in Writers : file[j] = "foreign" /\ file'[j] # "foreign" => auth[j].existing]_vars
  BY <1>1
<1> QED BY <1>2, WorkerInvariant, PTL DEF Spec, ForeignKept
=============================================================================
