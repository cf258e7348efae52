----------------------------- MODULE PipeProofs -----------------------------
(***************************************************************************)
(* The pipe delivers in order and loses at most one frame, for every       *)
(* capacity of the queue, every buffer and any number of frames.           *)
(***************************************************************************)
EXTENDS Pipe, FiniteSetTheorems, TLAPS

-----------------------------------------------------------------------------
(* The inductive invariant.                                                 *)

\* How many frames the reader thread has received, and how many it has queued.
ReadCount == sent - Len(wire)
PutCount == IF reader = "putting" /\ item # Fault THEN ReadCount - 1 ELSE ReadCount

\* The items of the stream: its frames and the OSError of a frame cut short.
Load == sent + (IF cut THEN 1 ELSE 0)
Reading == reader \in {"polling", "putting", "blocked"}
Ended == reader \in {"ending", "eof", "full", "done"}
InQueue == {queue[i] : i \in DOMAIN queue}

\* Queued once, and neither taken nor in the queue.
Missing == (1..PutCount) \ (Taken \cup InQueue)
AtMostOne(S) == \A a, b \in S : a = b

\* The operating system's pipe holds the last frames sent, in order; a worker that lives
\* has cut none short.
WireOK ==
    /\ Len(wire) <= sent /\ \A i \in DOMAIN wire : wire[i] = ReadCount + i
    /\ writer = "open" => cut = FALSE

ReaderOK ==
    /\ reader = "putting" => \/ item = Fault /\ wire = <<>> /\ writer = "closed" /\ cut = TRUE
                             \/ item # Fault /\ item >= 1 /\ item = ReadCount
    /\ reader = "blocked" => wire = <<>> /\ writer # "open" /\ cut = TRUE
    /\ Ended => wire = <<>> /\ writer = "closed"
    /\ eof = TRUE => reader \in {"eof", "full", "done"}

\* What the queue holds: frames, the OSError once nothing follows it, _PIPE_EOF last.
Items ==
    \A i \in DOMAIN queue : \/ queue[i] \in 1..PutCount
                            \/ queue[i] = Fault /\ Ended
                            \/ queue[i] = Eof /\ i = Len(queue) /\ reader = "done"

\* The frames taken, and then those in the queue, ascend.
Ascending ==
    /\ \A i, j \in DOMAIN queue : i < j /\ queue[j] # Eof => queue[i] < queue[j]
    /\ \A i \in DOMAIN got : got[i] <= PutCount
    /\ \A i \in DOMAIN got, j \in DOMAIN queue : queue[j] # Eof => got[i] < queue[j]

Lengths ==
    /\ Reading => Len(queue) <= PutCount
    /\ reader \in {"ending", "eof", "full"} => Len(queue) <= Load

QueueOK == Items /\ Ascending /\ Lengths

\* A frame is lost only to make room for _PIPE_EOF, in a queue that was full, and then
\* there is room.
NoneYet == Reading \/ reader \in {"ending", "full"} => Missing = {}
WasFull == reader = "full" => Load >= Capacity
RoomMade == reader = "eof" => Missing = {} \/ Len(queue) < Capacity
FewMissing == AtMostOne(Missing) /\ (Load < Capacity => Missing = {})

LossOK == NoneYet /\ WasFull /\ RoomMade /\ FewMissing

MainOK ==
    /\ stopped = TRUE <=> main \in {"closing", "closed", "close_failed"}
    /\ main \in {"last", "drained"} => eof = TRUE
    /\ main = "drained" => \A i \in DOMAIN queue : queue[i] = Eof

PipeInv ==
    /\ TypeOK /\ InOrder /\ WireOK /\ MainOK
    /\ stopped = FALSE => ReaderOK /\ QueueOK /\ LossOK

-----------------------------------------------------------------------------
(* Sequences and numbers.                                                   *)

LEMMA Shortened ==
  ASSUME NEW S, NEW q \in Seq(S), q # <<>>
  PROVE  /\ Head(q) \in S /\ Tail(q) \in Seq(S) /\ Len(Tail(q)) = Len(q) - 1 /\ Len(q) >= 1
         /\ 1 \in DOMAIN q /\ Head(q) = q[1] /\ Len(q) \in Nat
         /\ DOMAIN Tail(q) = 1..(Len(q) - 1)
         /\ \A i \in DOMAIN Tail(q) : i + 1 \in DOMAIN q /\ Tail(q)[i] = q[i + 1]
         /\ \A i \in DOMAIN q : i # 1 => i - 1 \in DOMAIN Tail(q) /\ Tail(q)[i - 1] = q[i]
  OBVIOUS

LEMMA Lengthened ==
  ASSUME NEW S, NEW q \in Seq(S), NEW e \in S
  PROVE  /\ Append(q, e) \in Seq(S) /\ Len(Append(q, e)) = Len(q) + 1 /\ Len(q) \in Nat
         /\ DOMAIN q = 1..Len(q)
         /\ DOMAIN Append(q, e) = DOMAIN q \cup {Len(q) + 1} /\ Len(q) + 1 \notin DOMAIN q
         /\ Append(q, e)[Len(q) + 1] = e
         /\ \A i \in DOMAIN q : Append(q, e)[i] = q[i]
  OBVIOUS

LEMMA Numbers ==
  ASSUME TypeOK, WireOK
  PROVE  /\ sent \in Nat /\ sent <= MaxMessages /\ Len(wire) \in Nat /\ MaxMessages \in Nat
         /\ ReadCount \in Nat /\ ReadCount <= sent /\ Fault = MaxMessages + 1 /\ Fault \in Nat
         /\ item \in Nat /\ Capacity \in Nat /\ Capacity >= 1
  BY PipeAssumption DEF TypeOK, WireOK, ReadCount, Fault

LEMMA Counts ==
  ASSUME TypeOK, WireOK, ReaderOK
  PROVE  PutCount \in Nat /\ PutCount <= ReadCount /\ PutCount <= sent
  BY Numbers DEF ReaderOK, PutCount

\* The flags are truth values.
LEMMA StopFlag == ASSUME TypeOK PROVE stopped = TRUE \/ stopped = FALSE
  BY DEF TypeOK

-----------------------------------------------------------------------------
(* The steps that leave the queue and the frames taken alone.               *)

\* The wire, the writer or the main thread may move, or the reader thread towards its
\* end: nothing changes in the accounts.
LEMMA QueueKept ==
  ASSUME Items, Ascending, UNCHANGED <<queue, got>>, PutCount' = PutCount,
         Ended => Ended', reader = "done" => reader' = "done"
  PROVE  Items' /\ Ascending'
<1>1. queue' = queue /\ got' = got
  OBVIOUS
<1>2. Ascending'
  BY <1>1 DEF Ascending, Eof
<1>3. Items'
  <2>1. \A i \in DOMAIN queue : \/ queue[i] \in 1..PutCount'
                                \/ queue[i] = Fault /\ Ended'
                                \/ queue[i] = Eof /\ i = Len(queue) /\ reader' = "done"
    BY Zenon DEF Items
  <2> QED BY <1>1, <2>1, Zenon DEF Items, Fault, Eof
<1> QED BY <1>2, <1>3

LEMMA MissingKept == ASSUME UNCHANGED <<queue, got>>, PutCount' = PutCount PROVE Missing' = Missing
  BY DEF Missing, Taken, InQueue

LEMMA Loads == ASSUME sent \in Nat PROVE Load \in Nat
  BY DEF Load

LEMMA AccountsKept ==
  ASSUME QueueOK, LossOK, UNCHANGED <<queue, got>>, PutCount' = PutCount,
         Load' >= Load, Load \in Nat, Load' \in Nat,
         PutCount \in Nat, Len(queue) \in Nat, Capacity \in Nat,
         UNCHANGED reader
  PROVE  QueueOK' /\ LossOK'
<1>1. Missing' = Missing
  BY MissingKept
<1>2. Items' /\ Ascending'
  BY QueueKept DEF QueueOK, Ended
<1>3. Lengths'
  <2>1. Lengths
    BY DEF QueueOK
  <2> QED BY <2>1 DEF Lengths, Reading
<1>4. NoneYet' /\ RoomMade'
  BY <1>1 DEF LossOK, NoneYet, RoomMade, Reading
<1>5. WasFull'
  <2>1. WasFull
    BY DEF LossOK
  <2> QED BY <2>1 DEF WasFull
<1>6. FewMissing'
  <2>1. FewMissing
    BY DEF LossOK
  <2>2. Load' < Capacity => Missing = {}
    BY <2>1 DEF FewMissing
  <2> QED BY <1>1, <2>1, <2>2 DEF FewMissing, AtMostOne
<1> QED BY <1>2, <1>3, <1>4, <1>5, <1>6 DEF QueueOK, LossOK

LEMMA PipeInit == Init => PipeInv
<1> SUFFICES ASSUME Init PROVE PipeInv
  OBVIOUS
<1> USE PipeAssumption
<1>1. TypeOK
  <2>1. cut \in BOOLEAN /\ eof \in BOOLEAN /\ stopped \in BOOLEAN
    BY DEF Init
  <2> QED BY <2>1 DEF Init, TypeOK, Eof, Fault
<1>2. InOrder /\ WireOK
  <2>1. cut = FALSE
    BY DEF Init
  <2> QED BY <2>1 DEF Init, InOrder, WireOK
<1>3. MainOK
  <2>1. stopped # TRUE /\ main = "idle"
    BY DEF Init
  <2> QED BY <2>1 DEF MainOK
<1>4. ReaderOK
  <2>1. eof # TRUE
    BY DEF Init
  <2> QED BY <2>1 DEF Init, ReaderOK, Ended
<1>5. PutCount = 0
  <2>1. ReadCount = 0 /\ reader # "putting"
    <3>1. sent = 0 /\ Len(wire) = 0 /\ reader = "polling"
      BY DEF Init
    <3> QED BY <3>1 DEF ReadCount
  <2> QED BY <2>1 DEF PutCount
<1>6. Load \in Nat
  BY Loads DEF Init
<1>7. QueueOK
  BY <1>5 DEF Init, QueueOK, Items, Ascending, Lengths, Reading
<1>8. Missing = {}
  BY <1>5 DEF Missing
<1>9. LossOK
  BY <1>8 DEF Init, LossOK, NoneYet, WasFull, RoomMade, FewMissing, AtMostOne
<1> QED BY <1>1, <1>2, <1>3, <1>4, <1>7, <1>9 DEF PipeInv

LEMMA SendStep == ASSUME PipeInv, Send PROVE PipeInv'
<1>1. /\ writer = "open" /\ sent < MaxMessages /\ Len(wire) < Buffer
      /\ sent' = sent + 1 /\ wire' = Append(wire, sent + 1)
      /\ UNCHANGED <<writer, cut, reader, item, queue, eof, stopped, main, got>>
  BY DEF Send
<1>2. TypeOK /\ WireOK /\ MainOK /\ InOrder
  BY DEF PipeInv
<1>3. sent \in Nat /\ sent + 1 \in Messages /\ wire \in Seq(Messages)
  BY <1>1, <1>2, Numbers DEF TypeOK, Messages
<1>4. /\ wire' \in Seq(Messages) /\ Len(wire') = Len(wire) + 1 /\ Len(wire) \in Nat
      /\ DOMAIN wire' = DOMAIN wire \cup {Len(wire) + 1}
      /\ wire'[Len(wire) + 1] = sent + 1
      /\ \A i \in DOMAIN wire : wire'[i] = wire[i] /\ i \in Nat
  BY <1>1, <1>3, Lengthened
<1>5. TypeOK'
  BY <1>1, <1>2, <1>3, <1>4, PipeAssumption DEF TypeOK, Messages
<1>6. ReadCount' = ReadCount /\ ReadCount \in Nat
  BY <1>1, <1>2, <1>4, Numbers DEF ReadCount
<1>7. WireOK'
  <2>1. Len(wire') <= sent'
    BY <1>1, <1>2, <1>3, <1>4 DEF WireOK
  <2>2. ReadCount + (Len(wire) + 1) = sent + 1
    BY <1>3, <1>4 DEF ReadCount
  <2>3. \A i \in DOMAIN wire' : wire'[i] = ReadCount + i
    BY <1>2, <1>4, <2>2 DEF WireOK
  <2>4. writer' = "open" => cut' = FALSE
    BY <1>1, <1>2 DEF WireOK
  <2> QED BY <1>6, <2>1, <2>3, <2>4 DEF WireOK
<1>8. InOrder' /\ MainOK'
  BY <1>1, <1>2 DEF InOrder, MainOK
<1>9. ASSUME stopped' = FALSE PROVE ReaderOK' /\ QueueOK' /\ LossOK'
  <2>1. ReaderOK /\ QueueOK /\ LossOK
    BY <1>1, <1>9 DEF PipeInv
  <2>2. ReaderOK'
    BY <1>1, <1>6, <2>1 DEF ReaderOK, Ended, Fault
  <2>3. PutCount' = PutCount /\ PutCount \in Nat
    BY <1>1, <1>2, <1>6, <2>1, Counts DEF PutCount, Fault
  <2>4. Load' >= Load /\ Load \in Nat /\ Load' \in Nat
    BY <1>1, <1>3 DEF Load
  <2>5. Len(queue) \in Nat /\ Capacity \in Nat
    BY <1>2, Numbers DEF TypeOK
  <2> QED BY <1>1, <1>3, <2>1, <2>2, <2>3, <2>4, <2>5, AccountsKept
<1> QED BY <1>5, <1>7, <1>8, <1>9 DEF PipeInv

\* The write end is let go, or the main thread moves on: the reader thread and the
\* queue stay as they are.
LEMMA OutsideStep ==
  ASSUME PipeInv, UNCHANGED <<sent, wire, reader, item, queue, eof, stopped, got>>,
         writer' \in {"open", "held", "closed"},
         cut' \in BOOLEAN, main' \in {"idle", "draining", "last", "drained", "gave_up",
                                     "closing", "closed", "close_failed"},
         writer # "open" => writer' # "open" /\ cut' = cut,
         writer' = "open" => cut' = cut,
         writer = "closed" => writer' = "closed",
         MainOK'
  PROVE  PipeInv'
<1>1. /\ sent' = sent /\ wire' = wire /\ reader' = reader /\ item' = item /\ queue' = queue
      /\ eof' = eof /\ stopped' = stopped /\ got' = got
  OBVIOUS
<1>2. TypeOK /\ WireOK /\ InOrder
  BY DEF PipeInv
<1>3. TypeOK' /\ InOrder'
  BY <1>1, <1>2 DEF TypeOK, InOrder, Fault, Messages
<1>4. ReadCount' = ReadCount /\ PutCount' = PutCount
  BY <1>1 DEF ReadCount, PutCount, Fault
<1>5. WireOK'
  <2>1. writer' = "open" => cut' = FALSE
    BY <1>2 DEF WireOK
  <2> QED BY <1>1, <1>2, <1>4, <2>1 DEF WireOK
<1>6. ASSUME stopped' = FALSE PROVE ReaderOK' /\ QueueOK' /\ LossOK'
  <2>1. ReaderOK /\ QueueOK /\ LossOK
    BY <1>1, <1>6 DEF PipeInv
  <2>2. ReaderOK'
    <3>1. reader' = "putting" =>
             \/ item' = Fault' /\ wire' = <<>> /\ writer' = "closed" /\ cut' = TRUE
             \/ item' # Fault' /\ item' >= 1 /\ item' = ReadCount'
      BY <1>1, <1>4, <2>1 DEF ReaderOK, Fault
    <3>2. reader' = "blocked" => wire' = <<>> /\ writer' # "open" /\ cut' = TRUE
      BY <1>1, <2>1 DEF ReaderOK
    <3>3. Ended' => wire' = <<>> /\ writer' = "closed"
      BY <1>1, <2>1 DEF ReaderOK, Ended
    <3>4. eof' = TRUE => reader' \in {"eof", "full", "done"}
      BY <1>1, <2>1 DEF ReaderOK
    <3> QED BY <3>1, <3>2, <3>3, <3>4 DEF ReaderOK
  <2>3. Load' >= Load /\ Load \in Nat /\ Load' \in Nat
    <3>1. sent \in Nat
      BY <1>2, Numbers
    <3>2. cut = FALSE \/ cut' = cut
      BY <1>2 DEF WireOK
    <3> QED BY <1>1, <3>1, <3>2 DEF Load
  <2>4. Len(queue) \in Nat /\ Capacity \in Nat /\ PutCount \in Nat
    BY <1>2, <2>1, Numbers, Counts DEF TypeOK
  <2> QED BY <1>1, <1>4, <2>1, <2>2, <2>3, <2>4, AccountsKept
<1> QED BY <1>3, <1>5, <1>6 DEF PipeInv

LEMMA DiesKeeps ==
  ASSUME Dies, TypeOK
  PROVE  writer' \in {"held", "closed"} /\ cut' \in BOOLEAN
  BY DEF Dies

LEMMA WorkerExitsStep == ASSUME PipeInv, WorkerExits PROVE PipeInv'
<1>1. TypeOK /\ MainOK
  BY DEF PipeInv
<1>2. writer' \in {"held", "closed"} /\ cut' \in BOOLEAN /\ writer = "open"
  BY <1>1, DiesKeeps DEF WorkerExits
<1>3. UNCHANGED <<sent, wire, reader, item, queue, eof, stopped, main, got>>
  BY DEF WorkerExits
<1>4. MainOK'
  BY <1>1, <1>3 DEF MainOK, Eof
<1> QED BY <1>1, <1>2, <1>3, <1>4, OutsideStep DEF TypeOK

LEMMA HolderExitsStep == ASSUME PipeInv, HolderExits PROVE PipeInv'
<1>1. TypeOK /\ MainOK
  BY DEF PipeInv
<1>2. writer = "held" /\ writer' = "closed" /\ cut' = cut
  BY DEF HolderExits
<1>3. UNCHANGED <<sent, wire, reader, item, queue, eof, stopped, main, got>>
  BY DEF HolderExits
<1>4. MainOK'
  BY <1>1, <1>3 DEF MainOK, Eof
<1> QED BY <1>1, <1>2, <1>3, <1>4, OutsideStep DEF TypeOK

\* The moves of the main thread alone.
LEMMA StartDrainStep == ASSUME PipeInv, StartDrain PROVE PipeInv'
<1>1. TypeOK /\ MainOK
  BY DEF PipeInv
<1>2. /\ main = "idle" /\ main' = "draining"
      /\ UNCHANGED <<sent, wire, reader, item, queue, eof, stopped, got>>
  BY DEF StartDrain
<1>3. \/ writer = "open" /\ writer' \in {"held", "closed"} /\ cut' \in BOOLEAN
      \/ writer # "open" /\ writer' = writer /\ cut' = cut
  BY <1>1, DiesKeeps DEF StartDrain
<1>4. MainOK'
  BY <1>1, <1>2 DEF MainOK, Eof
<1>5. writer \in {"open", "held", "closed"} /\ cut \in BOOLEAN
  BY <1>1 DEF TypeOK
<1> QED BY <1>2, <1>3, <1>4, <1>5, OutsideStep

LEMMA MainStep == ASSUME PipeInv, SeeEof \/ LastPass \/ DrainTimesOut \/ Join PROVE PipeInv'
<1>1. TypeOK /\ MainOK
  BY DEF PipeInv
<1>2. UNCHANGED <<sent, writer, wire, cut, reader, item, queue, eof, stopped, got>>
  BY DEF SeeEof, LastPass, DrainTimesOut, Join
<1>3. \/ main = "draining" /\ eof = TRUE /\ main' = "last"
      \/ main = "last" /\ queue = <<>> /\ main' = "drained"
      \/ main = "draining" /\ main' = "gave_up"
      \/ main = "closing" /\ main' \in {"closed", "close_failed"}
  BY <1>1 DEF SeeEof, LastPass, DrainTimesOut, Join, TypeOK
<1>4. MainOK'
  BY <1>1, <1>2, <1>3 DEF MainOK, Eof
<1>5. main' \in {"idle", "draining", "last", "drained", "gave_up", "closing", "closed",
                 "close_failed"}
  BY <1>3
<1>6. writer \in {"open", "held", "closed"} /\ cut \in BOOLEAN
  BY <1>1 DEF TypeOK
<1> QED BY <1>2, <1>4, <1>5, <1>6, OutsideStep

-----------------------------------------------------------------------------
(* The reader thread, where it leaves the queue alone.                      *)

LEMMA ReaderMoves ==
  ASSUME PipeInv, stopped = FALSE, UNCHANGED <<sent, cut, queue, stopped, main, got>>,
         eof = TRUE => eof' = TRUE, TypeOK', WireOK', ReaderOK', PutCount' = PutCount,
         \/ reader \in {"polling", "blocked"} /\ Reading'
         \/ reader = "polling" /\ PutCount = sent /\ reader' = "ending"
         \/ reader = "ending" /\ reader' = "eof"
  PROVE  PipeInv'
<1>1. /\ sent' = sent /\ queue' = queue /\ main' = main /\ stopped' = stopped
      /\ got' = got /\ Load' = Load
  BY DEF Load
<1>2. TypeOK /\ WireOK /\ InOrder /\ MainOK /\ ReaderOK /\ QueueOK /\ LossOK
  BY DEF PipeInv
<1>3. InOrder' /\ MainOK'
  BY <1>1, <1>2 DEF InOrder, MainOK, Eof
<1>4. Missing' = Missing
  BY MissingKept
<1>5. Items' /\ Ascending'
  BY <1>2, QueueKept DEF QueueOK, Ended, Reading
<1>6. Lengths'
  <2>1. sent \in Nat /\ Load >= sent /\ Load \in Nat
    BY <1>2, Numbers DEF Load
  <2>2. Lengths
    BY <1>2 DEF QueueOK
  <2> QED BY <1>1, <2>1, <2>2 DEF Lengths, Reading
<1>7. NoneYet' /\ WasFull' /\ RoomMade'
  <2>1. Missing = {}
    BY <1>2 DEF LossOK, NoneYet, Reading
  <2> QED BY <1>4, <2>1 DEF NoneYet, WasFull, RoomMade, Reading
<1>8. FewMissing'
  <2>1. FewMissing
    BY <1>2 DEF LossOK
  <2> QED BY <1>1, <1>4, <2>1 DEF FewMissing, AtMostOne
<1> QED BY <1>3, <1>5, <1>6, <1>7, <1>8 DEF PipeInv, QueueOK, LossOK

LEMMA ReceiveStep == ASSUME PipeInv, Receive PROVE PipeInv'
<1>1. /\ reader = "polling" /\ stopped = FALSE
      /\ sent' = sent /\ writer' = writer /\ cut' = cut /\ queue' = queue /\ eof' = eof
      /\ stopped' = stopped /\ main' = main /\ got' = got
  BY StopFlag DEF Receive, PipeInv
<1>2. TypeOK /\ WireOK /\ ReaderOK
  BY <1>1 DEF PipeInv
<1>3. eof = FALSE
  BY <1>1, <1>2 DEF ReaderOK, TypeOK
<1>4. /\ sent \in Nat /\ Len(wire) \in Nat /\ ReadCount \in Nat /\ PutCount = ReadCount
      /\ MaxMessages \in Nat /\ Fault = MaxMessages + 1
  BY <1>1, <1>2, Numbers DEF PutCount
<1>5. CASE wire # <<>> /\ item' = Head(wire) /\ wire' = Tail(wire) /\ reader' = "putting"
  <2>1. wire \in Seq(Messages)
    BY <1>2 DEF TypeOK
  <2>2. /\ item' \in Messages /\ wire' \in Seq(Messages) /\ Len(wire') = Len(wire) - 1
        /\ Len(wire) >= 1 /\ 1 \in DOMAIN wire /\ item' = wire[1]
        /\ DOMAIN wire' = 1..(Len(wire) - 1)
        /\ \A i \in DOMAIN wire' : i + 1 \in DOMAIN wire /\ wire'[i] = wire[i + 1]
    BY <1>5, <2>1, Shortened
  <2>3. TypeOK'
    <3>1. item' \in 0..Fault'
      BY <1>4, <2>2 DEF Messages, Fault
    <3>2. Len(wire') <= Buffer
      BY <1>2, <1>4, <2>2, PipeAssumption DEF TypeOK
    <3> QED BY <1>1, <1>2, <1>5, <2>2, <3>1, <3>2 DEF TypeOK, Fault, Messages
  <2>4. ReadCount' = ReadCount + 1 /\ item' = ReadCount + 1
    BY <1>1, <1>2, <1>4, <2>2 DEF ReadCount, WireOK
  <2>5. WireOK'
    <3>1. Len(wire') <= sent'
      BY <1>1, <1>2, <1>4, <2>2 DEF WireOK
    <3>2. \A i \in DOMAIN wire' : wire'[i] = ReadCount' + i
      <4> TAKE i \in DOMAIN wire'
      <4>1. i \in Nat /\ wire'[i] = ReadCount + (i + 1)
        BY <1>2, <1>4, <2>2 DEF WireOK
      <4> QED BY <1>4, <2>4, <4>1
    <3>3. writer' = "open" => cut' = FALSE
      BY <1>1, <1>2 DEF WireOK
    <3> QED BY <3>1, <3>2, <3>3 DEF WireOK
  <2>6. item' # Fault /\ item' >= 1
    BY <1>4, <2>2 DEF Messages
  <2>7. ReaderOK'
    BY <1>1, <1>3, <1>4, <1>5, <2>4, <2>6 DEF ReaderOK, Ended, Fault
  <2>8. PutCount' = PutCount
    <3>1. PutCount' = ReadCount' - 1
      BY <1>5, <2>6 DEF PutCount, Fault
    <3> QED BY <1>4, <2>4, <3>1
  <2> QED BY <1>1, <1>5, <2>3, <2>5, <2>7, <2>8, ReaderMoves DEF Reading
<1>6. CASE /\ wire = <<>> /\ wire' = wire
           /\ \/ writer = "closed" /\ reader' = "ending" /\ item' = item
              \/ writer = "closed" /\ cut = TRUE /\ item' = Fault /\ reader' = "putting"
              \/ writer = "held" /\ cut = TRUE /\ reader' = "blocked" /\ item' = item
  <2>1. TypeOK'
    <3>1. item' \in 0..Fault'
      BY <1>2, <1>4, <1>6 DEF TypeOK, Fault
    <3> QED BY <1>1, <1>2, <1>6, <3>1 DEF TypeOK, Messages, Fault
  <2>2. ReadCount' = ReadCount /\ PutCount' = PutCount
    <3>1. ReadCount' = ReadCount
      BY <1>1, <1>6 DEF ReadCount
    <3> QED BY <1>4, <1>6, <3>1 DEF PutCount, Fault
  <2>3. WireOK'
    BY <1>1, <1>2, <1>6, <2>2 DEF WireOK
  <2>4. ReaderOK'
    BY <1>1, <1>3, <1>6 DEF ReaderOK, Ended, Fault
  <2>5. PutCount = sent
    BY <1>4, <1>6 DEF ReadCount
  <2> QED BY <1>1, <1>6, <2>1, <2>2, <2>3, <2>4, <2>5, ReaderMoves DEF Reading
<1>7. cut = TRUE \/ cut = FALSE
  BY <1>2 DEF TypeOK
<1> QED BY <1>5, <1>6, <1>7 DEF Receive

\* The reader thread moves and the pipe is stopped: only its type is at stake.
LEMMA StoppedMoves ==
  ASSUME PipeInv, stopped' = TRUE, TypeOK', main' = main, stopped = TRUE,
         UNCHANGED <<sent, writer, wire, cut, got>>
  PROVE  PipeInv'
<1>1. InOrder /\ WireOK /\ MainOK
  BY DEF PipeInv
<1>2. InOrder' /\ WireOK'
  BY <1>1 DEF InOrder, WireOK, ReadCount
<1>3. MainOK'
  BY <1>1 DEF MainOK
<1> QED BY <1>2, <1>3 DEF PipeInv

LEMMA UnblockStep == ASSUME PipeInv, Unblock PROVE PipeInv'
<1>1. /\ reader = "blocked" /\ writer = "closed" /\ item' = Fault
      /\ sent' = sent /\ writer' = writer /\ wire' = wire /\ cut' = cut /\ queue' = queue
      /\ eof' = eof /\ stopped' = stopped /\ main' = main /\ got' = got
  BY DEF Unblock
<1>2. TypeOK /\ WireOK
  BY DEF PipeInv
<1>3. reader' \in {"ending", "putting"}
  BY DEF Unblock
<1>4. TypeOK'
  <2>1. item' \in 0..Fault'
    BY <1>1, <1>2, Numbers DEF Fault
  <2> QED BY <1>1, <1>2, <1>3, <2>1 DEF TypeOK, Messages, Fault
<1>5. CASE stopped = TRUE
  BY <1>1, <1>4, <1>5, StoppedMoves
<1>6. CASE stopped = FALSE
  <2>1. reader' = "putting"
    BY <1>6 DEF Unblock
  <2>2. ReaderOK
    BY <1>6 DEF PipeInv
  <2>3. ReadCount' = ReadCount /\ PutCount' = PutCount
    BY <1>1, <2>1 DEF ReadCount, PutCount, Fault
  <2>4. WireOK'
    BY <1>1, <1>2, <2>3 DEF WireOK
  <2>5. ReaderOK'
    BY <1>1, <2>1, <2>2 DEF ReaderOK, Ended, Fault
  <2> QED BY <1>1, <1>4, <1>6, <2>1, <2>3, <2>4, <2>5, ReaderMoves DEF Reading
<1> QED BY <1>2, <1>5, <1>6, StopFlag

LEMMA StoppedStep == ASSUME PipeInv, Stopped PROVE PipeInv'
<1>1. /\ stopped = TRUE /\ reader' = "ending"
      /\ UNCHANGED <<sent, writer, wire, cut, item, queue, eof, stopped, main, got>>
  BY StopFlag DEF Stopped, PipeInv
<1>2. TypeOK'
  BY <1>1 DEF PipeInv, TypeOK, Fault, Messages
<1> QED BY <1>1, <1>2, StoppedMoves

LEMMA SetEofStep == ASSUME PipeInv, SetEof PROVE PipeInv'
<1>1. /\ reader = "ending" /\ reader' = "eof" /\ eof' = TRUE
      /\ sent' = sent /\ writer' = writer /\ wire' = wire /\ cut' = cut /\ queue' = queue
      /\ item' = item /\ stopped' = stopped /\ main' = main /\ got' = got
  BY DEF SetEof
<1>2. TypeOK /\ WireOK
  BY DEF PipeInv
<1>3. TypeOK'
  BY <1>1, <1>2 DEF TypeOK, Messages, Fault
<1>4. CASE stopped = TRUE
  BY <1>1, <1>3, <1>4, StoppedMoves
<1>5. CASE stopped = FALSE
  <2>1. ReaderOK
    BY <1>5 DEF PipeInv
  <2>2. ReadCount' = ReadCount /\ PutCount' = PutCount
    BY <1>1 DEF ReadCount, PutCount, Fault
  <2>3. WireOK'
    BY <1>1, <1>2, <2>2 DEF WireOK
  <2>4. ReaderOK'
    BY <1>1, <2>1 DEF ReaderOK, Ended, Fault
  <2> QED BY <1>1, <1>3, <1>5, <2>2, <2>3, <2>4, ReaderMoves
<1> QED BY <1>2, <1>4, <1>5, StopFlag

-----------------------------------------------------------------------------
(* The steps that change the queue.                                         *)

\* An item is appended.
LEMMA Appended ==
  ASSUME NEW e \in 0..Fault, queue \in Seq(0..Fault), queue' = Append(queue, e)
  PROVE  InQueue' = InQueue \cup {e}
  BY Lengthened DEF InQueue

\* The first item is removed.
LEMMA Removed ==
  ASSUME queue \in Seq(0..Fault), queue # <<>>, queue' = Tail(queue)
  PROVE  InQueue = InQueue' \cup {Head(queue)}
<1>1. /\ 1 \in DOMAIN queue /\ Head(queue) = queue[1]
      /\ \A i \in DOMAIN queue' : i + 1 \in DOMAIN queue /\ queue'[i] = queue[i + 1]
      /\ \A i \in DOMAIN queue : i # 1 => i - 1 \in DOMAIN queue' /\ queue'[i - 1] = queue[i]
  BY Shortened
<1>2. \A x \in InQueue' \cup {Head(queue)} : x \in InQueue
  BY <1>1 DEF InQueue
<1>3. ASSUME NEW x \in InQueue PROVE x \in InQueue' \cup {Head(queue)}
  <2>1. PICK i \in DOMAIN queue : x = queue[i]
    BY <1>3 DEF InQueue
  <2>2. CASE i = 1
    BY <1>1, <2>1, <2>2
  <2>3. CASE i # 1
    BY <1>1, <2>1, <2>3 DEF InQueue
  <2> QED BY <2>2, <2>3
<1> QED BY <1>2, <1>3

LEMMA TailKeeps ==
  ASSUME queue \in Seq(0..Fault), queue # <<>>, queue' = Tail(queue), Items, Ascending,
         PutCount' = PutCount, Ended => Ended', reader = "done" => reader' = "done"
  PROVE  /\ Items'
         /\ \A i, j \in DOMAIN queue' : i < j /\ queue'[j] # Eof => queue'[i] < queue'[j]
         /\ \A j \in DOMAIN queue' : queue'[j] # Eof => Head(queue) < queue'[j]
<1>1. /\ 1 \in DOMAIN queue /\ Head(queue) = queue[1] /\ Len(queue') = Len(queue) - 1
      /\ Len(queue) \in Nat
      /\ \A i \in DOMAIN queue' : i + 1 \in DOMAIN queue /\ queue'[i] = queue[i + 1] /\ i \in Nat
      /\ \A i \in DOMAIN queue' : i >= 1
  BY Shortened
<1>2. \A i \in DOMAIN queue' : i + 1 = Len(queue) => i = Len(queue')
  BY <1>1
<1>3. \A i \in DOMAIN queue' : \/ queue'[i] \in 1..PutCount'
                               \/ queue'[i] = Fault /\ Ended'
                               \/ queue'[i] = Eof /\ i = Len(queue') /\ reader' = "done"
  <2> TAKE i \in DOMAIN queue'
  <2>1. \/ queue[i + 1] \in 1..PutCount
        \/ queue[i + 1] = Fault /\ Ended
        \/ queue[i + 1] = Eof /\ i + 1 = Len(queue) /\ reader = "done"
    BY <1>1, Zenon DEF Items
  <2>2. queue'[i] = queue[i + 1] /\ (i + 1 = Len(queue) => i = Len(queue'))
    BY <1>1, <1>2
  <2>3. CASE queue[i + 1] \in 1..PutCount
    BY <2>2, <2>3
  <2>4. CASE queue[i + 1] = Fault /\ Ended
    BY <2>2, <2>4
  <2>5. CASE queue[i + 1] = Eof /\ i + 1 = Len(queue) /\ reader = "done"
    BY <2>2, <2>5
  <2> QED BY <2>1, <2>3, <2>4, <2>5
<1>4. Items'
  BY <1>3, Zenon DEF Items, Fault, Eof
<1>5. \A i, j \in DOMAIN queue' : i < j /\ queue'[j] # Eof => queue'[i] < queue'[j]
  <2> TAKE i, j \in DOMAIN queue'
  <2>1. i < j => i + 1 < j + 1
    BY <1>1
  <2> QED BY <1>1, <2>1 DEF Ascending
<1>6. \A j \in DOMAIN queue' : queue'[j] # Eof => Head(queue) < queue'[j]
  <2> TAKE j \in DOMAIN queue'
  <2>1. 1 < j + 1
    BY <1>1
  <2> QED BY <1>1, <2>1 DEF Ascending
<1> QED BY <1>4, <1>5, <1>6

LEMMA PutStep == ASSUME PipeInv, Put PROVE PipeInv'
<1>1. /\ reader = "putting"
      /\ sent' = sent /\ writer' = writer /\ wire' = wire /\ cut' = cut /\ item' = item
      /\ eof' = eof /\ stopped' = stopped /\ main' = main /\ got' = got
  BY DEF Put
<1>2. TypeOK /\ WireOK /\ MainOK /\ InOrder
  BY DEF PipeInv
<1>3. item \in 0..Fault /\ queue \in Seq(0..Fault)
  BY <1>2 DEF TypeOK
<1>4. CASE stopped = TRUE
  <2>1. reader' = "ending" /\ queue' = queue
    BY <1>4 DEF Put
  <2>2. TypeOK'
    BY <1>1, <1>2, <2>1 DEF TypeOK, Messages, Fault
  <2> QED BY <1>1, <1>4, <2>2, StoppedMoves
<1>5. CASE stopped = FALSE
  <2>1. /\ Len(queue) < Capacity /\ queue' = Append(queue, item)
        /\ reader' = IF item = Fault THEN "ending" ELSE "polling"
    BY <1>5 DEF Put
  <2>2. ReaderOK /\ QueueOK /\ LossOK
    BY <1>5 DEF PipeInv
  <2>3. /\ queue' \in Seq(0..Fault) /\ Len(queue') = Len(queue) + 1 /\ Len(queue) \in Nat
        /\ DOMAIN queue' = DOMAIN queue \cup {Len(queue) + 1}
        /\ Len(queue) + 1 \notin DOMAIN queue /\ queue'[Len(queue) + 1] = item
        /\ \A i \in DOMAIN queue : queue'[i] = queue[i] /\ i \in Nat /\ i <= Len(queue)
    BY <1>3, <2>1, Lengthened
  <2>4. TypeOK'
    <3>1. Len(queue') <= Capacity
      BY <2>1, <2>3, Numbers, <1>2
    <3> QED BY <1>1, <1>2, <2>1, <2>3, <3>1 DEF TypeOK, Messages, Fault
  <2>5. /\ sent \in Nat /\ MaxMessages \in Nat /\ ReadCount \in Nat /\ ReadCount <= sent
        /\ sent <= MaxMessages /\ Fault = MaxMessages + 1 /\ item \in Nat
        /\ PutCount \in Nat /\ PutCount <= sent
    BY <1>2, <2>2, Numbers, Counts
  <2>6. ReadCount' = ReadCount /\ PutCount' = ReadCount
    <3>1. ReadCount' = ReadCount
      BY <1>1 DEF ReadCount
    <3>2. reader' # "putting"
      BY <2>1
    <3> QED BY <3>1, <3>2 DEF PutCount
  <2>7. item > PutCount /\ PutCount <= ReadCount
    <3>1. CASE item = Fault
      BY <2>5, <3>1 DEF PutCount
    <3>2. CASE item # Fault
      BY <1>1, <2>2, <2>5, <3>2 DEF PutCount, ReaderOK
    <3> QED BY <3>1, <3>2
  <2>8. \A i \in DOMAIN queue : queue[i] \in 1..PutCount
    BY <1>1, <2>2 DEF QueueOK, Items, Ended
  <2>9. WireOK' /\ InOrder' /\ MainOK'
    <3>1. WireOK' /\ InOrder'
      BY <1>1, <1>2, <2>6 DEF WireOK, InOrder
    <3>2. eof = FALSE /\ main \notin {"last", "drained"}
      BY <1>1, <1>2, <2>2 DEF ReaderOK, TypeOK, MainOK
    <3>3. MainOK'
      BY <1>1, <1>2, <3>2 DEF MainOK
    <3> QED BY <3>1, <3>3
  <2>10. Ascending'
    <3>1. \A i \in DOMAIN got : got[i] \in Nat /\ got[i] <= PutCount
      <4>1. Ascending /\ got \in Seq(Messages)
        BY <1>2, <2>2 DEF QueueOK, TypeOK
      <4>2. \A i \in DOMAIN got : got[i] \in Messages
        BY <4>1
      <4> QED BY <4>1, <4>2 DEF Ascending, Messages
    <3>2. \A i, j \in DOMAIN queue' : i < j /\ queue'[j] # Eof => queue'[i] < queue'[j]
      <4> TAKE i, j \in DOMAIN queue'
      <4>1. CASE j \in DOMAIN queue /\ i \in DOMAIN queue
        BY <2>2, <2>3, <4>1 DEF QueueOK, Ascending
      <4>2. CASE j = Len(queue) + 1 /\ i \in DOMAIN queue
        <5>1. queue[i] \in 1..PutCount /\ queue'[j] = item /\ queue'[i] = queue[i]
          BY <2>3, <2>8, <4>2
        <5> QED BY <2>5, <2>7, <5>1
      <4>3. CASE i = Len(queue) + 1
        BY <2>3, <4>3
      <4> QED BY <2>3, <4>1, <4>2, <4>3
    <3>3. \A i \in DOMAIN got' : got'[i] <= PutCount'
      BY <1>1, <2>5, <2>6, <2>7, <3>1
    <3>4. \A i \in DOMAIN got', j \in DOMAIN queue' : queue'[j] # Eof => got'[i] < queue'[j]
      <4> TAKE i \in DOMAIN got', j \in DOMAIN queue'
      <4>1. CASE j \in DOMAIN queue
        BY <1>1, <2>2, <2>3, <4>1 DEF QueueOK, Ascending
      <4>2. CASE j = Len(queue) + 1
        BY <1>1, <2>3, <2>5, <2>7, <3>1, <4>2
      <4> QED BY <2>3, <4>1, <4>2
    <3> QED BY <3>2, <3>3, <3>4 DEF Ascending, Eof
  <2>11. CASE item = Fault
    <3>1. /\ wire = <<>> /\ writer = "closed" /\ cut = TRUE /\ PutCount = sent
          /\ ReadCount = sent /\ reader' = "ending"
      <4>1. wire = <<>> /\ writer = "closed" /\ cut = TRUE /\ reader' = "ending"
        BY <1>1, <2>1, <2>2, <2>5, <2>11 DEF ReaderOK
      <4>2. ReadCount = sent
        BY <2>5, <4>1 DEF ReadCount
      <4> QED BY <2>11, <4>1, <4>2 DEF PutCount
    <3>2. ReaderOK'
      <4>1. eof # TRUE
        BY <1>1, <2>2 DEF ReaderOK
      <4> QED BY <1>1, <3>1, <4>1 DEF ReaderOK, Ended
    <3>3. Items'
      BY <2>3, <2>6, <2>8, <2>11, <3>1 DEF Items, Ended, Fault
    <3>4. Lengths'
      <4>1. Len(queue) <= PutCount
        BY <1>1, <2>2 DEF QueueOK, Lengths, Reading
      <4>2. Load' = sent + 1
        BY <1>1, <3>1 DEF Load
      <4> QED BY <2>3, <2>5, <3>1, <4>1, <4>2 DEF Lengths, Reading
    <3>5. Missing' = {}
      <4>1. Missing = {}
        BY <1>1, <2>2 DEF LossOK, NoneYet, Reading
      <4>2. InQueue' = InQueue \cup {item}
        BY <1>3, <2>1, Appended
      <4> QED BY <1>1, <2>6, <3>1, <4>1, <4>2 DEF Missing, Taken
    <3>6. LossOK'
      BY <3>1, <3>5 DEF LossOK, NoneYet, WasFull, RoomMade, FewMissing, AtMostOne
    <3> QED BY <2>4, <2>9, <2>10, <3>2, <3>3, <3>4, <3>6 DEF PipeInv, QueueOK
  <2>12. CASE item # Fault
    <3>1. /\ item = ReadCount /\ item >= 1 /\ PutCount = ReadCount - 1
          /\ reader' = "polling"
      BY <1>1, <2>1, <2>2, <2>12 DEF ReaderOK, PutCount
    <3>2. ReaderOK'
      <4>1. eof # TRUE
        BY <1>1, <2>2 DEF ReaderOK
      <4> QED BY <1>1, <3>1, <4>1 DEF ReaderOK, Ended
    <3>3. Items'
      <4>1. \A i \in DOMAIN queue' : queue'[i] \in 1..PutCount'
        BY <2>3, <2>5, <2>6, <2>8, <3>1
      <4> QED BY <4>1 DEF Items
    <3>4. Lengths'
      <4>1. Len(queue) <= PutCount
        BY <1>1, <2>2 DEF QueueOK, Lengths, Reading
      <4> QED BY <2>3, <2>5, <2>6, <3>1, <4>1 DEF Lengths
    <3>5. Missing' = {}
      <4>1. Missing = {}
        BY <1>1, <2>2 DEF LossOK, NoneYet, Reading
      <4>2. InQueue' = InQueue \cup {item}
        BY <1>3, <2>1, Appended
      <4>3. \A k \in 1..PutCount' : k \in 1..PutCount \/ k = item
        BY <2>5, <2>6, <3>1
      <4> QED BY <1>1, <4>1, <4>2, <4>3 DEF Missing, Taken
    <3>6. LossOK'
      BY <3>1, <3>5 DEF LossOK, NoneYet, WasFull, RoomMade, FewMissing, AtMostOne
    <3> QED BY <2>4, <2>9, <2>10, <3>2, <3>3, <3>4, <3>6 DEF PipeInv, QueueOK
  <2> QED BY <2>11, <2>12
<1> QED BY <1>2, <1>4, <1>5, StopFlag

LEMMA PutEofStep == ASSUME PipeInv, PutEof PROVE PipeInv'
<1>1. /\ reader = "eof"
      /\ sent' = sent /\ writer' = writer /\ wire' = wire /\ cut' = cut /\ item' = item
      /\ eof' = eof /\ stopped' = stopped /\ main' = main /\ got' = got
  BY DEF PutEof
<1>2. TypeOK /\ WireOK /\ MainOK /\ InOrder
  BY DEF PipeInv
<1>3. CASE stopped = TRUE
  <2>1. reader' = "done" /\ queue' = queue
    BY <1>3 DEF PutEof
  <2>2. TypeOK'
    BY <1>1, <1>2, <2>1 DEF TypeOK, Messages, Fault
  <2> QED BY <1>1, <1>3, <2>2, StoppedMoves
<1>4. CASE stopped = FALSE
  <2>1. ReaderOK /\ QueueOK /\ LossOK
    BY <1>4 DEF PipeInv
  <2>2. reader' \in {"done", "full"}
    BY <1>4 DEF PutEof
  <2>3. ReadCount' = ReadCount /\ PutCount' = PutCount /\ Load' = Load
    BY <1>1, <2>2 DEF ReadCount, PutCount, Load
  <2>4. WireOK' /\ InOrder'
    BY <1>1, <1>2, <2>3 DEF WireOK, InOrder
  <2>5. ReaderOK'
    BY <1>1, <2>1, <2>2 DEF ReaderOK, Ended
  <2>6. /\ Load \in Nat /\ Capacity \in Nat /\ queue \in Seq(0..Fault) /\ Len(queue) \in Nat
        /\ Eof \in 0..Fault /\ Eof = 0
    BY <1>2, Numbers, Loads DEF TypeOK, Eof
  <2>7. CASE Len(queue) < Capacity
    <3>1. reader' = "done" /\ queue' = Append(queue, Eof)
      BY <1>4, <2>7 DEF PutEof
    <3>2. /\ queue' \in Seq(0..Fault) /\ Len(queue') = Len(queue) + 1
          /\ DOMAIN queue' = DOMAIN queue \cup {Len(queue) + 1}
          /\ queue'[Len(queue) + 1] = Eof
          /\ \A i \in DOMAIN queue : queue'[i] = queue[i]
      BY <2>6, <3>1, Lengthened
    <3>3. TypeOK'
      <4>1. Len(queue') <= Capacity
        BY <2>6, <2>7, <3>2
      <4> QED BY <1>1, <1>2, <3>1, <3>2, <4>1 DEF TypeOK, Messages, Fault
    <3>4. MainOK'
      BY <1>1, <1>2, <3>2 DEF MainOK, Eof
    <3>5. Items'
      <4>1. \A i \in DOMAIN queue : queue[i] \in 1..PutCount \/ queue[i] = Fault
        BY <1>1, <2>1 DEF QueueOK, Items
      <4> QED BY <2>3, <3>1, <3>2, <4>1 DEF Items, Ended, Fault, Eof
    <3>6. Ascending'
      <4>1. Ascending
        BY <2>1 DEF QueueOK
      <4>2. \A i, j \in DOMAIN queue' : i < j /\ queue'[j] # Eof => queue'[i] < queue'[j]
        <5> TAKE i, j \in DOMAIN queue'
        <5>1. j = Len(queue) + 1 => queue'[j] = Eof
          BY <3>2
        <5>2. i = Len(queue) + 1 /\ j \in DOMAIN queue => ~(i < j)
          BY <2>6
        <5> QED BY <3>2, <4>1, <5>1, <5>2 DEF Ascending
      <4>3. \A i \in DOMAIN got', j \in DOMAIN queue' : queue'[j] # Eof => got'[i] < queue'[j]
        BY <1>1, <3>2, <4>1 DEF Ascending
      <4> QED BY <1>1, <2>3, <4>1, <4>2, <4>3 DEF Ascending, Eof
    <3>7. Lengths'
      BY <3>1 DEF Lengths, Reading
    <3>8. Missing' = Missing
      <4>1. InQueue' = InQueue \cup {Eof}
        BY <2>6, <3>1, Appended
      <4>2. Eof \notin 1..PutCount
        BY <2>6
      <4> QED BY <1>1, <2>3, <4>1, <4>2 DEF Missing, Taken
    <3>9. LossOK'
      <4>1. NoneYet' /\ WasFull' /\ RoomMade'
        BY <3>1 DEF NoneYet, WasFull, RoomMade, Reading
      <4>2. FewMissing'
        BY <2>1, <2>3, <3>8 DEF LossOK, FewMissing, AtMostOne
      <4> QED BY <4>1, <4>2 DEF LossOK
    <3> QED BY <2>4, <2>5, <3>3, <3>4, <3>5, <3>6, <3>7, <3>9 DEF PipeInv, QueueOK
  <2>8. CASE ~(Len(queue) < Capacity)
    <3>1. reader' = "full" /\ queue' = queue
      BY <1>4, <2>8 DEF PutEof
    <3>2. TypeOK'
      BY <1>1, <1>2, <3>1 DEF TypeOK, Messages, Fault
    <3>3. MainOK'
      BY <1>1, <1>2, <3>1 DEF MainOK, Eof
    <3>4. Items' /\ Ascending'
      BY <1>1, <2>1, <2>3, <3>1, QueueKept DEF QueueOK, Ended
    <3>5. Len(queue) <= Load
      BY <1>1, <2>1 DEF QueueOK, Lengths
    <3>6. Lengths'
      BY <2>3, <3>1, <3>5 DEF Lengths, Reading
    <3>7. Missing' = {}
      <4>1. Missing = {}
        BY <1>1, <2>1, <2>8 DEF LossOK, RoomMade
      <4> QED BY <1>1, <2>3, <3>1, <4>1, MissingKept
    <3>8. WasFull'
      BY <2>3, <2>6, <2>8, <3>5 DEF WasFull
    <3>9. LossOK'
      BY <3>1, <3>7, <3>8 DEF LossOK, NoneYet, RoomMade, FewMissing, AtMostOne
    <3> QED BY <2>4, <2>5, <3>2, <3>3, <3>4, <3>6, <3>9 DEF PipeInv, QueueOK
  <2> QED BY <2>7, <2>8
<1> QED BY <1>2, <1>3, <1>4, StopFlag

LEMMA MakeRoomStep == ASSUME PipeInv, MakeRoom PROVE PipeInv'
<1>1. /\ reader = "full" /\ reader' = "eof"
      /\ sent' = sent /\ writer' = writer /\ wire' = wire /\ cut' = cut /\ item' = item
      /\ eof' = eof /\ stopped' = stopped /\ main' = main /\ got' = got
  BY DEF MakeRoom
<1>2. TypeOK /\ WireOK /\ MainOK /\ InOrder
  BY DEF PipeInv
<1>3. queue \in Seq(0..Fault) /\ Len(queue) \in Nat /\ Len(queue) <= Capacity /\ Capacity \in Nat
  BY <1>2, Numbers DEF TypeOK
<1>4. \/ queue = <<>> /\ queue' = queue
      \/ queue # <<>> /\ queue' = Tail(queue)
  BY DEF MakeRoom
<1>5. queue' \in Seq(0..Fault) /\ Len(queue') \in Nat /\ Len(queue') <= Len(queue)
  BY <1>3, <1>4, Shortened
<1>6. TypeOK'
  <2>1. Len(queue') <= Capacity
    BY <1>3, <1>5
  <2> QED BY <1>1, <1>2, <1>5, <2>1 DEF TypeOK, Messages, Fault
<1>7. CASE stopped = TRUE
  BY <1>1, <1>6, <1>7, StoppedMoves
<1>8. CASE stopped = FALSE
  <2>1. ReaderOK /\ QueueOK /\ LossOK
    BY <1>8 DEF PipeInv
  <2>2. ReadCount' = ReadCount /\ PutCount' = PutCount /\ Load' = Load
    BY <1>1 DEF ReadCount, PutCount, Load
  <2>3. WireOK' /\ InOrder'
    BY <1>1, <1>2, <2>2 DEF WireOK, InOrder
  <2>4. ReaderOK'
    BY <1>1, <2>1 DEF ReaderOK, Ended
  <2>5. MainOK'
    <3>1. \A i \in DOMAIN queue' : \E k \in DOMAIN queue : queue'[i] = queue[k]
      BY <1>3, <1>4, Shortened
    <3> QED BY <1>1, <1>2, <3>1 DEF MainOK, Eof
  <2>6. Items' /\ Ascending'
    <3>1. CASE queue = <<>>
      BY <1>1, <1>4, <2>1, <2>2, <3>1, QueueKept DEF QueueOK, Ended
    <3>2. CASE queue # <<>>
      <4>1. /\ Items'
            /\ \A i, j \in DOMAIN queue' : i < j /\ queue'[j] # Eof => queue'[i] < queue'[j]
        BY <1>1, <1>3, <1>4, <2>1, <2>2, <3>2, TailKeeps DEF QueueOK, Ended
      <4>2. \A j \in DOMAIN queue' : j + 1 \in DOMAIN queue /\ queue'[j] = queue[j + 1]
        BY <1>3, <1>4, <3>2, Shortened
      <4>3. \A i \in DOMAIN got', j \in DOMAIN queue' : queue'[j] # Eof => got'[i] < queue'[j]
        BY <1>1, <2>1, <4>2 DEF QueueOK, Ascending
      <4>4. \A i \in DOMAIN got' : got'[i] <= PutCount'
        BY <1>1, <2>1, <2>2 DEF QueueOK, Ascending
      <4> QED BY <4>1, <4>3, <4>4 DEF Ascending, Eof
    <3> QED BY <3>1, <3>2
  <2>7. Lengths'
    <3>1. Len(queue) <= Load /\ Load \in Nat
      BY <1>1, <1>2, <2>1, Numbers, Loads DEF QueueOK, Lengths
    <3> QED BY <1>1, <1>3, <1>5, <2>2, <3>1 DEF Lengths, Reading
  <2>8. Missing = {} /\ Load >= Capacity /\ Load \in Nat
    BY <1>1, <1>2, <2>1, Numbers, Loads DEF LossOK, NoneYet, WasFull
  <2>9. \/ Missing' = {}
        \/ (\A x \in Missing' : x = Head(queue)) /\ Len(queue') < Capacity
    <3>1. CASE queue = <<>>
      BY <1>1, <1>4, <2>2, <2>8, <3>1, MissingKept
    <3>2. CASE queue # <<>>
      <4>1. InQueue = InQueue' \cup {Head(queue)}
        BY <1>3, <1>4, <3>2, Removed
      <4>2. \A x \in Missing' : x = Head(queue)
        BY <1>1, <2>2, <2>8, <4>1 DEF Missing, Taken
      <4>3. Len(queue') < Capacity
        BY <1>3, <1>4, <3>2, Shortened
      <4> QED BY <4>2, <4>3
    <3> QED BY <3>1, <3>2
  <2>10. NoneYet' /\ WasFull' /\ RoomMade'
    BY <1>1, <2>9 DEF NoneYet, WasFull, RoomMade, Reading
  <2>11. FewMissing'
    <3>1. ~(Load' < Capacity)
      BY <1>3, <2>2, <2>8
    <3>2. AtMostOne(Missing)'
      BY <2>9 DEF AtMostOne
    <3> QED BY <3>1, <3>2 DEF FewMissing
  <2> QED BY <1>6, <2>3, <2>4, <2>5, <2>6, <2>7, <2>10, <2>11 DEF PipeInv, QueueOK, LossOK
<1> QED BY <1>2, <1>7, <1>8, StopFlag

\* The main thread takes the first item: what it takes is a frame, and in its turn, or
\* is no frame.
LEMMA TakeStep == ASSUME PipeInv, Take PROVE PipeInv'
<1>1. /\ main \in {"idle", "draining", "last"} /\ queue # <<>> /\ queue' = Tail(queue)
      /\ got' = IF Head(queue) \in Messages THEN Append(got, Head(queue)) ELSE got
      /\ main' = IF main = "last" /\ Head(queue) = Eof THEN "drained" ELSE main
      /\ sent' = sent /\ writer' = writer /\ wire' = wire /\ cut' = cut /\ reader' = reader
      /\ item' = item /\ stopped' = stopped
  BY DEF Take
<1>2. TypeOK /\ WireOK /\ MainOK /\ InOrder
  BY DEF PipeInv
<1>3. stopped = FALSE
  BY <1>1, <1>2, StopFlag DEF MainOK
<1>4. ReaderOK /\ QueueOK /\ LossOK
  BY <1>3 DEF PipeInv
<1>5. /\ queue \in Seq(0..Fault) /\ Len(queue) \in Nat /\ Len(queue) <= Capacity
      /\ Capacity \in Nat /\ Fault = MaxMessages + 1 /\ MaxMessages \in Nat
      /\ got \in Seq(Messages)
  BY <1>2, Numbers DEF TypeOK
<1>6. /\ Head(queue) \in 0..Fault /\ queue' \in Seq(0..Fault) /\ Len(queue') = Len(queue) - 1
      /\ Len(queue) >= 1 /\ 1 \in DOMAIN queue /\ Head(queue) = queue[1]
      /\ \A j \in DOMAIN queue' : j + 1 \in DOMAIN queue /\ queue'[j] = queue[j + 1]
      /\ DOMAIN queue' = 1..(Len(queue) - 1)
  BY <1>1, <1>5, Shortened
<1>7. ReadCount' = ReadCount /\ PutCount' = PutCount /\ Load' = Load /\ Load \in Nat
      /\ PutCount \in Nat /\ PutCount <= MaxMessages
  <2>1. ReadCount' = ReadCount /\ PutCount' = PutCount /\ Load' = Load
    BY <1>1 DEF ReadCount, PutCount, Load, Fault
  <2>2. /\ PutCount \in Nat /\ PutCount <= sent /\ sent <= MaxMessages /\ sent \in Nat
        /\ MaxMessages \in Nat
    BY <1>2, <1>4, Numbers, Counts
  <2> QED BY <2>1, <2>2, Loads
<1>8. \/ Head(queue) \in 1..PutCount
      \/ Head(queue) = Fault /\ Ended
      \/ Head(queue) = Eof /\ Len(queue) = 1 /\ reader = "done"
  BY <1>4, <1>6 DEF QueueOK, Items
<1>9. /\ Head(queue) \in Messages => Head(queue) \in 1..PutCount
      /\ Head(queue) \notin Messages => Head(queue) \notin 1..PutCount
  BY <1>5, <1>7, <1>8 DEF Messages, Eof
<1>10. \/ Head(queue) = Eof /\ reader = "done" /\ eof' = TRUE
       \/ eof' = eof
  <2>1. eof = TRUE \/ eof = FALSE
    BY <1>2 DEF TypeOK
  <2>2. Head(queue) = Eof => reader = "done"
    BY <1>5, <1>7, <1>8 DEF Eof
  <2>3. eof' = (eof \/ Head(queue) = Eof)
    BY DEF Take
  <2>4. CASE Head(queue) = Eof
    BY <2>2, <2>3, <2>4
  <2>5. CASE Head(queue) # Eof
    BY <2>1, <2>3, <2>5
  <2> QED BY <2>4, <2>5
<1>11. eof' \in BOOLEAN /\ (eof = TRUE => eof' = TRUE)
  BY <1>2 DEF Take, TypeOK
<1>12. got' \in Seq(Messages)
  BY <1>1, <1>5, Lengthened
<1>13. TypeOK'
  <2>1. Len(queue') <= Capacity
    BY <1>5, <1>6
  <2>2. main' \in {"idle", "draining", "last", "drained"}
    BY <1>1
  <2> QED BY <1>1, <1>2, <1>6, <1>11, <1>12, <2>1, <2>2 DEF TypeOK, Messages, Fault
<1>14. WireOK'
  BY <1>1, <1>2, <1>7 DEF WireOK
<1>15. MainOK'
  <2>1. main' = "drained" => main = "last" /\ Head(queue) = Eof
    BY <1>1
  <2>2. Head(queue) = Eof => DOMAIN queue' = {}
    <3>1. Head(queue) = Eof => Len(queue) = 1
      BY <1>5, <1>7, <1>8 DEF Eof
    <3>2. Len(queue) = 1 => \A k : k \notin 1..(Len(queue) - 1)
      BY <1>5
    <3> QED BY <1>6, <3>1, <3>2
  <2>3. main' \in {"last", "drained"} => main = "last"
    BY <1>1
  <2>4. main' \notin {"closing", "closed", "close_failed"} /\ stopped' = FALSE
    BY <1>1, <1>3
  <2> QED BY <1>2, <1>11, <2>1, <2>2, <2>3, <2>4 DEF MainOK
<1>16. ReaderOK'
  <2>1. eof' = TRUE => reader' \in {"eof", "full", "done"}
    BY <1>1, <1>4, <1>10 DEF ReaderOK
  <2> QED BY <1>1, <1>4, <1>7, <2>1 DEF ReaderOK, Ended, Fault
<1>17. /\ Items'
       /\ \A i, j \in DOMAIN queue' : i < j /\ queue'[j] # Eof => queue'[i] < queue'[j]
       /\ \A j \in DOMAIN queue' : queue'[j] # Eof => Head(queue) < queue'[j]
  BY <1>1, <1>4, <1>5, <1>7, TailKeeps DEF QueueOK, Ended
<1>18. /\ \A i \in DOMAIN got : got[i] \in Nat /\ got[i] <= PutCount
       /\ \A i \in DOMAIN got, j \in DOMAIN queue' : queue'[j] # Eof => got[i] < queue'[j]
       /\ Head(queue) \in Messages => \A i \in DOMAIN got : got[i] < Head(queue)
  <2>1. Ascending
    BY <1>4 DEF QueueOK
  <2>2. \A i \in DOMAIN got : got[i] \in Messages
    BY <1>5
  <2>3. \A i \in DOMAIN got : got[i] \in Nat /\ got[i] <= PutCount
    BY <2>1, <2>2 DEF Ascending, Messages
  <2>4. \A i \in DOMAIN got, j \in DOMAIN queue' : queue'[j] # Eof => got[i] < queue'[j]
    BY <1>6, <2>1 DEF Ascending
  <2>5. Head(queue) \in Messages => Head(queue) # Eof
    BY <1>5 DEF Messages, Eof
  <2>6. Head(queue) \in Messages => \A i \in DOMAIN got : got[i] < Head(queue)
    BY <1>6, <2>1, <2>5 DEF Ascending
  <2> QED BY <2>3, <2>4, <2>6
<1>19. Lengths'
  <2>1. Lengths
    BY <1>4 DEF QueueOK
  <2> QED BY <1>1, <1>5, <1>6, <1>7, <2>1 DEF Lengths, Reading
<1>20. InQueue = InQueue' \cup {Head(queue)}
  BY <1>1, <1>5, Removed
<1>21. InOrder' /\ Ascending' /\ Missing' = Missing
  <2>1. CASE Head(queue) \in Messages
    <3>1. got' = Append(got, Head(queue))
      BY <1>1, <2>1
    <3>2. /\ DOMAIN got' = DOMAIN got \cup {Len(got) + 1} /\ got'[Len(got) + 1] = Head(queue)
          /\ \A i \in DOMAIN got : got'[i] = got[i] /\ i \in Nat /\ i <= Len(got)
          /\ Len(got) \in Nat
      BY <1>5, <2>1, <3>1, Lengthened
    <3>3. InOrder'
      <4> SUFFICES ASSUME NEW i \in DOMAIN got', NEW j \in DOMAIN got', i < j
                   PROVE  got'[i] < got'[j]
        BY DEF InOrder
      <4>1. CASE i \in DOMAIN got /\ j \in DOMAIN got
        BY <1>2, <3>2, <4>1 DEF InOrder
      <4>2. CASE i \in DOMAIN got /\ j = Len(got) + 1
        BY <1>18, <2>1, <3>2, <4>2
      <4>3. CASE i = Len(got) + 1
        BY <3>2, <4>3
      <4> QED BY <3>2, <4>1, <4>2, <4>3
    <3>4. \A i \in DOMAIN got' : got'[i] <= PutCount'
      <4>1. Head(queue) <= PutCount
        BY <1>7, <1>9, <2>1
      <4> QED BY <1>7, <1>18, <3>2, <4>1
    <3>5. \A i \in DOMAIN got', j \in DOMAIN queue' : queue'[j] # Eof => got'[i] < queue'[j]
      BY <1>17, <1>18, <3>2
    <3>6. Ascending'
      BY <1>17, <3>4, <3>5 DEF Ascending, Eof
    <3>7. Taken' = Taken \cup {Head(queue)}
      BY <3>2 DEF Taken
    <3>8. Missing' = Missing
      BY <1>7, <1>20, <3>7 DEF Missing
    <3> QED BY <3>3, <3>6, <3>8
  <2>2. CASE Head(queue) \notin Messages
    <3>1. got' = got
      BY <1>1, <2>2
    <3>2. InOrder' /\ Taken' = Taken
      BY <1>2, <3>1 DEF InOrder, Taken
    <3>3. Ascending'
      BY <1>7, <1>17, <1>18, <3>1 DEF Ascending, Eof
    <3>4. Head(queue) \notin 1..PutCount
      BY <1>9, <2>2
    <3>5. Missing' = Missing
      BY <1>7, <1>20, <3>2, <3>4 DEF Missing
    <3> QED BY <3>2, <3>3, <3>5
  <2> QED BY <2>1, <2>2
<1>22. LossOK'
  <2>1. NoneYet' /\ WasFull' /\ FewMissing'
    BY <1>1, <1>4, <1>7, <1>21 DEF LossOK, NoneYet, WasFull, FewMissing, AtMostOne, Reading
  <2>2. RoomMade'
    <3>1. RoomMade
      BY <1>4 DEF LossOK
    <3> QED BY <1>1, <1>5, <1>6, <1>21, <3>1 DEF RoomMade
  <2> QED BY <2>1, <2>2 DEF LossOK
<1> QED BY <1>13, <1>14, <1>15, <1>16, <1>17, <1>19, <1>21, <1>22 DEF PipeInv, QueueOK

LEMMA CloseStep == ASSUME PipeInv, Close \/ Abandon PROVE PipeInv'
<1>1. /\ main' = "closing" /\ stopped' = TRUE /\ queue' = <<>>
      /\ sent' = sent /\ wire' = wire /\ reader' = reader /\ item' = item /\ eof' = eof
      /\ got' = got
  BY DEF Close, Abandon
<1>2. TypeOK /\ WireOK /\ InOrder
  BY DEF PipeInv
<1>3. \/ writer' \in {"held", "closed"} /\ cut' \in BOOLEAN
      \/ writer' = writer /\ cut' = cut
  BY <1>2, DiesKeeps DEF Close, Abandon
<1>4. writer' \in {"open", "held", "closed"} /\ cut' \in BOOLEAN
  BY <1>2, <1>3 DEF TypeOK
<1>5. TypeOK'
  <2>1. Len(queue') <= Capacity /\ queue' \in Seq(0..Fault)
    BY <1>1, PipeAssumption
  <2> QED BY <1>1, <1>2, <1>4, <2>1 DEF TypeOK, Messages, Fault
<1>6. InOrder'
  BY <1>1, <1>2 DEF InOrder
<1>7. WireOK'
  <2>1. writer' = "open" => cut' = FALSE
    BY <1>2, <1>3 DEF WireOK
  <2> QED BY <1>1, <1>2, <2>1 DEF WireOK, ReadCount
<1>8. MainOK'
  BY <1>1 DEF MainOK
<1> QED BY <1>1, <1>5, <1>6, <1>7, <1>8 DEF PipeInv

LEMMA StutterStep == ASSUME PipeInv, UNCHANGED vars PROVE PipeInv'
<1>1. /\ UNCHANGED <<sent, writer, wire, cut, reader, item, queue, eof, stopped, main, got>>
  BY DEF vars
<1>2. TypeOK /\ MainOK
  BY DEF PipeInv
<1>3. MainOK'
  BY <1>1, <1>2 DEF MainOK, Eof
<1> QED BY <1>1, <1>2, <1>3, OutsideStep DEF TypeOK

LEMMA PipeStep == ASSUME PipeInv, [Next]_vars PROVE PipeInv'
<1>1. CASE Worker
  BY <1>1, SendStep, WorkerExitsStep, HolderExitsStep DEF Worker
<1>2. CASE Reader
  BY <1>2, ReceiveStep, UnblockStep, PutStep, StoppedStep, SetEofStep, PutEofStep,
     MakeRoomStep DEF Reader
<1>3. CASE Main
  BY <1>3, TakeStep, StartDrainStep, MainStep, CloseStep DEF Main
<1>4. CASE UNCHANGED vars
  BY <1>4, StutterStep
<1> QED BY <1>1, <1>2, <1>3, <1>4 DEF Next

-----------------------------------------------------------------------------
(* The theorems.                                                            *)

\* The pipe is as the invariant describes it in every behaviour.
LEMMA PipeInvariant == Spec => []PipeInv
<1>1. Init => PipeInv
  BY PipeInit
<1>2. PipeInv /\ [Next]_vars => PipeInv'
  BY PipeStep
<1> QED BY <1>1, <1>2, PTL DEF Spec

\* Every variable keeps its type: the bounded queue of _BackgroundPipe never holds more
\* than max_queued_messages, whichever thread is ahead and whoever makes room in it.
THEOREM PipeTypes == Spec => []TypeOK
<1>1. PipeInv => TypeOK
  BY DEF PipeInv
<1> QED BY <1>1, PipeInvariant, PTL

LEMMA FewLost == ASSUME PipeInv PROVE BoundedLoss
<1>1. TypeOK /\ WireOK /\ InOrder /\ MainOK
  BY DEF PipeInv
<1>2. ASSUME main = "drained"
      PROVE  Cardinality(Lost) <= 1 /\ (Load < Capacity => Lost = {})
  <2>1. stopped = FALSE /\ eof = TRUE
    BY <1>1, <1>2, StopFlag DEF MainOK
  <2>2. ReaderOK /\ QueueOK /\ LossOK
    BY <2>1 DEF PipeInv
  <2>3. reader \in {"eof", "full", "done"} /\ wire = <<>>
    BY <2>1, <2>2 DEF ReaderOK, Ended
  <2>4. PutCount = sent /\ sent \in Nat
    <3>1. sent \in Nat /\ ReadCount = sent
      BY <1>1, <2>3, Numbers DEF ReadCount
    <3> QED BY <2>3, <3>1 DEF PutCount
  <2>5. InQueue \subseteq {Eof}
    BY <1>1, <1>2 DEF MainOK, InQueue
  <2>6. Lost = Missing
    <3>1. Eof \notin 1..sent
      BY DEF Eof
    <3> QED BY <2>4, <2>5, <3>1 DEF Lost, Missing
  <2>7. AtMostOne(Missing) /\ (Load < Capacity => Missing = {})
    BY <2>2 DEF LossOK, FewMissing
  <2>8. Cardinality(Missing) <= 1
    <3>1. CASE Missing = {}
      BY <3>1, FS_EmptySet
    <3>2. CASE Missing # {}
      <4>1. PICK x : x \in Missing
        BY <3>2
      <4>2. Missing = {x}
        BY <2>7, <4>1 DEF AtMostOne
      <4> QED BY <4>2, FS_Singleton
    <3> QED BY <3>1, <3>2
  <2> QED BY <2>6, <2>7, <2>8
<1> QED BY <1>1, <1>2 DEF BoundedLoss, Load

\* The main thread sees the frames in order, and after a drain to the end of the stream
\* it has all but at most one of them, and all of them when the stream had fewer items
\* than the queue holds: the eviction that makes room for _PIPE_EOF happens at most once.
THEOREM BoundedLossHolds == Spec => []BoundedLoss
<1>1. PipeInv => BoundedLoss
  BY FewLost
<1> QED BY <1>1, PipeInvariant, PTL
=============================================================================
