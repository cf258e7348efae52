-------------------------------- MODULE Pipe --------------------------------
(***************************************************************************)
(* The pipe from one worker to the main process: the worker writes frames, *)
(* a reader thread of the main process moves them into a bounded queue,    *)
(* and the main thread polls that queue, drains it when the worker is      *)
(* done, and closes it.  A frame is its number.                            *)
(***************************************************************************)
EXTENDS Naturals, Sequences, FiniteSets

CONSTANTS
    Capacity,       \* max_queued_messages
    Buffer,         \* frames the operating system's pipe holds
    MaxMessages,    \* bound: frames the worker sends
    Inherited       \* a child of the worker may hold the write end open

ASSUME PipeAssumption ==
    /\ Capacity \in Nat \ {0} /\ Buffer \in Nat \ {0} /\ MaxMessages \in Nat
    /\ Inherited \in BOOLEAN

VARIABLES
    sent,       \* frames the worker has written in full
    writer,     \* the write end: "open", "held" by a child of a dead worker, "closed"
    wire,       \* the frames in the operating system's pipe
    cut,        \* the worker died within a frame
    reader,     \* the reader thread
    item,       \* what the reader thread is about to queue
    queue,      \* the bounded queue
    eof,        \* the _eof event
    stopped,    \* the _stop event
    main,       \* the main thread, as far as this pipe goes
    got         \* the messages the main thread has taken

vars == <<sent, writer, wire, cut, reader, item, queue, eof, stopped, main, got>>

Eof == 0                     \* _PIPE_EOF
Fault == MaxMessages + 1     \* an OSError, which the channel logs and ignores
Messages == 1..MaxMessages

-----------------------------------------------------------------------------
(* The worker.                                                              *)

\* send_message blocks while the pipe is full.
Send ==
    /\ writer = "open"
    /\ sent < MaxMessages
    /\ Len(wire) < Buffer
    /\ sent' = sent + 1
    /\ wire' = Append(wire, sent + 1)
    /\ UNCHANGED <<writer, cut, reader, item, queue, eof, stopped, main, got>>

\* The process ends, of itself or killed, perhaps in the middle of a frame.
Dies ==
    /\ writer' \in {"closed"} \cup IF Inherited THEN {"held"} ELSE {}
    /\ cut' \in {FALSE} \cup IF sent < MaxMessages THEN {TRUE} ELSE {}

WorkerExits ==
    /\ writer = "open"
    /\ Dies
    /\ UNCHANGED <<sent, wire, reader, item, queue, eof, stopped, main, got>>

HolderExits ==
    /\ writer = "held"
    /\ writer' = "closed"
    /\ UNCHANGED <<sent, wire, cut, reader, item, queue, eof, stopped, main, got>>

-----------------------------------------------------------------------------
(* The reader thread.                                                       *)

\* poll and recv_bytes: a frame; the end of the stream, as EOFError or, within
\* a frame, as OSError.  Within a frame whose writer lives, recv_bytes blocks.
Receive ==
    /\ reader = "polling" /\ ~ stopped
    /\ \/ /\ wire # <<>>
          /\ item' = Head(wire)
          /\ wire' = Tail(wire)
          /\ reader' = "putting"
       \/ /\ wire = <<>> /\ writer = "closed"
          /\ reader' = "ending"
          /\ UNCHANGED <<item, wire>>
       \/ /\ wire = <<>> /\ writer = "closed" /\ cut
          /\ item' = Fault
          /\ reader' = "putting"
          /\ UNCHANGED wire
       \/ /\ wire = <<>> /\ writer = "held" /\ cut
          /\ reader' = "blocked"
          /\ UNCHANGED <<item, wire>>
    /\ UNCHANGED <<sent, writer, cut, queue, eof, stopped, main, got>>

Unblock ==
    /\ reader = "blocked" /\ writer = "closed"
    /\ item' = Fault
    /\ reader' = IF stopped THEN "ending" ELSE "putting"
    /\ UNCHANGED <<sent, writer, wire, cut, queue, eof, stopped, main, got>>

\* _put_item of a frame or an exception: waits for a free slot.
Put ==
    /\ reader = "putting"
    /\ IF stopped
       THEN /\ reader' = "ending"
            /\ UNCHANGED queue
       ELSE /\ Len(queue) < Capacity
            /\ queue' = Append(queue, item)
            /\ reader' = IF item = Fault THEN "ending" ELSE "polling"
    /\ UNCHANGED <<sent, writer, wire, cut, item, eof, stopped, main, got>>

Stopped ==
    /\ reader = "polling" /\ stopped
    /\ reader' = "ending"
    /\ UNCHANGED <<sent, writer, wire, cut, item, queue, eof, stopped, main, got>>

\* The finally block: the event first, then _PIPE_EOF into the queue.
SetEof ==
    /\ reader = "ending"
    /\ eof' = TRUE
    /\ reader' = "eof"
    /\ UNCHANGED <<sent, writer, wire, cut, item, queue, stopped, main, got>>

PutEof ==
    /\ reader = "eof"
    /\ IF stopped
       THEN reader' = "done" /\ UNCHANGED queue
       ELSE IF Len(queue) < Capacity
            THEN reader' = "done" /\ queue' = Append(queue, Eof)
            ELSE reader' = "full" /\ UNCHANGED queue
    /\ UNCHANGED <<sent, writer, wire, cut, item, eof, stopped, main, got>>

\* queue.Full was raised for _PIPE_EOF: an item is taken out and thrown away,
\* though the main thread may have made room since.
MakeRoom ==
    /\ reader = "full"
    /\ queue' = IF queue = <<>> THEN queue ELSE Tail(queue)
    /\ reader' = "eof"
    /\ UNCHANGED <<sent, writer, wire, cut, item, eof, stopped, main, got>>

-----------------------------------------------------------------------------
(* The main thread.                                                         *)

\* One get of take_raw; a poll may stop after any of them.
Take ==
    /\ main \in {"idle", "draining", "last"}
    /\ queue # <<>>
    /\ queue' = Tail(queue)
    /\ eof' = (eof \/ Head(queue) = Eof)
    /\ got' = IF Head(queue) \in Messages THEN Append(got, Head(queue)) ELSE got
    /\ main' = IF main = "last" /\ Head(queue) = Eof THEN "drained" ELSE main
    /\ UNCHANGED <<sent, writer, wire, cut, reader, item, stopped>>

\* The channel collects the outcome: the process is killed, then drain_to_eof.
StartDrain ==
    /\ main = "idle"
    /\ main' = "draining"
    /\ IF writer = "open" THEN Dies ELSE UNCHANGED <<writer, cut>>
    /\ UNCHANGED <<sent, wire, reader, item, queue, eof, stopped, got>>

\* Faulty variant: what is queued when the event is seen is not taken.
SeeEofAtOnce ==
    /\ main = "draining" /\ eof
    /\ main' = "drained"
    /\ UNCHANGED <<sent, writer, wire, cut, reader, item, queue, eof, stopped, got>>

\* The event is seen: one more pass over the queue.
SeeEof ==
    /\ main = "draining" /\ eof
    /\ main' = "last"
    /\ UNCHANGED <<sent, writer, wire, cut, reader, item, queue, eof, stopped, got>>

LastPass ==
    /\ main = "last" /\ queue = <<>>
    /\ main' = "drained"
    /\ UNCHANGED <<sent, writer, wire, cut, reader, item, queue, eof, stopped, got>>

\* Faulty variant: there is no deadline.
DrainForever ==
    /\ main = "draining" /\ eof
    /\ UNCHANGED vars

\* The write end is still held when the deadline passes.
DrainTimesOut ==
    /\ main = "draining" /\ ~ eof /\ writer = "held"
    /\ main' = "gave_up"
    /\ UNCHANGED <<sent, writer, wire, cut, reader, item, queue, eof, stopped, got>>

\* close: stop the thread, throw away what is queued, join the thread.
Close ==
    /\ main \in {"drained", "gave_up"}
    /\ main' = "closing"
    /\ stopped' = TRUE
    /\ queue' = <<>>
    /\ UNCHANGED <<sent, writer, wire, cut, reader, item, eof, got>>

\* cleanup_in_flight, for a worker that could not be tracked: no drain.
Abandon ==
    /\ main = "idle"
    /\ main' = "closing"
    /\ IF writer = "open" THEN Dies ELSE UNCHANGED <<writer, cut>>
    /\ stopped' = TRUE
    /\ queue' = <<>>
    /\ UNCHANGED <<sent, wire, reader, item, eof, got>>

Join ==
    /\ main = "closing"
    /\ \/ reader = "done" /\ main' = "closed"
       \/ reader = "blocked" /\ main' = "close_failed"
    /\ UNCHANGED <<sent, writer, wire, cut, reader, item, queue, eof, stopped, got>>

-----------------------------------------------------------------------------
Init ==
    /\ sent = 0 /\ writer = "open" /\ wire = <<>> /\ cut = FALSE
    /\ reader = "polling" /\ item = Eof /\ queue = <<>>
    /\ eof = FALSE /\ stopped = FALSE
    /\ main = "idle" /\ got = <<>>

Worker == Send \/ WorkerExits \/ HolderExits
Reader == Receive \/ Unblock \/ Put \/ Stopped \/ SetEof \/ PutEof \/ MakeRoom
Main == Take \/ StartDrain \/ SeeEof \/ LastPass \/ DrainTimesOut \/ Close
        \/ Abandon \/ Join

Next == Worker \/ Reader \/ Main

Spec == Init /\ [][Next]_vars

\* Both threads of the main process go on; the worker owes nothing.
FairSpec == Spec /\ WF_vars(Reader) /\ WF_vars(Main)

-----------------------------------------------------------------------------
(* Properties.                                                              *)

Taken == {got[i] : i \in DOMAIN got}
Lost == (1..sent) \ Taken

TypeOK ==
    /\ sent \in 0..MaxMessages
    /\ writer \in {"open", "held", "closed"} /\ cut \in BOOLEAN
    /\ wire \in Seq(Messages) /\ Len(wire) <= Buffer
    /\ reader \in {"polling", "putting", "blocked", "ending", "eof", "full", "done"}
    /\ item \in 0..Fault
    /\ queue \in Seq(0..Fault) /\ Len(queue) <= Capacity
    /\ eof \in BOOLEAN /\ stopped \in BOOLEAN
    /\ main \in {"idle", "draining", "last", "drained", "gave_up", "closing",
                 "closed", "close_failed"}
    /\ got \in Seq(Messages)

InOrder == \A i, j \in DOMAIN got : i < j => got[i] < got[j]

\* The main thread sees the frames in the order they were written, none twice,
\* whichever of the two threads is ahead.  A drain that ended at the end of the
\* stream has every frame but at most one, and every frame when there were fewer
\* items (the OSError of a frame cut short is one) than the queue holds: room for
\* _PIPE_EOF is made at most once.
BoundedLoss ==
    /\ InOrder
    /\ main = "drained" => /\ Cardinality(Lost) <= 1
                           /\ sent + (IF cut THEN 1 ELSE 0) < Capacity => Lost = {}

\* The bounded queue pushes back and loses nothing: after a drain to the end
\* of the stream the main thread has every frame.
Lossless == main = "drained" => Lost = {}

\* A drain ends, and so does a close: the main thread closes the pipe, or
\* reports that it cannot because the write end is held within a frame.
Released == main \in {"draining", "closing"} ~> main \in {"closed", "close_failed"}
=============================================================================
