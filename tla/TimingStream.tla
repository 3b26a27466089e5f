---------------------------- MODULE TimingStream ----------------------------
(***************************************************************************)
(* follow_operation_timing_events: a daemon thread reads the NDJSON file    *)
(* the controller appends to, while the main thread waits for the controller *)
(* (ColdSnapService._invoke), sets `stop` and joins the reader.  The reader  *)
(* tests `stop` only after a read has come back empty-handed, so the file    *)
(* may have grown in between: each test and each read is a step of its own.  *)
(* The controller is outside this repository: it may append any record, die  *)
(* in the middle of one, or still be running when the wait was interrupted.  *)
(***************************************************************************)
EXTENDS TimingEvents, Sequences

CONSTANTS
    MaxRecords,   \* bound: records the controller writes
    Lead          \* bound: complete records it is ahead of the reader

ASSUME StreamAssumption == MaxRecords \in Nat /\ Lead \in Nat \ {0}

VARIABLES
    file,        \* the event file exists
    unread,      \* complete records beyond the reader's position
    partial,     \* the file ends in the beginning of a record
    written,     \* number of complete records appended
    writer,      \* "running" or "exited": the controller process
    stop,        \* threading.Event
    reader,      \* where the reader thread is
    opened,      \* it holds the file open
    drained,     \* drained_after_stop
    line,        \* the record it holds
    main         \* where _invoke is

disk == <<file, unread, partial, written, writer>>
thread == <<reader, opened, drained, line>>
vars == <<evars, disk, stop, thread, main>>

Record(n) ==
    {e \in [kind : Kinds, seq : {n, n + 1}, id : Spans \cup Clocks \cup {None},
            parent : Spans \cup {None}, clock : Clocks \cup {None}] :
        IF e.kind \in {"span_start", "span_complete"}
        THEN e.id \in Spans /\ e.clock \in Clocks
        ELSE /\ e.parent = None /\ e.clock = None
             /\ IF e.kind = "clock" THEN e.id \in Clocks ELSE e.id = None}

Ended == {"ended", "failed", "truncated"}
Returned == {"joining", "usable", "warned", "unchecked"}

TypeOK ==
    /\ EventsTypeOK
    /\ file \in BOOLEAN /\ partial \in BOOLEAN /\ stop \in BOOLEAN
    /\ unread \in Seq(Event) /\ Len(unread) <= Lead
    /\ written \in 0..MaxRecords
    /\ writer \in {"running", "exited"}
    /\ reader \in {"open", "absent", "read", "partial", "accept", "eof"} \cup Ended
    /\ opened \in BOOLEAN /\ drained \in BOOLEAN
    /\ line \in Event \cup {None}
    /\ reader = "accept" => line \in Event
    /\ main \in {"waiting", "interrupted", "raised"} \cup Returned

Init ==
    /\ EventsInit
    /\ file = FALSE /\ unread = <<>> /\ partial = FALSE /\ written = 0
    /\ writer = "running" /\ stop = FALSE
    /\ reader = "open" /\ opened = FALSE /\ drained = FALSE /\ line = None
    /\ main = "waiting"
-----------------------------------------------------------------------------
(* The controller: an external process. *)

CreateFile ==
    /\ writer = "running" /\ ~file
    /\ file' = TRUE
    /\ UNCHANGED <<evars, unread, partial, written, writer, stop, thread, main>>

BeginRecord ==
    /\ writer = "running" /\ file /\ ~partial /\ written < MaxRecords
    /\ partial' = TRUE
    /\ UNCHANGED <<evars, file, unread, written, writer, stop, thread, main>>

EndRecord ==
    /\ writer = "running" /\ partial
    /\ Len(unread) < Lead /\ written < MaxRecords
    /\ \E e \in Record(written + 1) : unread' = Append(unread, e)
    /\ partial' = FALSE /\ written' = written + 1
    /\ UNCHANGED <<evars, file, writer, stop, thread, main>>

\* Exit or death: a half-written record stays as it is.
ExitController ==
    /\ writer = "running"
    /\ writer' = "exited"
    /\ UNCHANGED <<evars, file, unread, partial, written, stop, thread, main>>
-----------------------------------------------------------------------------
(* The reader thread. *)

Open ==
    /\ reader = "open"
    /\ reader' = IF file THEN "read" ELSE "absent"
    /\ opened' = file
    /\ UNCHANGED <<evars, disk, stop, drained, line, main>>

\* Mutant: only the end of an open file looks at stop.
CheckAbsentAgain ==
    /\ reader = "absent"
    /\ reader' = "open"
    /\ UNCHANGED <<evars, disk, stop, opened, drained, line, main>>

\* FileNotFoundError: give up at once when told to stop.
CheckAbsent ==
    /\ reader = "absent"
    /\ reader' = IF stop THEN "ended" ELSE "open"
    /\ UNCHANGED <<evars, disk, stop, opened, drained, line, main>>

\* readline(): a record, the beginning of one, or nothing.
Read ==
    /\ reader = "read"
    /\ IF unread # <<>>
       THEN /\ line' = Head(unread) /\ unread' = Tail(unread)
            /\ reader' = "accept"
       ELSE /\ reader' = IF partial THEN "partial" ELSE "eof"
            /\ UNCHANGED <<line, unread>>
    /\ UNCHANGED <<evars, file, partial, written, writer, stop, opened, drained, main>>

\* A partial record is an error once stop is set; else seek back and retry.
CheckPartial ==
    /\ reader = "partial"
    /\ reader' = IF stop THEN "truncated" ELSE "read"
    /\ UNCHANGED <<evars, disk, stop, opened, drained, line, main>>

AcceptRecord ==
    /\ reader = "accept"
    /\ Accept(line)
    /\ reader' = "read" /\ line' = None
    /\ UNCHANGED <<disk, stop, opened, drained, main>>

\* accept() raises; the number is consumed once order and identity are right.
RejectRecord ==
    /\ reader = "accept"
    /\ ~Valid(line)
    /\ sequence' = IF InOrder(line) THEN sequence + 1 ELSE sequence
    /\ reader' = "failed" /\ line' = None
    /\ UNCHANGED <<started, completed, clocks, spans, active, disk, stop,
                   opened, drained, main>>

\* Mutant: the first stop ends the reader.
CheckEofOnce ==
    /\ reader = "eof"
    /\ reader' = IF stop THEN "ended" ELSE "read"
    /\ UNCHANGED <<evars, disk, stop, opened, drained, line, main>>

\* At the end of the file: after stop, one more pass.
CheckEof ==
    /\ reader = "eof"
    /\ reader' = IF stop /\ drained THEN "ended" ELSE "read"
    /\ drained' = (drained \/ stop)
    /\ UNCHANGED <<evars, disk, stop, opened, line, main>>

ReaderStep == Open \/ CheckAbsent \/ Read \/ CheckPartial \/ AcceptRecord
                \/ RejectRecord \/ CheckEof
-----------------------------------------------------------------------------
(* The main thread. *)

\* run_command returned.
ControllerReturned ==
    /\ main = "waiting" /\ writer = "exited"
    /\ stop' = TRUE /\ main' = "joining"
    /\ UNCHANGED <<evars, disk, thread>>

\* run_command raised, with the controller dead or alive.
ControllerInterrupted ==
    /\ main = "waiting"
    /\ stop' = TRUE /\ main' = "interrupted"
    /\ UNCHANGED <<evars, disk, thread>>

\* Mutant: a stream that reached its last record is believed.
FinishAnyEnd(receipt) ==
    IF completed /\ receipt = "same" THEN "usable" ELSE "warned"

\* The verdict on the stream: an error of the thread, no receipt to compare
\* with, or finish(receipt).
Finish(receipt) ==
    IF reader # "ended" THEN "warned"
    ELSE IF receipt = "none" THEN "unchecked"
    ELSE IF completed /\ receipt = "same" THEN "usable" ELSE "warned"

\* join() came back and the receipt was read; reading it may raise.
Join ==
    /\ reader \in Ended
    /\ \/ main = "joining" /\ \E r \in {"none", "same", "other"} : main' = Finish(r)
       \/ main \in {"joining", "interrupted"} /\ main' = "raised"
    /\ UNCHANGED <<evars, disk, stop, thread>>

Next ==
    \/ CreateFile \/ BeginRecord \/ EndRecord \/ ExitController
    \/ ReaderStep
    \/ ControllerReturned \/ ControllerInterrupted \/ Join

Spec == Init /\ [][Next]_vars

\* The scheduler runs the two threads.  Nothing is assumed of the controller.
FairSpec == Spec /\ WF_vars(ReaderStep) /\ WF_vars(Join)
-----------------------------------------------------------------------------
\* What _invoke calls usable is the whole stream of a controller that is gone:
\* every record was accepted, nothing follows the last one, and no span is open.
UsableMeansWhole ==
    main = "usable" =>
        /\ sequence = written /\ unread = <<>> /\ ~partial
        /\ \A s \in DOMAIN spans : spans[s].done

\* "One more pass after seeing stop reads them", for a file that was opened in
\* time: when the controller was gone before stop, nothing is left behind.
OpenedStreamKept ==
    main \in Returned /\ reader = "ended" /\ opened => unread = <<>> /\ ~partial

\* What the reader still has to do, at most: the events it may accept, and its way
\* from one of them to its end.
ReaderLeft ==
    LET pass == IF drained THEN 0 ELSE 2
        way == [open |-> 5, read |-> 2 + pass, accept |-> 1 + pass, eof |-> 1 + pass,
                absent |-> 1, partial |-> 1, ended |-> 0, failed |-> 0, truncated |-> 0]
    IN  2 * (MaxEvents - sequence) + way[reader]

\* After stop each step of the reader uses up some of it, and nothing that the
\* controller goes on to write gives it more: what ends a reader whose controller
\* does not is the limit of events.
ReaderRunsOut ==
    [][stop => 0 <= ReaderLeft' /\ ReaderLeft' < ReaderLeft]_<<evars, thread>>

\* Once told to stop, the reader ends and the main thread gets past join(),
\* whatever a controller that is still running goes on to write.
StopEndsReader == stop ~> main \notin {"waiting", "joining", "interrupted"}
=============================================================================
