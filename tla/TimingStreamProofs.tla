------------------------- MODULE TimingStreamProofs -------------------------
(***************************************************************************)
(* Proofs about TimingStream for any spans and clocks, any event limit, any  *)
(* length of the stream and any lead of the controller over the reader.      *)
(***************************************************************************)
EXTENDS TimingStream, SequenceTheorems, TLAPS

LEMMA RecordIsEvent == \A n \in Nat : Record(n) \subseteq Event
  BY DEF Record, Event

LEMMA TypeInit == Init => TypeOK
<1> SUFFICES ASSUME Init PROVE TypeOK
  OBVIOUS
<1>1. EventsTypeOK
  <2>1. DOMAIN spans \in SUBSET Spans /\ spans \in [DOMAIN spans -> Span]
    BY DEF Init, EventsInit
  <2>2. sequence \in 0..MaxEvents
    BY EventAssumption DEF EventAssumption, Init, EventsInit
  <2>3. QED
    BY <2>1, <2>2 DEF Init, EventsInit, EventsTypeOK
<1>2. unread \in Seq(Event) /\ Len(unread) <= Lead
  BY StreamAssumption DEF StreamAssumption, Init
<1>3. written \in 0..MaxRecords
  BY StreamAssumption DEF StreamAssumption, Init
<1>4. QED
  BY <1>1, <1>2, <1>3 DEF Init, TypeOK, Ended, Returned

\* An accepted event keeps the types of the reader's view.
LEMMA AcceptType ==
    ASSUME EventsTypeOK, NEW e \in Event, Accept(e)
    PROVE  EventsTypeOK'
<1>1. sequence' \in 0..MaxEvents
  BY EventAssumption DEF EventAssumption, EventsTypeOK, Accept, Valid, InOrder, Event
<1>2. started' \in BOOLEAN
  BY DEF Accept
<1>3. completed' \in BOOLEAN
  BY Zenon DEF Accept
<1>4. clocks' \in SUBSET Clocks
  BY DEF EventsTypeOK, Accept, Valid, ValidClock
<1>5. active' \in SUBSET Shown
  BY DEF EventsTypeOK, Accept, Progress
<1>6. DOMAIN spans' \in SUBSET Spans /\ spans' \in [DOMAIN spans' -> Span]
  <2>1. CASE e.kind \in {"span_start", "span_complete"}
    <3>1. e.id \in Spans /\ e.clock \in Clocks /\ e.parent \in Spans \cup {None}
      BY <2>1 DEF EventsTypeOK, Accept, Valid, ValidSpan, Event
    <3> DEFINE new == [done |-> e.kind = "span_complete",
                       parent |-> e.parent, clock |-> e.clock]
    <3>2. (e.kind = "span_complete") \in BOOLEAN
      OBVIOUS
    <3>3. new \in Span
      BY <3>1, <3>2 DEF Span
    <3>4. spans' = [s \in DOMAIN spans \cup {e.id} |-> IF s = e.id THEN new ELSE spans[s]]
      BY <2>1 DEF Accept
    <3> HIDE DEF new
    <3>5. \A s \in DOMAIN spans : spans[s] \in Span
      BY DEF EventsTypeOK
    <3>6. QED
      BY <3>1, <3>3, <3>4, <3>5 DEF EventsTypeOK
  <2>2. CASE e.kind \notin {"span_start", "span_complete"}
    BY <2>2 DEF EventsTypeOK, Accept
  <2>3. QED
    BY <2>1, <2>2
<1>7. QED
  BY <1>1, <1>2, <1>3, <1>4, <1>5, <1>6 DEF EventsTypeOK

\* Every step of the controller and of both threads keeps the types.
LEMMA TypeStep == TypeOK /\ [Next]_vars => TypeOK'
<1> SUFFICES ASSUME TypeOK, [Next]_vars PROVE TypeOK'
  OBVIOUS
<1> USE DEF disk, thread
<1>1. CASE UNCHANGED vars
  BY <1>1 DEF vars, evars, TypeOK, EventsTypeOK
<1>2. ASSUME UNCHANGED evars PROVE EventsTypeOK'
  BY <1>2 DEF TypeOK, EventsTypeOK, evars
<1>3. CASE CreateFile \/ BeginRecord \/ ExitController
  BY <1>2, <1>3 DEF TypeOK, CreateFile, BeginRecord, ExitController
<1>4. CASE EndRecord
  <2>1. PICK e \in Record(written + 1) : unread' = Append(unread, e)
    BY <1>4 DEF EndRecord
  <2>2. e \in Event /\ written' \in 0..MaxRecords
    <3>1. written + 1 \in Nat
      BY StreamAssumption DEF StreamAssumption, TypeOK
    <3>2. e \in Event
      BY <2>1, <3>1, RecordIsEvent
    <3>3. written + 1 \in 0..MaxRecords
      BY <1>4, StreamAssumption DEF StreamAssumption, EndRecord, TypeOK
    <3>4. QED
      BY <1>4, <3>2, <3>3 DEF EndRecord
  <2>3. unread' \in Seq(Event) /\ Len(unread') <= Lead
    BY <1>4, <2>1, <2>2, StreamAssumption DEF StreamAssumption, EndRecord, TypeOK
  <2>4. QED
    BY <1>2, <1>4, <2>2, <2>3 DEF TypeOK, EndRecord
<1>5. CASE Open \/ CheckAbsent \/ CheckPartial
  BY <1>2, <1>5 DEF TypeOK, Open, CheckAbsent, CheckPartial, Ended
<1>6. CASE Read
  <2>1. CASE unread # <<>>
    <3>1. Head(unread) \in Event /\ Tail(unread) \in Seq(Event)
            /\ Len(Tail(unread)) <= Lead
      BY <2>1, HeadTailProperties, StreamAssumption DEF TypeOK, StreamAssumption
    <3>2. QED
      BY <1>2, <1>6, <2>1, <3>1 DEF TypeOK, Read
  <2>2. CASE unread = <<>>
    BY <1>2, <1>6, <2>2 DEF TypeOK, Read
  <2>3. QED
    BY <2>1, <2>2
<1>7. CASE AcceptRecord
  <2>1. EventsTypeOK'
    BY <1>7, AcceptType DEF TypeOK, AcceptRecord
  <2>2. QED
    BY <1>7, <2>1 DEF TypeOK, AcceptRecord
<1>8. CASE RejectRecord
  <2>1. line \in Event
    BY <1>8 DEF TypeOK, RejectRecord
  <2>2. sequence' \in 0..MaxEvents
    BY <1>8, <2>1, EventAssumption
       DEF EventAssumption, TypeOK, EventsTypeOK, RejectRecord, InOrder, Event
  <2>3. EventsTypeOK'
    BY <1>8, <2>2 DEF TypeOK, EventsTypeOK, RejectRecord
  <2>4. QED
    BY <1>8, <2>3 DEF TypeOK, RejectRecord, Ended
<1>9. CASE CheckEof
  <2>1. drained' \in BOOLEAN
    BY <1>9, Zenon DEF CheckEof
  <2>2. QED
    BY <1>2, <1>9, <2>1 DEF TypeOK, CheckEof, Ended
<1>10. CASE ControllerReturned \/ ControllerInterrupted
  BY <1>2, <1>10 DEF TypeOK, ControllerReturned, ControllerInterrupted, Returned
<1>11. CASE Join
  BY <1>2, <1>11 DEF TypeOK, Join, Finish, Returned
<1>12. QED
  BY <1>1, <1>3, <1>4, <1>5, <1>6, <1>7, <1>8, <1>9, <1>10, <1>11 DEF Next, ReaderStep

\* The types of the stream, its reader and its file, for all constants.
THEOREM TypeCorrect == Spec => []TypeOK
<1>1. QED
  BY TypeInit, TypeStep, PTL DEF Spec
-----------------------------------------------------------------------------
\* Parents are known, and the spans the heartbeat shows are open.
ParentsKnown == \A s \in DOMAIN spans : spans[s].parent \in DOMAIN spans \cup {None}

EventsInv == /\ ParentsKnown /\ ParentsFormForest
             /\ ActiveIsOpen /\ CompletedIsClosed

LEMMA EventsInvInit == Init => EventsInv
  BY DEF Init, EventsInit, EventsInv, ParentsKnown, ParentsFormForest,
         ActiveIsOpen, CompletedIsClosed

\* Parents only point to spans that were known before, or stay as they are.
LEMMA AcceptForest ==
    ASSUME EventsTypeOK, NEW e \in Event, Accept(e), ParentsKnown, ParentsFormForest
    PROVE  ParentsKnown' /\ ParentsFormForest'
<1>1. CASE e.kind \notin {"span_start", "span_complete"}
  BY <1>1 DEF Accept, ParentsKnown, ParentsFormForest
<1>2. CASE e.kind \in {"span_start", "span_complete"}
  <2>1. /\ DOMAIN spans' = DOMAIN spans \cup {e.id}
        /\ \A s \in DOMAIN spans \ {e.id} : spans'[s] = spans[s]
        /\ spans'[e.id].parent = e.parent
    BY <1>2 DEF Accept
  <2>2. e.parent \in DOMAIN spans \cup {None} /\ e.id \in Spans
    BY <1>2 DEF Accept, Valid, ValidSpan
  <2>3. e.id \in DOMAIN spans => spans[e.id].parent = e.parent
    BY <1>2 DEF Accept, Valid, ValidSpan
  <2>4. \A s \in DOMAIN spans : spans'[s].parent = spans[s].parent
    BY <2>1, <2>3
  <2>5. ParentsKnown'
    BY <2>1, <2>2, <2>4 DEF ParentsKnown
  <2>6. ParentsFormForest'
    <3> SUFFICES ASSUME NEW S \in SUBSET DOMAIN spans', S # {}
                 PROVE  \E s \in S : spans'[s].parent \notin S
      BY DEF ParentsFormForest
    <3>1. CASE S \subseteq DOMAIN spans
      BY <2>4, <3>1 DEF ParentsFormForest
    <3>2. CASE ~(S \subseteq DOMAIN spans)
      <4>1. e.id \in S /\ e.id \notin DOMAIN spans
        BY <2>1, <3>2
      <4>2. CASE S = {e.id}
        <5>1. e.parent # e.id
          BY <2>2, <4>1, EventAssumption DEF EventAssumption
        <5>2. QED
          BY <2>1, <4>1, <4>2, <5>1
      <4>3. CASE S # {e.id}
        <5>1. S \ {e.id} # {} /\ S \ {e.id} \in SUBSET DOMAIN spans
          BY <2>1, <4>1, <4>3
        <5>2. PICK s \in S \ {e.id} : spans[s].parent \notin S \ {e.id}
          BY <5>1 DEF ParentsFormForest
        <5>3. s \in DOMAIN spans /\ spans[s].parent # e.id
          BY <2>2, <4>1, <5>1, <5>2, EventAssumption DEF EventAssumption, ParentsKnown
        <5>4. spans'[s].parent \notin S
          BY <2>4, <5>2, <5>3
        <5>5. QED
          BY <5>4
      <4>4. QED
        BY <4>2, <4>3
    <3>3. QED
      BY <3>1, <3>2
  <2>7. QED
    BY <2>5, <2>6
<1>3. QED
  BY <1>1, <1>2

\* The heartbeat follows the spans, and the end of the stream closes them all.
LEMMA AcceptOpen ==
    ASSUME EventsTypeOK, NEW e \in Event, Accept(e), ActiveIsOpen, CompletedIsClosed
    PROVE  ActiveIsOpen' /\ CompletedIsClosed'
<1>1. CASE e.kind = "span_start"
  <2>1. /\ DOMAIN spans' = DOMAIN spans \cup {e.id}
        /\ \A s \in DOMAIN spans \ {e.id} : spans'[s] = spans[s]
        /\ ~spans'[e.id].done
        /\ active' = active \cup ({e.id} \cap Shown)
    BY <1>1 DEF Accept, Progress
  <2>2. ~completed'
    BY <1>1, Zenon DEF Accept
  <2>3. QED
    BY <2>1, <2>2 DEF ActiveIsOpen, CompletedIsClosed
<1>2. CASE e.kind = "span_complete"
  <2>1. /\ DOMAIN spans' = DOMAIN spans \cup {e.id}
        /\ \A s \in DOMAIN spans \ {e.id} : spans'[s] = spans[s]
        /\ active' = active \ {e.id}
    BY <1>2 DEF Accept, Progress
  <2>2. ~completed'
    BY <1>2, Zenon DEF Accept
  <2>3. QED
    BY <2>1, <2>2 DEF ActiveIsOpen, CompletedIsClosed
<1>3. CASE e.kind \notin {"span_start", "span_complete"}
  <2>1. spans' = spans /\ active' = active
    BY <1>3 DEF Accept, Progress
  <2>2. completed' => e.kind = "stream_complete"
    BY Zenon DEF Accept
  <2>3. completed' => \A s \in DOMAIN spans : spans[s].done
    BY <2>2 DEF Accept, Valid, ValidComplete
  <2>4. QED
    BY <2>1, <2>3 DEF ActiveIsOpen, CompletedIsClosed
<1>4. QED
  BY <1>1, <1>2, <1>3

LEMMA EventsInvStep == TypeOK /\ EventsInv /\ [Next]_vars => EventsInv'
<1> SUFFICES ASSUME TypeOK, EventsInv, [Next]_vars PROVE EventsInv'
  OBVIOUS
<1>1. CASE AcceptRecord
  <2>1. line \in Event /\ Accept(line) /\ EventsTypeOK
    BY <1>1 DEF TypeOK, AcceptRecord
  <2>2. QED
    BY <2>1, AcceptForest, AcceptOpen DEF EventsInv
<1>2. CASE ~AcceptRecord
  <2>1. UNCHANGED <<spans, active, completed>>
    BY <1>2 DEF Next, vars, evars, ReaderStep, CreateFile, BeginRecord, EndRecord,
       ExitController, Open, CheckAbsent, Read, CheckPartial, RejectRecord, CheckEof,
       ControllerReturned, ControllerInterrupted, Join
  <2>2. QED
    BY <2>1 DEF EventsInv, ParentsKnown, ParentsFormForest, ActiveIsOpen,
       CompletedIsClosed
<1>3. QED
  BY <1>1, <1>2

\* However the controller numbers and nests its spans, following parents ends.
THEOREM ForestAlways == Spec => []ParentsFormForest
<1>1. EventsInv => ParentsFormForest
  BY DEF EventsInv
<1>2. QED
  BY <1>1, TypeInit, TypeStep, EventsInvInit, EventsInvStep, PTL DEF Spec

\* An accepted end leaves no span open and the heartbeat with nothing to show.
THEOREM CompletedIsClosedAlways == Spec => []CompletedIsClosed
<1>1. EventsInv => CompletedIsClosed
  BY DEF EventsInv
<1>2. QED
  BY <1>1, TypeInit, TypeStep, EventsInvInit, EventsInvStep, PTL DEF Spec
-----------------------------------------------------------------------------
\* No record is lost or read twice while the reader lives.
Held == IF reader = "accept" THEN 1 ELSE 0

CountInv == reader # "failed" => sequence + Held + Len(unread) = written

\* What the two threads know of each other: stop is set with the verdict of the
\* wait, the second pass follows stop, and a file is left only through eof.
StopInv ==
    /\ stop <=> main # "waiting"
    /\ main \in Returned => writer = "exited"
    /\ drained => stop
    /\ reader \in {"ended", "truncated"} => stop
    /\ opened => reader \notin {"open", "absent"}
    /\ ~opened => reader \in {"open", "absent", "ended"} /\ ~completed
    /\ main = "usable" => reader = "ended" /\ completed

\* After stop, the second look at the end of the file found nothing.
DrainInv ==
    main \in Returned /\ opened
      /\ (reader = "ended" \/ (reader = "eof" /\ drained))
    => unread = <<>> /\ ~partial

FlowInv == CountInv /\ StopInv /\ DrainInv

LEMMA FlowInit == Init => FlowInv
  BY DEF Init, EventsInit, FlowInv, CountInv, Held, StopInv, DrainInv, Returned

LEMMA FlowStep == TypeOK /\ FlowInv /\ [Next]_vars => FlowInv'
<1> SUFFICES ASSUME TypeOK, FlowInv, [Next]_vars PROVE FlowInv'
  OBVIOUS
<1>0. /\ sequence \in Nat /\ written \in Nat /\ Len(unread) \in Nat
      /\ unread \in Seq(Event)
  BY DEF TypeOK, EventsTypeOK
<1> USE DEF disk, thread, Ended, Returned
<1>1. CASE UNCHANGED vars
  BY <1>1 DEF vars, evars, FlowInv, CountInv, Held, StopInv, DrainInv
<1>2. CASE CreateFile \/ BeginRecord \/ ExitController
  BY <1>2 DEF evars, FlowInv, CountInv, Held, StopInv, DrainInv,
     CreateFile, BeginRecord, ExitController
<1>3. CASE EndRecord
  <2>1. PICK e \in Record(written + 1) : unread' = Append(unread, e)
    BY <1>3 DEF EndRecord
  <2>2. e \in Event
    BY <1>0, <2>1, RecordIsEvent
  <2>3. Len(unread') = Len(unread) + 1
    BY <1>0, <2>1, <2>2
  <2>4. CountInv'
    BY <1>0, <1>3, <2>3 DEF EndRecord, evars, FlowInv, CountInv, Held
  <2>5. QED
    BY <1>3, <2>4 DEF EndRecord, evars, FlowInv, StopInv, DrainInv
<1>4. CASE Open \/ CheckAbsent \/ CheckPartial \/ CheckEof
  BY <1>0, <1>4 DEF evars, FlowInv, CountInv, Held, StopInv, DrainInv,
     Open, CheckAbsent, CheckPartial, CheckEof, TypeOK
<1>5. CASE Read
  <2>1. CASE unread # <<>>
    <3>1. Len(unread') = Len(unread) - 1
      BY <1>0, <1>5, <2>1, HeadTailProperties DEF Read
    <3>2. CountInv'
      BY <1>0, <1>5, <2>1, <3>1 DEF Read, evars, FlowInv, CountInv, Held
    <3>3. QED
      BY <1>5, <2>1, <3>2 DEF Read, evars, FlowInv, StopInv, DrainInv
  <2>2. CASE unread = <<>>
    BY <1>5, <2>2 DEF Read, evars, FlowInv, CountInv, Held, StopInv, DrainInv
  <2>3. QED
    BY <2>1, <2>2
<1>6. CASE AcceptRecord
  <2>1. sequence' = sequence + 1
    BY <1>6 DEF AcceptRecord, Accept
  <2>2. CountInv'
    BY <1>0, <1>6, <2>1 DEF AcceptRecord, FlowInv, CountInv, Held
  <2>3. opened /\ main # "usable"
    BY <1>6 DEF AcceptRecord, FlowInv, StopInv
  <2>4. QED
    BY <1>6, <2>2, <2>3 DEF AcceptRecord, FlowInv, StopInv, DrainInv
<1>7. CASE RejectRecord
  BY <1>7 DEF RejectRecord, FlowInv, CountInv, StopInv, DrainInv
<1>8. CASE ControllerReturned \/ ControllerInterrupted
  BY <1>8 DEF ControllerReturned, ControllerInterrupted, evars, FlowInv, CountInv,
     Held, StopInv, DrainInv, TypeOK
<1>9. CASE Join
  BY <1>9 DEF Join, Finish, evars, FlowInv, CountInv, Held, StopInv, DrainInv, TypeOK
<1>10. QED
  BY <1>1, <1>2, <1>3, <1>4, <1>5, <1>6, <1>7, <1>8, <1>9 DEF Next, ReaderStep

\* The second pass after stop leaves nothing behind in a file that was opened.
THEOREM OpenedStreamKeptAlways == Spec => []OpenedStreamKept
<1>1. FlowInv => OpenedStreamKept
  BY DEF FlowInv, DrainInv, OpenedStreamKept
<1>2. QED
  BY <1>1, TypeInit, TypeStep, FlowInit, FlowStep, PTL DEF Spec

\* A stream that passes finish() was accepted whole.
THEOREM UsableMeansWholeAlways == Spec => []UsableMeansWhole
<1>1. TypeOK /\ EventsInv /\ FlowInv => UsableMeansWhole
  <2> SUFFICES ASSUME TypeOK, EventsInv, FlowInv, main = "usable"
               PROVE  /\ sequence = written /\ unread = <<>> /\ ~partial
                      /\ \A s \in DOMAIN spans : spans[s].done
    BY DEF UsableMeansWhole
  <2>1. reader = "ended" /\ completed /\ opened
    BY DEF FlowInv, StopInv
  <2>2. unread = <<>> /\ ~partial
    BY <2>1 DEF FlowInv, DrainInv, Returned
  <2>3. sequence = written
    BY <2>1, <2>2 DEF FlowInv, CountInv, Held, TypeOK, EventsTypeOK
  <2>4. QED
    BY <2>1, <2>2, <2>3 DEF EventsInv, CompletedIsClosed
<1>2. QED
  BY <1>1, TypeInit, TypeStep, EventsInvInit, EventsInvStep, FlowInit, FlowStep, PTL
     DEF Spec
-----------------------------------------------------------------------------
\* The safety half of StopEndsReader.
LEMMA LeftTyped == (TypeOK => ReaderLeft \in Nat) /\ (TypeOK' => ReaderLeft' \in Nat)
<1>1. TypeOK => MaxEvents - sequence \in Nat
  BY EventAssumption DEF EventAssumption, TypeOK, EventsTypeOK
<1>2. TypeOK' => MaxEvents - sequence' \in Nat
  BY EventAssumption DEF EventAssumption, TypeOK, EventsTypeOK
<1>3. QED
  BY <1>1, <1>2 DEF ReaderLeft, TypeOK, Ended

\* An event that is accepted costs one of MaxEvents; every other step is on the way
\* from a read to the end, and the end of the file is passed once before `drained`.
LEMMA LeftStep ==
    ASSUME TypeOK, TypeOK', stop, ReaderStep
    PROVE  ReaderLeft' < ReaderLeft
<1>1. sequence \in 0..MaxEvents /\ sequence' \in 0..MaxEvents /\ MaxEvents \in Nat
      /\ drained \in BOOLEAN /\ drained' \in BOOLEAN
  BY EventAssumption DEF EventAssumption, TypeOK, EventsTypeOK
<1> USE <1>1 DEF ReaderLeft
<1>2. CASE Open \/ CheckAbsent \/ CheckPartial
  <2>1. sequence' = sequence /\ drained' = drained
    BY <1>2 DEF Open, CheckAbsent, CheckPartial, evars
  <2>2. \/ reader = "open" /\ reader' \in {"read", "absent"}
        \/ reader = "absent" /\ reader' = "ended"
        \/ reader = "partial" /\ reader' = "truncated"
    BY <1>2 DEF Open, CheckAbsent, CheckPartial
  <2>3. QED
    BY <2>1, <2>2
<1>3. CASE Read
  BY <1>3 DEF Read, evars
<1>4. CASE AcceptRecord
  <2>1. sequence' = sequence + 1
    BY <1>4 DEF AcceptRecord, Accept
  <2>2. QED
    BY <1>4, <2>1 DEF AcceptRecord
<1>5. CASE RejectRecord
  <2>1. sequence' >= sequence
    BY <1>5 DEF RejectRecord
  <2>2. QED
    BY <1>5, <2>1 DEF RejectRecord
<1>6. CASE CheckEof
  <2>1. CASE drained
    BY <1>6, <2>1 DEF CheckEof, evars
  <2>2. CASE ~drained
    <3>1. reader = "eof" /\ reader' = "read" /\ drained' /\ sequence' = sequence
      BY <1>6, <2>2 DEF CheckEof, evars
    <3>2. QED
      BY <2>2, <3>1
  <2>3. QED
    BY <2>1, <2>2
<1>7. QED
  BY <1>2, <1>3, <1>4, <1>5, <1>6 DEF ReaderStep

\* A reader that was told to stop has a bounded number of steps left, whatever a
\* controller that is still running appends: with the fairness of its thread, it ends.
THEOREM ReaderRunsOutAlways == Spec => ReaderRunsOut
<1>1. ASSUME TypeOK, TypeOK', [Next]_vars, stop
      PROVE  [0 <= ReaderLeft' /\ ReaderLeft' < ReaderLeft]_<<evars, thread>>
  <2>1. CASE ReaderStep
    <3>1. ReaderLeft' \in Nat
      BY <1>1, LeftTyped
    <3>2. QED
      BY <1>1, <2>1, <3>1, LeftStep
  <2>2. CASE ~ReaderStep
    <3>1. UNCHANGED <<evars, thread>>
      BY <1>1, <2>2 DEF Next, vars, CreateFile, BeginRecord, EndRecord, ExitController,
         ControllerReturned, ControllerInterrupted, Join
    <3>2. QED
      BY <3>1
  <2>3. QED
    BY <2>1, <2>2
<1>2. QED
  BY <1>1, TypeInit, TypeStep, PTL DEF Spec, ReaderRunsOut
=============================================================================
