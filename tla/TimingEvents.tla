---------------------------- MODULE TimingEvents ----------------------------
(***************************************************************************)
(* The controller's timing stream as its reader validates it (the class    *)
(* OperationTimingEventStream) and as the heartbeat shows it (the class    *)
(* OperationTimingProgress), one validated event at a time.  An event keeps *)
(* the fields the protocol compares; names, durations and texts are left   *)
(* out, and `parent` and `clock` stand for all fields of a span that its   *)
(* completion has to repeat.                                               *)
(***************************************************************************)
EXTENDS Naturals, FiniteSets

CONSTANTS
    Spans, Clocks,   \* identifiers
    Shown,           \* the spans whose name has an entry in _PROGRESS_ACTIONS
    MaxEvents,       \* _MAX_EVENTS
    None             \* no parent, no identifier

ASSUME EventAssumption ==
    /\ None \notin Spans \cup Clocks
    /\ Shown \subseteq Spans
    /\ MaxEvents \in Nat \ {0}

VARIABLES
    sequence,    \* the number of the last accepted event
    started, completed,
    clocks,      \* the clocks announced
    spans,       \* the known spans: span -> [done, parent, clock]
    active       \* what the heartbeat describes: shown spans in progress

evars == <<sequence, started, completed, clocks, spans, active>>

Kinds == {"stream_start", "clock", "span_start", "span_complete",
          "stream_complete", "unsupported"}

Event == [kind : Kinds, seq : Nat, id : Spans \cup Clocks \cup {None},
          parent : Spans \cup {None}, clock : Clocks \cup {None}]

Span == [done : BOOLEAN, parent : Spans \cup {None}, clock : Clocks]

EventsTypeOK ==
    /\ sequence \in 0..MaxEvents
    /\ started \in BOOLEAN /\ completed \in BOOLEAN
    /\ clocks \in SUBSET Clocks
    /\ DOMAIN spans \in SUBSET Spans
    /\ spans \in [DOMAIN spans -> Span]
    /\ active \in SUBSET Shown

EventsInit ==
    /\ sequence = 0 /\ started = FALSE /\ completed = FALSE
    /\ clocks = {} /\ active = {}
    /\ spans = [s \in {} |-> None]
-----------------------------------------------------------------------------
\* Mutant: the stream may be of any length.
InOrderUnlimited(e) == ~completed /\ e.seq = sequence + 1

\* accept(): envelope, order and limit.
InOrder(e) ==
    /\ ~completed
    /\ e.seq = sequence + 1
    /\ e.seq <= MaxEvents

\* _accept_clock(): a clock is announced once.
ValidClock(e) == e.id \in Clocks \ clocks

\* Mutant: a completion may name another parent than the start did.
ValidSpanLoose(e) ==
    /\ e.id \in Spans
    /\ e.clock \in clocks
    /\ e.parent \in DOMAIN spans \cup {None}
    /\ e.kind = "span_start" => e.id \notin DOMAIN spans

\* _accept_span(): known context, one start, one completion, same fields.  A
\* completion without a start is accepted.
ValidSpan(e) ==
    /\ e.id \in Spans
    /\ e.clock \in clocks
    /\ e.parent \in DOMAIN spans \cup {None}
    /\ e.id \in DOMAIN spans =>
          /\ e.kind = "span_complete"
          /\ ~spans[e.id].done
          /\ spans[e.id].parent = e.parent
          /\ spans[e.id].clock = e.clock

\* Mutant: the end is accepted while spans are still open.
ValidCompleteEarly(e) == clocks # {} /\ DOMAIN spans # {}

\* _accept_complete(): something was measured and every span is closed.
ValidComplete(e) ==
    /\ clocks # {}
    /\ DOMAIN spans # {}
    /\ \A s \in DOMAIN spans : spans[s].done

Valid(e) ==
    /\ InOrder(e)
    /\ e.kind = "stream_start" => ~started /\ e.seq = 1
    /\ e.kind # "stream_start" => started
    /\ e.kind = "clock" => ValidClock(e)
    /\ e.kind \in {"span_start", "span_complete"} => ValidSpan(e)
    /\ e.kind = "stream_complete" => ValidComplete(e)
    /\ e.kind # "unsupported"

\* The heartbeat's view of a span event: OperationTimingProgress._accept.
Progress(e) ==
    active' = IF e.kind = "span_start" THEN active \cup ({e.id} \cap Shown)
              ELSE IF e.kind = "span_complete" THEN active \ {e.id}
              ELSE active

\* A valid event is recorded and then reported to the heartbeat.
Accept(e) ==
    /\ Valid(e)
    /\ sequence' = sequence + 1
    /\ started' = TRUE
    /\ completed' = (e.kind = "stream_complete")
    /\ clocks' = IF e.kind = "clock" THEN clocks \cup {e.id} ELSE clocks
    /\ spans' = IF e.kind \in {"span_start", "span_complete"}
                THEN [s \in DOMAIN spans \cup {e.id} |->
                        IF s = e.id
                        THEN [done |-> e.kind = "span_complete",
                              parent |-> e.parent, clock |-> e.clock]
                        ELSE spans[s]]
                ELSE spans
    /\ Progress(e)
-----------------------------------------------------------------------------
\* The parents of the known spans form a forest: every nonempty set of spans
\* has one whose parent is outside it, so a walk to the root ends and a depth
\* (OperationTimingProgress.depths) is defined.  The parent of an accepted span
\* may not change when it completes.
ParentsFormForest ==
    \A S \in SUBSET DOMAIN spans :
        S # {} => \E s \in S : spans[s].parent \notin S

\* The heartbeat describes only spans that are open.
ActiveIsOpen == \A s \in active : s \in DOMAIN spans /\ ~spans[s].done

\* A stream accepted to its end has closed every span it opened, and the
\* heartbeat has nothing left to describe.
CompletedIsClosed ==
    completed => /\ \A s \in DOMAIN spans : spans[s].done
                 /\ active = {}
=============================================================================
