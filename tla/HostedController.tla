--------------------------- MODULE HostedController ---------------------------
(***************************************************************************)
(* ColdSnapService._invoke: the provider is constructed, the reader of the   *)
(* timing stream is started, the controller runs inside the provider's       *)
(* context and asks it for work, the reader is stopped and joined, and the   *)
(* context closes the provider.  Composes ControllerProcess (while `at` is   *)
(* "running") and HostProvider; the reader is TimingStream seen from outside. *)
(***************************************************************************)
EXTENDS ControllerProcess, HostProvider

VARIABLES
    reader,       \* the timing reader thread
    leftAt        \* history: where an exception left the code outside run_controller

hostedVars == <<vars, providerVars, reader, leftAt>>

Before == {"open", "receipt", "started"}      \* the provider's context
Between == Before \cup {"entered", "running", "leaving", "joining", "reporting"}
Places == Opening \cup Between \cup Closing \cup {"done", "dead"}

HostedTypeOK ==
    /\ TypeOK
    /\ at \in Places
    /\ session \in {"none", "open", "closed"}
    /\ directory \in BOOLEAN /\ stop \in BOOLEAN
    /\ server \in {"none", "listening", "closed"}
    /\ loop \in {"none", "polling", "accepting", "ended"}
    /\ conn \in [Requests -> ConnStates]
    /\ reader \in {"none", "polling", "told", "ended"}
    /\ leftAt \in SUBSET Places

HostedInit == Init /\ ProviderInit /\ reader = "none" /\ leftAt = {}
-----------------------------------------------------------------------------
(* The main thread. *)

\* A step of the constructor, or its failure.
OpenProvider ==
    /\ \/ Construct /\ UNCHANGED leftAt
       \/ FailOpening /\ leftAt' = leftAt \cup {at}
    /\ UNCHANGED <<vars, reader>>

\* The private directory of the receipt, then the reader's thread; either may fail.
StartReader ==
    /\ \/ Advance("open", "receipt") /\ UNCHANGED <<reader, leftAt>>
       \/ Advance("receipt", "started") /\ reader' = "polling" /\ UNCHANGED leftAt
       \/ at \in {"open", "receipt"} /\ at' = "done"
          /\ leftAt' = leftAt \cup {at} /\ UNCHANGED reader
    /\ UNCHANGED <<vars, session, directory, server, serverVars>>

\* The provider's context, then the try statement around run_command.
EnterRun ==
    /\ Advance("started", "entered") \/ Advance("entered", "running")
    /\ UNCHANGED <<vars, session, directory, server, serverVars, reader, leftAt>>

RunController ==
    /\ at = "running" /\ RunStep
    /\ UNCHANGED <<providerVars, reader, leftAt>>

LeaveRun ==
    /\ pc = "left" /\ Advance("running", "leaving")
    /\ UNCHANGED <<vars, session, directory, server, serverVars, reader, leftAt>>

\* Mutant: stop is set after the run, not in its finally clause.
StopReaderOnReturn ==
    /\ Advance("leaving", "joining")
    /\ reader' = IF reader = "polling" /\ raisedAt = {} THEN "told" ELSE reader
    /\ UNCHANGED <<vars, session, directory, server, serverVars, leftAt>>

StopReader ==
    /\ Advance("leaving", "joining")
    /\ reader' = IF reader = "polling" THEN "told" ELSE reader
    /\ UNCHANGED <<vars, session, directory, server, serverVars, leftAt>>

\* join() without a timeout.
JoinReader ==
    /\ reader = "ended" /\ Advance("joining", "reporting")
    /\ UNCHANGED <<vars, session, directory, server, serverVars, reader, leftAt>>

\* The receipt, its timing and the controller's exit code, which may raise.
ReportResult ==
    /\ Advance("reporting", "closing")
    /\ UNCHANGED <<vars, session, directory, server, serverVars, reader, leftAt>>

\* close() of the provider; for run_controller it is closed with its loop.
CloseHostProvider ==
    /\ Close
    /\ IF at = "stopping" THEN CloseProvider ELSE UNCHANGED vars
    /\ UNCHANGED <<reader, leftAt>>

HostedMain ==
    \/ OpenProvider \/ StartReader \/ EnterRun \/ RunController \/ LeaveRun
    \/ StopReader \/ JoinReader \/ ReportResult \/ CloseHostProvider
-----------------------------------------------------------------------------
(* Signals. *)

\* In run_controller; a SIGTERM with its default action ends the process.
SignalRunning(s) ==
    /\ at = "running" /\ Signal(s)
    /\ at' = IF pc' = "dead" THEN "dead" ELSE at
    /\ UNCHANGED <<session, directory, server, serverVars, reader, leftAt>>

\* Elsewhere an exception goes through the constructor, or leaves what is between it
\* and the provider's context, or close(); inside the context it leads to close().
RaiseOutside(s) ==
    /\ handler[s] = "raise" /\ leftAt' = leftAt \cup {at}
    /\ \/ RaiseOpening
       \/ /\ \/ at \in Before \cup Closing /\ at' = "done"
             \/ at \in Between \ (Before \cup {"running"}) /\ at' = "closing"
          /\ UNCHANGED <<session, directory, server, serverVars>>
    /\ pc' = IF at = "entered" THEN "left" ELSE pc
    /\ UNCHANGED <<handler, controller, killSent, forced, noted, provider, raisedAt>>

\* A handler of run_controller that was not put back.
ForceOutside(s) == ForceSignal(s) /\ UNCHANGED <<providerVars, leftAt>>

DieOutside(s) ==
    /\ DieSignal(s) /\ at' = "dead"
    /\ UNCHANGED <<session, directory, server, serverVars, leftAt>>

SignalOutside(s) ==
    /\ at \notin {"running", "done", "dead"} /\ signals < MaxSignals
    /\ signals' = signals + 1
    /\ RaiseOutside(s) \/ ForceOutside(s) \/ DieOutside(s)
    /\ UNCHANGED reader
-----------------------------------------------------------------------------
(* The other threads, and the controller. *)

Alive == at # "dead"

\* It ends by itself on a stream it cannot use, and always once it is told to
\* (StopEndsReader of TimingStream).
ReaderEnds ==
    /\ Alive /\ reader \in {"polling", "told"} /\ reader' = "ended"
    /\ UNCHANGED <<vars, providerVars, leftAt>>

ServerStep == Alive /\ ServeLoop /\ UNCHANGED <<vars, reader, leftAt>>

\* A handler's own steps; WorkEnds waits for a host.
HandlerStep(r) ==
    /\ Alive /\ (Dispatch(r) \/ Answer(r))
    /\ UNCHANGED <<vars, reader, leftAt>>

HostReturns(r) == Alive /\ WorkEnds(r) /\ UNCHANGED <<vars, reader, leftAt>>

ControllerAsks(r) ==
    /\ Alive /\ controller = "running" /\ Connect(r)
    /\ UNCHANGED <<vars, reader, leftAt>>

ControllerStep ==
    \/ ControllerEnds /\ UNCHANGED <<providerVars, reader, leftAt>>
    \/ \E r \in Requests : ControllerAsks(r)

HostedNext ==
    \/ HostedMain \/ ReaderEnds \/ ServerStep \/ ControllerStep
    \/ \E s \in Signum : SignalRunning(s) \/ SignalOutside(s)
    \/ \E r \in Requests : HandlerStep(r) \/ HostReturns(r)

HostedSpec == HostedInit /\ [][HostedNext]_hostedVars

\* The manager's threads are scheduled; the session's close and the constructor
\* return.  No fairness for signals, the controller, or work on a host.
HostedFairSpec ==
    /\ HostedSpec
    /\ WF_hostedVars(HostedMain) /\ WF_hostedVars(ServerStep)
    /\ WF_hostedVars(reader = "told" /\ ReaderEnds)
    /\ \A r \in Requests : WF_hostedVars(HandlerStep(r))
-----------------------------------------------------------------------------
\* Where the constructor and _invoke do not close what is open: after the session is
\* open and outside the two try statements, in their except clauses, before the
\* provider's context is entered, and in close() itself.
ProviderGaps == (Opening \ ({"session"} \cup Guarded)) \cup Before \cup Closing

\* Between the start of the reader and the try whose finally stops it, and in that
\* finally before stop is set.
ReaderGaps == {"started", "entered", "leaving"}

\* However the constructor, the run and close() fail or are interrupted, an
\* invocation that is over leaves no session, no listening socket, no serving
\* thread, no directory and no polling reader, but for the gaps named above.
NothingLeftOpen ==
    at = "done" =>
        /\ \/ /\ session # "open" /\ ~directory
              /\ server # "listening" /\ loop \in {"none", "ended"}
           \/ leftAt \cap ProviderGaps # {}
        /\ reader = "polling" => leftAt \cap ReaderGaps # {}

\* From the close of the session on no connection can reach a handler that was not
\* taken before; only handlers already started may find it closed.
ClosedAdmitsNobody ==
    session = "closed" =>
        loop \in {"none", "ended"} /\ \A r \in Requests : conn[r] # "queued"

\* How far the main thread is from its end: in the code around run_controller, ...
LeftOutside ==
    [session |-> 23, opened |-> 22, runtime |-> 21, mkdtemp |-> 20, made |-> 19,
     bind |-> 18, dropping |-> 17, chmod |-> 16, start |-> 15, open |-> 14,
     receipt |-> 13, started |-> 12, entered |-> 11, running |-> 10, leaving |-> 9,
     joining |-> 8, reporting |-> 7, closing |-> 6, stopping |-> 5, unbinding |-> 4,
     disconnecting |-> 3, sweeping |-> 2, done |-> 1, dead |-> 0]

\* ... and in run_controller.
LeftInside ==
    [enter |-> 16, installed |-> 15, spawn |-> 14, spawned |-> 13, communicating |-> 12, caught |-> 11,
     caught_int |-> 10, cancelling |-> 9, waiting |-> 8, killed |-> 7,
     restore_int |-> 6, restore_term |-> 5, closing |-> 4, restore |-> 3,
     left |-> 2, closed |-> 1, dead |-> 0]

MainLeft == LeftOutside[at] + LeftInside[pc]

\* No failure and no signal, wherever it strikes, takes the main thread back to what it
\* had begun before: a cancellation is not started over, a close is not repeated.
MainNeverTurnsBack == [][MainLeft' < MainLeft]_<<at, pc>>

\* Whoever waits without a timeout waits for a thread that was told to come to it and
\* can: the join for a reader that is told, shutdown() for a loop that will look at
\* the request to stop, the loop's accept() for a connection that is there, and a
\* connection for a loop that is still to take it or for its reset.
NobodyWaitsInVain ==
    /\ at = "joining" => reader \in {"told", "ended"}
    /\ at = "stopping" => stop /\ loop # "none"
    /\ loop = "accepting" => \E r \in Requests : conn[r] = "queued"
    /\ \A r \in Requests : conn[r] = "queued" =>
          \/ loop \in {"polling", "accepting"} \/ at \in {"stopping", "unbinding", "dead"}
          \/ leftAt \cap {"stopping", "unbinding"} # {}

\* A connection does not wait for ever in the backlog, whatever handlers and hosts
\* do: it is taken or reset, unless close() was interrupted in shutdown() or right
\* before server_close() (or the process died).
QueuedIsServed ==
    \A r \in Requests :
        conn[r] = "queued" ~>
            \/ conn[r] # "queued" \/ at = "dead"
            \/ leftAt \cap {"stopping", "unbinding"} # {}

\* A cancellation and a close come to an end although the controller may ignore
\* SIGTERM and outlive SIGKILL, and handlers may wait for a host for ever.
CancellationEnds ==
    pc = "caught" \/ at \in Closing ~> at \in {"done", "dead"}
=============================================================================
