---------------------- MODULE ControllerProcessProofs ----------------------
(***************************************************************************)
(* Proofs about ControllerProcess for any number of signals, and about       *)
(* HostedController for any number of signals and requests.                  *)
(***************************************************************************)
EXTENDS HostedController, TLAPS

LEMMA TypeInit == Init => TypeOK
<1> SUFFICES ASSUME Init PROVE TypeOK
  OBVIOUS
<1>1. handler \in [Signum -> {"raise", "die", "force"}]
  BY DEF Init, Original
<1>2. signals \in 0..MaxSignals
  BY SignalAssumption DEF SignalAssumption, Init
<1>3. QED
  BY <1>1, <1>2 DEF Init, TypeOK, Points

\* Every step of the main thread, every signal and the controller's end keep
\* the types.
LEMMA TypeStep == TypeOK /\ [Next]_vars => TypeOK'
<1> SUFFICES ASSUME TypeOK, [Next]_vars PROVE TypeOK'
  OBVIOUS
<1> USE DEF TypeOK, Goto, Signum, Points
<1>1. CASE UNCHANGED vars
  BY <1>1 DEF vars
<1>2. CASE InstallTerminate \/ EnterGuard \/ Spawn \/ EnterTry \/ Communicate \/ InstallForce
  <2>0. CASE EnterGuard
    BY <2>0 DEF EnterGuard
  <2>1. CASE InstallTerminate
    BY <2>1 DEF InstallTerminate
  <2>2. CASE Spawn
    BY <2>2 DEF Spawn
  <2>3. CASE EnterTry
    BY <2>3 DEF EnterTry
  <2>4. CASE Communicate
    BY <2>4 DEF Communicate
  <2>5. CASE InstallForce
    BY <2>5 DEF InstallForce
  <2>6. QED
    BY <1>2, <2>0, <2>1, <2>2, <2>3, <2>4, <2>5
<1>3. CASE SendTerm \/ AwaitCleanup \/ AwaitKilled \/ RestoreRepeat
  <2>1. CASE SendTerm
    BY <2>1 DEF SendTerm
  <2>2. CASE AwaitCleanup
    BY <2>2 DEF AwaitCleanup
  <2>3. CASE AwaitKilled
    BY <2>3 DEF AwaitKilled
  <2>4. CASE RestoreRepeat
    BY <2>4 DEF RestoreRepeat
  <2>5. QED
    BY <1>3, <2>1, <2>2, <2>3, <2>4
<1>4. CASE CloseStreams \/ RestoreTerminate \/ CloseProvider
  <2>1. CASE CloseStreams
    BY <2>1 DEF CloseStreams
  <2>2. CASE RestoreTerminate
    BY <2>2 DEF RestoreTerminate
  <2>3. CASE CloseProvider
    BY <2>3 DEF CloseProvider
  <2>4. QED
    BY <1>4, <2>1, <2>2, <2>3
<1>5. CASE ControllerEnds
  BY <1>5 DEF ControllerEnds
<1>6. ASSUME NEW s \in Signum, Signal(s) PROVE TypeOK'
  <2>1. signals' \in 0..MaxSignals
    BY <1>6, SignalAssumption DEF SignalAssumption, Signal
  <2>2. CASE RaiseSignal(s)
    <3>1. Unwind \in Points
      BY DEF Unwind
    <3>2. QED
      BY <2>1, <2>2, <3>1 DEF RaiseSignal
  <2>3. CASE ForceSignal(s)
    <3>1. killSent' \in BOOLEAN /\ noted' \in BOOLEAN /\ forced' = TRUE
      BY <2>3, Zenon DEF ForceSignal
    <3>2. killSent' /\ noted'
      BY <2>3 DEF ForceSignal
    <3>3. QED
      BY <2>1, <2>3, <3>1, <3>2 DEF ForceSignal
  <2>4. CASE DieSignal(s)
    BY <2>1, <2>4 DEF DieSignal
  <2>5. QED
    BY <1>6, <2>2, <2>3, <2>4 DEF Signal
<1>7. QED
  BY <1>1, <1>2, <1>3, <1>4, <1>5, <1>6 DEF Next, MainStep, RunStep

\* The types, and that a forced termination was sent and noted.
THEOREM TypeCorrect == Spec => []TypeOK
<1>1. QED
  BY TypeInit, TypeStep, PTL DEF Spec
-----------------------------------------------------------------------------
\* Which handlers are installed where.
HandlerInv ==
    LET INT == handler["INT"]  TERM == handler["TERM"] IN
    /\ INT # "die"
    /\ pc = "enter" => INT = "raise" /\ TERM = "die"
    /\ pc \in {"installed", "spawn", "spawned", "communicating", "caught"} =>
          INT = "raise" /\ TERM = "raise"
    /\ pc = "caught_int" => INT = "force" /\ TERM = "raise"
    /\ pc \in {"cancelling", "waiting", "killed", "restore_int"} =>
          INT = "force" /\ TERM = "force"
    /\ pc = "restore_term" => INT = "raise" /\ TERM = "force"
    /\ pc \in {"closing", "restore"} =>
          /\ INT = "raise" \/ "caught_int" \in raisedAt
          /\ TERM # "die"
    /\ pc \in {"left", "closed"} =>
          /\ INT = "raise" \/ "caught_int" \in raisedAt
          /\ TERM = "die" \/ raisedAt \cap {"installed", "restore"} # {}

Excused == noted \/ raisedAt \cap {"spawned", "caught", "caught_int"} # {}

\* A controller that is left behind is excused from then on.
ReportInv ==
    /\ killSent => noted
    /\ controller = "killed" => noted
    /\ provider = "closed" => pc \in {"closed", "dead"}
    /\ pc \in {"enter", "installed", "spawn"} => controller = "none"
    /\ pc = "killed" => noted
    /\ controller = "running" /\ pc \in {"restore_int", "restore_term", "closing",
                                         "restore", "left", "closed", "dead"} => Excused

CancelInv == TypeOK /\ HandlerInv /\ ReportInv

LEMMA CancelInit == Init => CancelInv
  BY TypeInit DEF Init, CancelInv, HandlerInv, ReportInv, Original, Signum

LEMMA CancelStep == CancelInv /\ [Next]_vars => CancelInv'
<1> SUFFICES ASSUME CancelInv, [Next]_vars PROVE CancelInv'
  OBVIOUS
<1>1. TypeOK'
  BY TypeStep DEF CancelInv
<1> USE <1>1 DEF CancelInv, HandlerInv, ReportInv, Excused, TypeOK, Goto, Signum, Gone
<1>2. CASE UNCHANGED vars
  BY <1>2 DEF vars
<1>3. CASE InstallTerminate \/ EnterGuard \/ Spawn \/ EnterTry
  BY <1>3 DEF InstallTerminate, EnterGuard, Spawn, EnterTry
<1>4. CASE Communicate \/ InstallForce
  BY <1>4 DEF Communicate, InstallForce
<1>5. CASE SendTerm \/ AwaitCleanup
  BY <1>5 DEF SendTerm, AwaitCleanup
<1>6. CASE AwaitKilled \/ RestoreRepeat
  BY <1>6 DEF AwaitKilled, RestoreRepeat
<1>7. CASE CloseStreams \/ RestoreTerminate \/ CloseProvider
  BY <1>7 DEF CloseStreams, RestoreTerminate, CloseProvider
<1>8. CASE ControllerEnds
  BY <1>8 DEF ControllerEnds
<1>9. ASSUME NEW s \in Signum, Signal(s) PROVE CancelInv'
  <2>1. CASE RaiseSignal(s)
    <3>1. /\ handler[s] = "raise" /\ pc \notin {"left", "closed", "dead"}
          /\ pc' = Unwind /\ raisedAt' = raisedAt \cup {pc}
          /\ UNCHANGED <<handler, controller, killSent, noted, provider>>
      BY <1>9, <2>1 DEF Signal, RaiseSignal
    <3>2. pc \notin {"cancelling", "waiting", "killed", "restore_int"}
      BY <3>1
    <3>3. CASE pc \in {"enter", "installed", "spawn"}
      BY <3>1, <3>3 DEF Unwind
    <3>4. CASE pc = "spawned" \/ pc = "communicating"
      BY <3>1, <3>4 DEF Unwind
    <3>5. CASE pc = "caught" \/ pc = "caught_int"
      BY <3>1, <3>5 DEF Unwind
    <3>6. CASE pc = "restore_term"
      BY <3>1, <3>6 DEF Unwind
    <3>7. CASE pc = "closing" \/ pc = "restore"
      BY <3>1, <3>7 DEF Unwind
    <3>8. QED
      BY <3>1, <3>2, <3>3, <3>4, <3>5, <3>6, <3>7 DEF Points
  <2>2. CASE ForceSignal(s)
    <3>1. noted' /\ UNCHANGED <<pc, handler, controller, provider, raisedAt>>
      BY <2>2 DEF ForceSignal
    <3>2. QED
      BY <3>1
  <2>3. CASE DieSignal(s)
    <3>1. pc = "enter" \/ pc \in {"left", "closed", "dead"}
      BY <2>3 DEF DieSignal, Points
    <3>2. QED
      BY <1>9, <2>3, <3>1 DEF Signal, DieSignal
  <2>4. QED
    BY <1>9, <2>1, <2>2, <2>3 DEF Signal
<1>10. QED
  BY <1>2, <1>3, <1>4, <1>5, <1>6, <1>7, <1>8, <1>9 DEF Next, MainStep, RunStep

\* A controller that was killed or left running is reported, except after an
\* exception at one of three points, for any number of signals.
THEOREM AbandonedIsReportedAlways == Spec => []AbandonedIsReported
<1>1. CancelInv => AbandonedIsReported
  BY DEF CancelInv, ReportInv, Excused, AbandonedIsReported
<1>2. QED
  BY <1>1, CancelInit, CancelStep, PTL DEF Spec

\* Both handlers are the caller's again, except after an exception at one of three
\* points, for any number of signals.
THEOREM HandlersRestoredAlways == Spec => []HandlersRestored
<1>1. CancelInv => HandlersRestored
  BY DEF CancelInv, HandlerInv, TypeOK, HandlersRestored, Original, Signum
<1>2. QED
  BY <1>1, CancelInit, CancelStep, PTL DEF Spec
-----------------------------------------------------------------------------
(* The composition: where run_controller stands when the main thread is        *)
(* elsewhere, and what is open where.                                          *)

PlaceInv ==
    /\ at \in Opening \cup Before \cup {"entered"} => pc = "enter"
    /\ at = "running" => pc \notin {"closed", "dead"}
    /\ at \in {"leaving", "joining", "reporting", "closing", "stopping"} => pc = "left"
    /\ at \in {"unbinding", "disconnecting", "sweeping"} => pc = "closed"

ProviderOpen ==
    /\ at \in Opening \ {"chmod", "start"} => server = "none"
    /\ at \in {"session", "opened", "runtime", "mkdtemp"} => ~directory
    /\ at \in Opening => loop = "none"
    /\ at = "session" => session = "none"
    /\ at \notin {"sweeping", "done", "dead"} => session # "closed"

ProviderClosing ==
    /\ at \in {"unbinding", "disconnecting", "sweeping"} => loop = "ended"
    /\ at \in {"disconnecting", "sweeping"} => server = "closed"
    /\ at = "sweeping" => session = "closed"
    /\ session = "closed" =>
          \/ server = "none" /\ loop = "none"
          \/ server = "closed" /\ loop = "ended"
    /\ \A r \in Requests : conn[r] = "queued" => server = "listening"
    /\ at = "done" =>
          \/ /\ session # "open" /\ ~directory
             /\ server # "listening" /\ loop \in {"none", "ended"}
          \/ leftAt \cap ProviderGaps # {}

ReaderInv ==
    /\ at \in Opening \cup {"open", "receipt"} => reader = "none"
    /\ at \in {"joining", "reporting", "done"} \cup Closing =>
          reader # "polling" \/ leftAt \cap ReaderGaps # {}

HostedInv ==
    /\ HostedTypeOK /\ CancelInv /\ PlaceInv
    /\ ProviderOpen /\ ProviderClosing /\ ReaderInv

LEMMA HostedInitInv == HostedInit => HostedInv
<1> SUFFICES ASSUME HostedInit PROVE HostedInv
  OBVIOUS
<1>1. CancelInv
  BY CancelInit DEF HostedInit
<1>2. conn \in [Requests -> ConnStates]
  BY DEF HostedInit, ProviderInit, ConnStates
<1>3. HostedTypeOK
  BY <1>1, <1>2 DEF HostedInit, ProviderInit, HostedTypeOK, CancelInv, Places, Opening
<1>4. QED
  BY <1>1, <1>3 DEF HostedInit, Init, ProviderInit, HostedInv, PlaceInv, ProviderOpen,
     ProviderClosing, ReaderInv, Opening, Closing

\* A step of the composition is a step of run_controller, or leaves it alone, or is
\* a signal outside it.
LEMMA RunOrOutside ==
  ASSUME HostedNext
  PROVE  \/ [Next]_vars
         \/ \E s \in Signum : SignalOutside(s)
<1>1. CASE HostedMain
  BY <1>1 DEF HostedMain, OpenProvider, StartReader, EnterRun, RunController, LeaveRun,
     StopReader, JoinReader, ReportResult, CloseHostProvider, Next, MainStep
<1>2. CASE ReaderEnds \/ ServerStep \/ ControllerStep
  BY <1>2 DEF ReaderEnds, ServerStep, ControllerStep, ControllerAsks, Next
<1>3. CASE \E r \in Requests : HandlerStep(r) \/ HostReturns(r)
  BY <1>3 DEF HandlerStep, HostReturns
<1>4. CASE \E s \in Signum : SignalRunning(s)
  BY <1>4 DEF SignalRunning, Next
<1>5. QED
  BY <1>1, <1>2, <1>3, <1>4 DEF HostedNext

\* Signals outside run_controller keep its invariant.
LEMMA OutsideKeepsRun ==
  ASSUME CancelInv, PlaceInv, at \in Places, NEW s \in Signum, SignalOutside(s)
  PROVE  CancelInv'
<1> USE DEF CancelInv, HandlerInv, ReportInv, Excused, TypeOK, Signum, Points
<1>1. signals' \in 0..MaxSignals
  BY SignalAssumption DEF SignalAssumption, SignalOutside
<1>2. pc \in {"enter", "left", "closed"}
  BY DEF SignalOutside, PlaceInv, Places, Opening, Guarded, Before, Between, Closing
<1>3. CASE RaiseOutside(s)
  <2>1. at = "entered" => pc = "enter"
    BY DEF PlaceInv
  <2>2. pc' = IF at = "entered" THEN "left" ELSE pc
    BY <1>3 DEF RaiseOutside
  <2>3. UNCHANGED <<handler, controller, killSent, forced, noted, provider, raisedAt>>
    BY <1>3 DEF RaiseOutside
  <2>4. CASE at = "entered"
    BY <1>1, <2>1, <2>2, <2>3, <2>4
  <2>5. CASE at # "entered"
    BY <1>1, <2>2, <2>3, <2>5
  <2>6. QED
    BY <2>4, <2>5
<1>4. CASE ForceOutside(s)
  <2>1. killSent' \in BOOLEAN /\ noted' \in BOOLEAN /\ forced' = TRUE
    BY <1>4, Zenon DEF ForceOutside, ForceSignal
  <2>2. killSent' /\ noted' /\ UNCHANGED <<pc, handler, controller, provider, raisedAt>>
    BY <1>4 DEF ForceOutside, ForceSignal
  <2>3. QED
    BY <1>1, <1>2, <2>1, <2>2
<1>5. CASE DieOutside(s)
  BY <1>1, <1>2, <1>5 DEF DieOutside, DieSignal
<1>6. QED
  BY <1>3, <1>4, <1>5 DEF SignalOutside

LEMMA HostedRunStep ==
  ASSUME HostedInv, [HostedNext]_hostedVars
  PROVE  CancelInv'
<1>1. CASE UNCHANGED hostedVars
  BY <1>1, CancelStep DEF hostedVars, HostedInv
<1>2. CASE HostedNext
  BY <1>2, RunOrOutside, CancelStep, OutsideKeepsRun DEF HostedInv, HostedTypeOK
<1>3. QED
  BY <1>1, <1>2

LEMMA HostedStep == HostedInv /\ [HostedNext]_hostedVars => HostedInv'
<1> SUFFICES ASSUME HostedInv, [HostedNext]_hostedVars PROVE HostedInv'
  OBVIOUS
<1>0. CancelInv' /\ TypeOK'
  BY HostedRunStep DEF CancelInv
<1> USE DEF HostedInv, HostedTypeOK, PlaceInv, ProviderOpen, ProviderClosing, ReaderInv,
            Places, Opening, Guarded, Before, Between, Closing, ProviderGaps, ReaderGaps,
            Advance, serverVars
<1>1. CASE UNCHANGED hostedVars
  BY <1>0, <1>1 DEF hostedVars, vars, providerVars
<1>2. CASE OpenProvider
  <2>1. CASE Construct /\ UNCHANGED leftAt
    <3>0. UNCHANGED <<vars, conn, stop, reader, leftAt>>
      BY <1>2, <2>1 DEF OpenProvider, FailOpening, RaiseOpening, Construct, OpenSession,
         BuildRuntime, RefuseCapabilities, MakeDirectory, EnterBind, Bind, MakePrivate,
         StartServing, Drop
    <3>1. CASE OpenSession
      BY <1>0, <3>0, <3>1 DEF OpenSession, vars
    <3>2. CASE BuildRuntime
      BY <1>0, <3>0, <3>2 DEF BuildRuntime, vars
    <3>3. CASE MakeDirectory
      BY <1>0, <3>0, <3>3 DEF MakeDirectory, vars
    <3>4. CASE Bind
      BY <1>0, <3>0, <3>4 DEF Bind, vars
    <3>5. CASE MakePrivate
      BY <1>0, <3>0, <3>5 DEF MakePrivate, vars
    <3>6. CASE StartServing
      BY <1>0, <3>0, <3>6 DEF StartServing, vars
    <3>7. CASE RefuseCapabilities
      BY <1>0, <3>0, <3>7 DEF RefuseCapabilities, vars
    <3>8. CASE EnterBind
      BY <1>0, <3>0, <3>8 DEF EnterBind, vars
    <3>9. CASE Drop
      BY <1>0, <3>0, <3>9 DEF Drop, vars
    <3>10. QED
      BY <2>1, <3>1, <3>2, <3>3, <3>4, <3>5, <3>6, <3>7, <3>8, <3>9 DEF Construct
  <2>2. CASE FailOpening /\ leftAt' = leftAt \cup {at}
    BY <1>0, <1>2, <2>2 DEF OpenProvider, FailOpening, RaiseOpening, vars
  <2>3. QED
    BY <1>2, <2>1, <2>2 DEF OpenProvider
<1>3. CASE StartReader \/ EnterRun
  <2>1. CASE StartReader /\ at' = "done"
    BY <1>0, <2>1 DEF StartReader, vars
  <2>2. CASE StartReader /\ at' # "done"
    BY <1>0, <2>2 DEF StartReader, vars
  <2>3. CASE EnterRun
    BY <1>0, <2>3 DEF EnterRun, vars
  <2>4. QED
    BY <1>3, <2>1, <2>2, <2>3
<1>4. CASE RunController
  <2>1. pc # "left" /\ pc' \notin {"closed", "dead"}
    BY <1>4 DEF RunController, RunStep, InstallTerminate, EnterGuard, Spawn, EnterTry, Communicate,
       InstallForce, SendTerm, AwaitCleanup, AwaitKilled, RestoreRepeat, CloseStreams,
       RestoreTerminate, Goto
  <2>2. QED
    BY <1>0, <1>4, <2>1 DEF RunController, providerVars
<1>5. CASE LeaveRun \/ StopReader
  <2>1. CASE LeaveRun
    BY <1>0, <2>1 DEF LeaveRun, vars
  <2>2. CASE StopReader
    BY <1>0, <2>2 DEF StopReader, vars
  <2>3. QED
    BY <1>5, <2>1, <2>2
<1>6. CASE JoinReader \/ ReportResult
  <2>1. CASE JoinReader
    BY <1>0, <2>1 DEF JoinReader, vars
  <2>2. CASE ReportResult
    BY <1>0, <2>2 DEF ReportResult, vars
  <2>3. QED
    BY <1>6, <2>1, <2>2
<1>7. CASE CloseHostProvider
  <2>1. CASE RequestShutdown
    BY <1>0, <1>7, <2>1 DEF CloseHostProvider, RequestShutdown, vars
  <2>2. CASE AwaitLoop
    BY <1>0, <1>7, <2>2 DEF CloseHostProvider, AwaitLoop, CloseProvider, Goto
  <2>3. CASE CloseServer
    <3>1. conn' \in [Requests -> ConnStates]
      BY <2>3 DEF CloseServer, ConnStates
    <3>2. \A r \in Requests : conn'[r] # "queued"
      BY <2>3 DEF CloseServer
    <3>3. QED
      BY <1>0, <1>7, <2>3, <3>1, <3>2 DEF CloseHostProvider, CloseServer, vars
  <2>4. CASE CloseSession
    BY <1>0, <1>7, <2>4 DEF CloseHostProvider, CloseSession, vars
  <2>5. CASE Sweep
    BY <1>0, <1>7, <2>5 DEF CloseHostProvider, Sweep, vars
  <2>6. QED
    BY <1>7, <2>1, <2>2, <2>3, <2>4, <2>5 DEF CloseHostProvider, Close
<1>8. CASE ReaderEnds
  BY <1>0, <1>8 DEF ReaderEnds, vars, providerVars
<1>9. CASE ServerStep
  <2>1. CASE Select
    BY <1>0, <1>9, <2>1 DEF ServerStep, Select, vars
  <2>2. ASSUME NEW r \in Requests, Accept(r) PROVE HostedInv'
    BY <1>0, <1>9, <2>2 DEF ServerStep, Accept, ConnStates, vars
  <2>3. QED
    BY <1>9, <2>1, <2>2 DEF ServerStep, ServeLoop
<1>10. CASE ControllerStep
  <2>1. CASE ControllerEnds /\ UNCHANGED <<providerVars, reader, leftAt>>
    BY <1>0, <2>1 DEF ControllerEnds, providerVars
  <2>2. ASSUME NEW r \in Requests, ControllerAsks(r) PROVE HostedInv'
    BY <1>0, <2>2 DEF ControllerAsks, Connect, Move, ConnStates, vars
  <2>3. QED
    BY <1>10, <2>1, <2>2 DEF ControllerStep
<1>11. ASSUME NEW r \in Requests, HandlerStep(r) \/ HostReturns(r) PROVE HostedInv'
  <2>1. /\ \E c \in {"done", "working", "answered"} : conn' = [conn EXCEPT ![r] = c]
        /\ UNCHANGED <<vars, at, session, directory, server, stop, loop, reader, leftAt>>
    BY <1>11 DEF HandlerStep, HostReturns, Dispatch, Answer, WorkEnds, Move
  <2>2. conn' \in [Requests -> ConnStates]
    BY <2>1 DEF ConnStates
  <2>3. \A q \in Requests : conn'[q] = "queued" => conn[q] = "queued"
    BY <2>1
  <2>4. QED
    BY <1>0, <2>1, <2>2, <2>3 DEF vars
<1>12. ASSUME NEW s \in Signum, SignalRunning(s) PROVE HostedInv'
  <2>1. pc' \notin {"closed"} /\ at' \in {"running", "dead"}
    BY <1>12 DEF SignalRunning, Signal, RaiseSignal, ForceSignal, DieSignal, Unwind
  <2>2. QED
    BY <1>0, <1>12, <2>1 DEF SignalRunning
<1>13. ASSUME NEW s \in Signum, SignalOutside(s) PROVE HostedInv'
  <2>1. CASE RaiseOutside(s)
    <3>1. CASE RaiseOpening
      BY <1>0, <1>13, <2>1, <3>1 DEF SignalOutside, RaiseOutside, RaiseOpening
    <3>2. CASE ~RaiseOpening
      BY <1>0, <1>13, <2>1, <3>2 DEF SignalOutside, RaiseOutside
    <3>3. QED
      BY <3>1, <3>2
  <2>2. CASE ForceOutside(s)
    BY <1>0, <1>13, <2>2 DEF SignalOutside, ForceOutside, ForceSignal, providerVars
  <2>3. CASE DieOutside(s)
    BY <1>0, <1>13, <2>3 DEF SignalOutside, DieOutside, DieSignal
  <2>4. QED
    BY <1>13, <2>1, <2>2, <2>3 DEF SignalOutside
<1>14. QED
  BY <1>1, <1>2, <1>3, <1>4, <1>5, <1>6, <1>7, <1>8, <1>9, <1>10, <1>11, <1>12, <1>13
     DEF HostedNext, HostedMain

LEMMA HostedAlways == HostedSpec => []HostedInv
<1>1. QED
  BY HostedInitInv, HostedStep, PTL DEF HostedSpec

\* Types of the composition, for any signals and requests.
THEOREM HostedTypeCorrect == HostedSpec => []HostedTypeOK
<1>1. HostedInv => HostedTypeOK
  BY DEF HostedInv
<1>2. QED
  BY <1>1, HostedAlways, PTL

\* Inside the provider too, an abandoned controller is reported and the handlers
\* are put back.
THEOREM HostedRunSafe == HostedSpec => [](AbandonedIsReported /\ HandlersRestored)
<1>1. HostedInv => AbandonedIsReported /\ HandlersRestored
  BY DEF HostedInv, CancelInv, ReportInv, Excused, HandlerInv, TypeOK,
     AbandonedIsReported, HandlersRestored, Original, Signum
<1>2. QED
  BY <1>1, HostedAlways, PTL

\* Wherever the constructor, the run or close() is left, nothing stays open but at
\* the named gaps.
THEOREM NothingLeftOpenAlways == HostedSpec => []NothingLeftOpen
<1>1. HostedInv => NothingLeftOpen
  BY DEF HostedInv, ProviderClosing, ReaderInv, NothingLeftOpen
<1>2. QED
  BY <1>1, HostedAlways, PTL

\* No connection reaches a handler after the session was closed.
THEOREM ClosedAdmitsNobodyAlways == HostedSpec => []ClosedAdmitsNobody
<1>1. HostedInv => ClosedAdmitsNobody
  BY DEF HostedInv, ProviderClosing, ClosedAdmitsNobody
<1>2. QED
  BY <1>1, HostedAlways, PTL
-----------------------------------------------------------------------------
\* The serving thread exists from the constructor to the end, is told to stop by
\* close() alone, and holds a connection in its hand only while there is one.
WaitInv ==
    /\ at \in {"started", "entered", "running", "leaving"} => reader # "none"
    /\ at \notin Opening \cup {"done", "dead"} => loop # "none"
    /\ loop = "none" => controller = "none" /\ \A r \in Requests : conn[r] # "queued"
    /\ loop = "ended" => stop
    /\ at \in Opening \cup Between \cup {"closing"} => ~stop
    /\ stop /\ server = "listening" =>
          at \in {"stopping", "unbinding", "dead"} \/ leftAt \cap {"stopping", "unbinding"} # {}
    /\ at = "joining" => reader \in {"told", "ended"}
    /\ at = "stopping" => stop
    /\ loop = "accepting" => \E r \in Requests : conn[r] = "queued"

LEMMA WaitInit == HostedInit => WaitInv
  BY DEF HostedInit, Init, ProviderInit, WaitInv, Opening, Between

LEMMA WaitStep == HostedInv /\ WaitInv /\ [HostedNext]_hostedVars => WaitInv'
<1> SUFFICES ASSUME HostedInv, WaitInv, [HostedNext]_hostedVars PROVE WaitInv'
  OBVIOUS
<1> USE DEF WaitInv, Opening, Guarded, Before, Between, Closing, Advance, serverVars
<1>1. CASE UNCHANGED hostedVars
  BY <1>1 DEF hostedVars, vars, providerVars
<1>2. CASE OpenProvider
  <2>1. CASE Construct /\ UNCHANGED leftAt
    BY <1>2, <2>1 DEF OpenProvider, FailOpening, RaiseOpening, Construct, OpenSession,
         BuildRuntime, RefuseCapabilities, MakeDirectory, EnterBind, Bind, MakePrivate,
         StartServing, Drop, vars, HostedInv, ProviderOpen
  <2>2. CASE FailOpening /\ leftAt' = leftAt \cup {at}
    BY <1>2, <2>2 DEF OpenProvider, FailOpening, RaiseOpening, vars
  <2>3. QED
    BY <1>2, <2>1, <2>2 DEF OpenProvider
<1>3. CASE StartReader \/ EnterRun \/ LeaveRun \/ ReportResult
  BY <1>3 DEF StartReader, EnterRun, LeaveRun, ReportResult, vars
<1>4. CASE RunController
  <2>1. UNCHANGED <<providerVars, reader, leftAt>> /\ loop # "none"
    BY <1>4 DEF RunController
  <2>2. QED
    BY <1>4, <2>1 DEF RunController, providerVars
<1>5. CASE StopReader \/ JoinReader
  BY <1>5 DEF StopReader, JoinReader, vars, HostedInv, HostedTypeOK
<1>6. CASE CloseHostProvider
  <2>1. controller' = controller /\ UNCHANGED <<reader, leftAt>>
    BY <1>6 DEF CloseHostProvider, CloseProvider, vars
  <2>2. CASE RequestShutdown \/ AwaitLoop \/ CloseSession \/ Sweep
    BY <2>1, <2>2 DEF RequestShutdown, AwaitLoop, CloseSession, Sweep,
       HostedInv, ProviderClosing
  <2>3. CASE CloseServer
    <3>1. loop = "ended" /\ \A r \in Requests : conn'[r] # "queued"
      BY <2>3 DEF CloseServer, HostedInv, ProviderClosing
    <3>2. QED
      BY <2>1, <2>3, <3>1 DEF CloseServer
  <2>4. QED
    BY <1>6, <2>2, <2>3 DEF CloseHostProvider, Close
<1>7. CASE ReaderEnds
  BY <1>7 DEF ReaderEnds, vars, providerVars
<1>8. CASE ServerStep
  <2>1. CASE Select
    BY <1>8, <2>1 DEF ServerStep, Select, vars
  <2>2. ASSUME NEW r \in Requests, Accept(r) PROVE WaitInv'
    BY <1>8, <2>2 DEF ServerStep, Accept, vars
  <2>3. QED
    BY <1>8, <2>1, <2>2 DEF ServerStep, ServeLoop
<1>9. CASE ControllerStep
  <2>1. CASE ControllerEnds /\ UNCHANGED <<providerVars, reader, leftAt>>
    BY <2>1 DEF ControllerEnds, providerVars
  <2>2. ASSUME NEW r \in Requests, ControllerAsks(r) PROVE WaitInv'
    <3>1. conn' = [conn EXCEPT ![r] = "queued"] /\ r \in DOMAIN conn /\ loop # "none"
      BY <2>2 DEF ControllerAsks, Connect, Move, HostedInv, HostedTypeOK
    <3>2. QED
      BY <2>2, <3>1 DEF ControllerAsks, Connect, vars
  <2>3. QED
    BY <1>9, <2>1, <2>2 DEF ControllerStep
<1>10. ASSUME NEW r \in Requests, HandlerStep(r) \/ HostReturns(r) PROVE WaitInv'
  <2>1. /\ conn[r] # "queued" /\ \E c \in {"done", "working", "answered"} : conn' = [conn EXCEPT ![r] = c]
        /\ UNCHANGED <<vars, at, session, directory, server, stop, loop, reader, leftAt>>
    BY <1>10 DEF HandlerStep, HostReturns, Dispatch, Answer, WorkEnds, Move
  <2>2. \A q \in Requests : conn'[q] = "queued" <=> conn[q] = "queued"
    BY <2>1 DEF HostedInv, HostedTypeOK
  <2>3. QED
    BY <2>1, <2>2 DEF vars
<1>11. ASSUME NEW s \in Signum, SignalRunning(s) PROVE WaitInv'
  BY <1>11 DEF SignalRunning, Signal, RaiseSignal, ForceSignal, DieSignal
<1>12. ASSUME NEW s \in Signum, SignalOutside(s) PROVE WaitInv'
  <2>1. CASE RaiseOutside(s)
    <3>1. CASE RaiseOpening
      BY <1>12, <2>1, <3>1 DEF SignalOutside, RaiseOutside, RaiseOpening
    <3>2. CASE ~RaiseOpening
      <4>1. UNCHANGED <<session, directory, server, stop, loop, conn, controller, reader>>
        BY <1>12, <2>1, <3>2 DEF SignalOutside, RaiseOutside
      <4>2. \/ at \in Before \cup Closing /\ at' = "done"
            \/ at \in Between \ (Before \cup {"running"}) /\ at' = "closing"
        BY <2>1, <3>2 DEF RaiseOutside
      <4>3. leftAt' = leftAt \cup {at}
        BY <2>1 DEF RaiseOutside
      <4>4. CASE at' = "closing"
        BY <4>1, <4>2, <4>4
      <4>5. CASE at' = "done"
        BY <4>1, <4>2, <4>3, <4>5 DEF HostedInv, ProviderClosing
      <4>6. QED
        BY <4>2, <4>4, <4>5
    <3>3. QED
      BY <3>1, <3>2
  <2>2. CASE ForceOutside(s)
    BY <1>12, <2>2 DEF SignalOutside, ForceOutside, ForceSignal, providerVars
  <2>3. CASE DieOutside(s)
    BY <1>12, <2>3 DEF SignalOutside, DieOutside, DieSignal
  <2>4. QED
    BY <1>12, <2>1, <2>2, <2>3 DEF SignalOutside
<1>13. QED
  BY <1>1, <1>2, <1>3, <1>4, <1>5, <1>6, <1>7, <1>8, <1>9, <1>10, <1>11, <1>12
     DEF HostedNext, HostedMain

\* Every wait without a timeout is for a thread that was told and can come to it, for
\* any number of signals and requests.
THEOREM NobodyWaitsInVainAlways == HostedSpec => []NobodyWaitsInVain
<1>1. HostedInv /\ WaitInv => NobodyWaitsInVain
  BY DEF HostedInv, HostedTypeOK, ProviderClosing, WaitInv, NobodyWaitsInVain, Places,
     Opening, Guarded, Before, Between, Closing
<1>2. QED
  BY <1>1, HostedAlways, WaitInit, WaitStep, PTL DEF HostedSpec
-----------------------------------------------------------------------------
LEMMA LeftTyped ==
    /\ \A x \in Places : LeftOutside[x] \in 0..23
    /\ \A x \in Places \ {"dead"} : LeftOutside[x] > LeftOutside["dead"]
    /\ \A x \in Places \ {"dead", "done"} : LeftOutside[x] > LeftOutside["done"]
    /\ \A x \in Between \ {"running"} : LeftOutside[x] > LeftOutside["closing"]
    /\ \A x \in Points : LeftInside[x] \in 0..16
    /\ LeftInside["dead"] = 0
<1>1. \A x \in Places : LeftOutside[x] \in 0..23
  BY DEF LeftOutside, Places, Opening, Guarded, Before, Between, Closing
<1>2. /\ \A x \in Places \ {"dead"} : LeftOutside[x] > LeftOutside["dead"]
      /\ \A x \in Places \ {"dead", "done"} : LeftOutside[x] > LeftOutside["done"]
  BY DEF LeftOutside, Places, Opening, Guarded, Before, Between, Closing
<1>3. \A x \in Between \ {"running"} : LeftOutside[x] > LeftOutside["closing"]
  BY DEF LeftOutside, Before, Between
<1>4. (\A x \in Points : LeftInside[x] \in 0..16) /\ LeftInside["dead"] = 0
  BY DEF LeftInside, Points
<1>5. QED
  BY <1>1, <1>2, <1>3, <1>4

\* The steps of run_controller, and the exceptions that unwind it, go forward.
LEMMA RunForward ==
    ASSUME RunStep \/ \E s \in Signum : RaiseSignal(s), pc \in Points \ {"left", "closed", "dead"}
    PROVE  \/ pc = "enter" /\ pc' \in {"installed", "left"}
           \/ pc = "installed" /\ pc' \in {"spawn", "left"}
           \/ pc = "spawn" /\ pc' \in {"spawned", "restore"}
           \/ pc = "spawned" /\ pc' \in {"communicating", "restore"}
           \/ pc = "communicating" /\ pc' \in {"caught", "closing"}
           \/ pc = "caught" /\ pc' \in {"caught_int", "closing"}
           \/ pc = "caught_int" /\ pc' \in {"cancelling", "closing"}
           \/ pc = "cancelling" /\ pc' \in {"waiting", "left"}
           \/ pc = "waiting" /\ pc' \in {"killed", "restore_int", "left"}
           \/ pc = "killed" /\ pc' \in {"restore_int", "left"}
           \/ pc = "restore_int" /\ pc' \in {"restore_term", "left"}
           \/ pc = "restore_term" /\ pc' = "closing"
           \/ pc = "closing" /\ pc' = "restore"
           \/ pc = "restore" /\ pc' = "left"
<1>1. CASE RunStep
  BY <1>1 DEF RunStep, Goto, InstallTerminate, EnterGuard, Spawn, EnterTry,
       Communicate, InstallForce,
     SendTerm, AwaitCleanup, AwaitKilled, RestoreRepeat, CloseStreams, RestoreTerminate
<1>2. CASE \E s \in Signum : RaiseSignal(s)
  BY <1>2 DEF RaiseSignal, Unwind, Points
<1>3. QED
  BY <1>1, <1>2

\* The places outside run_controller, in the order of the code, a failure or an
\* exception being a way to "closing" or "done".
LEMMA MainForward ==
    ASSUME HostedInv, HostedInv', HostedNext, at' # at \/ pc' # pc
    PROVE  MainLeft' < MainLeft
<1>0. at \in Places /\ at' \in Places /\ pc \in Points /\ pc' \in Points
  BY DEF HostedInv, HostedTypeOK, TypeOK
<1> DEFINE o(x) == LeftOutside[x]
           i(x) == LeftInside[x]
<1>1. o(at) \in Nat /\ o(at') \in Nat /\ i(pc) \in Nat /\ i(pc') \in Nat
  BY <1>0, LeftTyped
<1>2. SUFFICES o(at') <= o(at) /\ i(pc') <= i(pc) /\ (o(at') < o(at) \/ i(pc') < i(pc))
  BY <1>1 DEF MainLeft
<1> HIDE DEF o, i
<1> USE DEF Advance
<1>3. CASE OpenProvider \/ StartReader \/ EnterRun \/ LeaveRun \/ StopReader \/ JoinReader \/ ReportResult
  <2>1. pc' = pc
    BY <1>3 DEF OpenProvider, StartReader, EnterRun, LeaveRun, StopReader, JoinReader,
       ReportResult, vars
  <2>2. CASE OpenProvider
    <3>1. \/ at \in Opening /\ at' = "done"
          \/ at = "session" /\ at' = "opened"
          \/ at = "opened" /\ at' = "runtime"
          \/ at = "runtime" /\ at' \in {"mkdtemp", "dropping"}
          \/ at = "mkdtemp" /\ at' \in {"made", "dropping"}
          \/ at = "made" /\ at' = "bind"
          \/ at = "bind" /\ at' \in {"chmod", "dropping"}
          \/ at = "dropping" /\ at' = "done"
          \/ at = "chmod" /\ at' = "start"
          \/ at = "start" /\ at' = "open"
      <4>1. CASE FailOpening
        BY <4>1 DEF FailOpening, RaiseOpening, Guarded
      <4>2. CASE Construct
        BY <4>2 DEF Construct, OpenSession, BuildRuntime, RefuseCapabilities,
           MakeDirectory, EnterBind, Bind, MakePrivate, StartServing, Drop
      <4>3. QED
        BY <2>2, <4>1, <4>2 DEF OpenProvider
    <3>2. o(at') < o(at)
      BY <3>1 DEF o, LeftOutside, Opening
    <3>3. QED
      BY <1>1, <2>1, <3>2
  <2>3. CASE StartReader \/ EnterRun \/ LeaveRun \/ StopReader \/ JoinReader \/ ReportResult
    <3>1. \/ at = "open" /\ at' \in {"receipt", "done"}
          \/ at = "receipt" /\ at' \in {"started", "done"}
          \/ at = "started" /\ at' = "entered"
          \/ at = "entered" /\ at' = "running"
          \/ at = "running" /\ at' = "leaving"
          \/ at = "leaving" /\ at' = "joining"
          \/ at = "joining" /\ at' = "reporting"
          \/ at = "reporting" /\ at' = "closing"
      BY <2>3 DEF StartReader, EnterRun, LeaveRun, StopReader, JoinReader, ReportResult
    <3>2. o(at') < o(at)
      BY <3>1 DEF o, LeftOutside
    <3>3. QED
      BY <1>1, <2>1, <3>2
  <2>4. QED
    BY <1>3, <2>2, <2>3
<1>4. CASE RunController
  <2>1. at' = at /\ RunStep
    BY <1>4 DEF RunController, providerVars
  <2>2. pc \notin {"left", "closed", "dead"}
    BY <2>1 DEF RunStep, Goto, InstallTerminate, EnterGuard, Spawn, EnterTry,
       Communicate, InstallForce,
       SendTerm, AwaitCleanup, AwaitKilled, RestoreRepeat, CloseStreams, RestoreTerminate
  <2>3. i(pc') < i(pc)
    BY <1>0, <2>1, <2>2, RunForward DEF i, LeftInside
  <2>4. QED
    BY <1>1, <2>1, <2>3
<1>5. CASE CloseHostProvider
  <2>1. \/ pc' = pc
        \/ pc = "left" /\ pc' = "closed"
    BY <1>5 DEF CloseHostProvider, CloseProvider, Goto, vars
  <2>2. i(pc') <= i(pc)
    BY <1>1, <2>1 DEF i, LeftInside
  <2>3. \/ at = "closing" /\ at' = "stopping"
        \/ at = "stopping" /\ at' = "unbinding"
        \/ at = "unbinding" /\ at' = "disconnecting"
        \/ at = "disconnecting" /\ at' = "sweeping"
        \/ at = "sweeping" /\ at' = "done"
    BY <1>5 DEF CloseHostProvider, Close, RequestShutdown, AwaitLoop, CloseServer,
       CloseSession, Sweep
  <2>4. o(at') < o(at)
    BY <2>3 DEF o, LeftOutside
  <2>5. QED
    BY <1>1, <2>2, <2>4
<1>6. CASE ReaderEnds \/ ServerStep \/ ControllerStep
  <2>1. at' = at /\ pc' = pc
    BY <1>6 DEF ReaderEnds, ServerStep, ServeLoop, Select, Accept, ControllerStep,
       ControllerAsks, Connect, ControllerEnds, vars, providerVars
  <2>2. QED
    BY <2>1
<1>7. ASSUME NEW r \in Requests, HandlerStep(r) \/ HostReturns(r) PROVE FALSE
  BY <1>7 DEF HandlerStep, HostReturns, Dispatch, Answer, WorkEnds, vars
<1>8. CASE \E s \in Signum : SignalRunning(s)
  <2>1. PICK s \in Signum : SignalRunning(s)
    BY <1>8
  <2>2. at = "running" /\ pc \in Points \ {"left", "closed", "dead"}
    BY <1>0, <2>1 DEF SignalRunning, Signal
  <2>3. CASE RaiseSignal(s)
    <3>1. pc' # "dead" /\ i(pc') < i(pc)
      BY <2>2, <2>3, RunForward DEF i, LeftInside
    <3>2. at' = at
      BY <2>1, <3>1 DEF SignalRunning
    <3>3. QED
      BY <1>1, <3>1, <3>2
  <2>4. CASE ForceSignal(s)
    BY <2>1, <2>2, <2>4 DEF SignalRunning, ForceSignal
  <2>5. CASE DieSignal(s)
    <3>1. pc' = "dead" /\ at' = "dead"
      BY <2>1, <2>5 DEF SignalRunning, DieSignal
    <3>2. QED
      BY <1>0, <1>1, <2>2, <3>1, LeftTyped DEF o, i
  <2>6. QED
    BY <2>1, <2>3, <2>4, <2>5 DEF SignalRunning, Signal
<1>9. CASE \E s \in Signum : SignalOutside(s)
  <2>1. PICK s \in Signum : SignalOutside(s)
    BY <1>9
  <2>2. at \notin {"running", "done", "dead"}
    BY <2>1 DEF SignalOutside
  <2>3. CASE RaiseOutside(s)
    <3>1. \/ pc' = pc
          \/ pc = "enter" /\ pc' = "left"
      BY <2>3 DEF RaiseOutside, HostedInv, PlaceInv
    <3>2. i(pc') <= i(pc)
      BY <1>1, <3>1 DEF i, LeftInside
    <3>3. \/ at' = "done"
          \/ at \in Guarded /\ at' = "dropping"
          \/ at \in Between \ {"running"} /\ at' = "closing"
      BY <2>3 DEF RaiseOutside, RaiseOpening
    <3>4. o(at') < o(at)
      <4>1. CASE at \in Guarded /\ at' = "dropping"
        BY <4>1 DEF o, LeftOutside, Guarded
      <4>2. QED
        BY <1>0, <2>2, <3>3, <4>1, LeftTyped DEF o
    <3>5. QED
      BY <1>1, <3>2, <3>4
  <2>4. CASE ForceOutside(s)
    BY <2>4 DEF ForceOutside, ForceSignal, providerVars
  <2>5. CASE DieOutside(s)
    <3>1. pc' = "dead" /\ at' = "dead"
      BY <2>5 DEF DieOutside, DieSignal
    <3>2. QED
      BY <1>0, <1>1, <2>2, <3>1, LeftTyped DEF o, i
  <2>6. QED
    BY <2>1, <2>3, <2>4, <2>5 DEF SignalOutside
<1>10. QED
  BY <1>3, <1>4, <1>5, <1>6, <1>7, <1>8, <1>9 DEF HostedNext, HostedMain

\* Whatever fails, and at whatever signal: no step takes the main thread back to what it
\* had begun before.  With NobodyWaitsInVain, it is the fairness of the threads alone
\* that a cancellation still needs to end.
THEOREM MainNeverTurnsBackAlways == HostedSpec => MainNeverTurnsBack
<1>1. ASSUME HostedInv, HostedInv', [HostedNext]_hostedVars
      PROVE  [MainLeft' < MainLeft]_<<at, pc>>
  <2>1. CASE at' # at \/ pc' # pc
    BY <1>1, <2>1, MainForward DEF hostedVars, vars, providerVars
  <2>2. CASE at' = at /\ pc' = pc
    BY <2>2
  <2>3. QED
    BY <2>1, <2>2
<1>2. QED
  BY <1>1, HostedAlways, PTL DEF HostedSpec, MainNeverTurnsBack
=============================================================================
