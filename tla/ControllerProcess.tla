-------------------------- MODULE ControllerProcess --------------------------
(***************************************************************************)
(* run_controller on the main thread, inside the host provider: it starts   *)
(* the controller in a session of its own, waits for it, and cancels it when *)
(* the wait is interrupted.  SIGINT and SIGTERM reach the main thread between *)
(* any two of the steps below; what one does depends on the handler that is  *)
(* installed then: raise an exception where the thread stands, or force the  *)
(* controller's process group down.  The controller is a process outside this *)
(* repository: it may exit at any time, and need not react to a signal.      *)
(***************************************************************************)
EXTENDS Naturals

CONSTANT MaxSignals   \* bound: signals the user or the system sends

ASSUME SignalAssumption == MaxSignals \in Nat

VARIABLES
    pc,           \* where run_controller stands
    handler,      \* what each signal does
    controller,   \* the controller's process group
    killSent,     \* SIGKILL was sent to it
    forced,       \* `forced` of force_shutdown
    noted,        \* the failure says that remote cleanup is unconfirmed
    provider,     \* the host provider that serves the controller
    signals,      \* signals delivered
    raisedAt      \* history: the points at which a handler raised

vars == <<pc, handler, controller, killSent, forced, noted, provider,
          signals, raisedAt>>

Signum == {"INT", "TERM"}
Points == {"enter", "installed", "spawn", "spawned", "communicating", "caught", "caught_int",
           "cancelling", "waiting", "killed", "restore_int", "restore_term",
           "closing", "restore", "left", "closed", "dead"}

\* A SIGINT raises KeyboardInterrupt by default, a SIGTERM ends the process.
Original == [s \in Signum |-> IF s = "INT" THEN "raise" ELSE "die"]

TypeOK ==
    /\ pc \in Points
    /\ handler \in [Signum -> {"raise", "die", "force"}]
    /\ controller \in {"none", "running", "exited", "killed"}
    /\ killSent \in BOOLEAN /\ forced \in BOOLEAN /\ noted \in BOOLEAN
    /\ forced => killSent /\ noted
    /\ provider \in {"open", "closed"}
    /\ signals \in 0..MaxSignals
    /\ raisedAt \in SUBSET Points

Init ==
    /\ pc = "enter" /\ handler = Original /\ controller = "none"
    /\ killSent = FALSE /\ forced = FALSE /\ noted = FALSE
    /\ provider = "open" /\ signals = 0 /\ raisedAt = {}

Goto(from, to) == pc = from /\ pc' = to
Gone == controller # "running"
-----------------------------------------------------------------------------
(* run_controller. *)

InstallTerminate ==
    /\ Goto("enter", "installed")
    /\ handler' = [handler EXCEPT !["TERM"] = "raise"]
    /\ UNCHANGED <<controller, killSent, forced, noted, provider, signals, raisedAt>>

\* The try whose finally puts the handler back.
EnterGuard ==
    /\ Goto("installed", "spawn")
    /\ UNCHANGED <<handler, controller, killSent, forced, noted, provider,
                   signals, raisedAt>>

\* Popen, which may fail.
Spawn ==
    /\ \/ Goto("spawn", "spawned") /\ controller' = "running"
       \/ Goto("spawn", "restore") /\ UNCHANGED controller
    /\ UNCHANGED <<handler, killSent, forced, noted, provider, signals, raisedAt>>

EnterTry ==
    /\ Goto("spawned", "communicating")
    /\ UNCHANGED <<handler, controller, killSent, forced, noted, provider,
                   signals, raisedAt>>

\* communicate(input) returns when the controller is gone; it may raise before.
Communicate ==
    /\ \/ Gone /\ Goto("communicating", "closing")
       \/ Goto("communicating", "caught")
    /\ UNCHANGED <<handler, controller, killSent, forced, noted, provider,
                   signals, raisedAt>>

\* _shutdown_signals(on_repeat=force_shutdown), one handler at a time.
InstallForce ==
    /\ \/ Goto("caught", "caught_int")
          /\ handler' = [handler EXCEPT !["INT"] = "force"]
       \/ Goto("caught_int", "cancelling")
          /\ handler' = [handler EXCEPT !["TERM"] = "force"]
    /\ UNCHANGED <<controller, killSent, forced, noted, provider, signals, raisedAt>>

SendTerm ==
    /\ Goto("cancelling", "waiting")
    /\ UNCHANGED <<handler, controller, killSent, forced, noted, provider,
                   signals, raisedAt>>

\* Mutant: a timeout kills without a word.
AwaitCleanupQuietly ==
    /\ \/ Gone /\ Goto("waiting", "restore_int") /\ UNCHANGED killSent
       \/ Goto("waiting", "killed") /\ killSent' = TRUE
    /\ UNCHANGED <<handler, controller, forced, noted, provider, signals, raisedAt>>

\* The grace period: the controller ends, or the wait times out or fails.
AwaitCleanup ==
    /\ \/ Gone /\ Goto("waiting", "restore_int") /\ UNCHANGED <<killSent, noted>>
       \/ Goto("waiting", "killed") /\ killSent' = TRUE /\ noted' = TRUE
    /\ UNCHANGED <<handler, controller, forced, provider, signals, raisedAt>>

\* Mutant: wait for a killed controller without a limit.
AwaitKilledForever ==
    /\ Gone /\ Goto("killed", "restore_int")
    /\ UNCHANGED <<handler, controller, killSent, forced, noted, provider,
                   signals, raisedAt>>

\* Five seconds after SIGKILL the wait is given up.
AwaitKilled ==
    /\ Goto("killed", "restore_int")
    /\ UNCHANGED <<handler, controller, killSent, forced, noted, provider,
                   signals, raisedAt>>

\* The finally clause of the inner _shutdown_signals.
RestoreRepeat ==
    /\ \/ Goto("restore_int", "restore_term")
          /\ handler' = [handler EXCEPT !["INT"] = "raise"]
       \/ Goto("restore_term", "closing")
          /\ handler' = [handler EXCEPT !["TERM"] = "raise"]
    /\ UNCHANGED <<controller, killSent, forced, noted, provider, signals, raisedAt>>

CloseStreams ==
    /\ Goto("closing", "restore")
    /\ UNCHANGED <<handler, controller, killSent, forced, noted, provider,
                   signals, raisedAt>>

\* Mutant: the outer handler stays.
RestoreNothing ==
    /\ Goto("restore", "left")
    /\ UNCHANGED <<handler, controller, killSent, forced, noted, provider,
                   signals, raisedAt>>

\* The finally clause of the outer _shutdown_signals.
RestoreTerminate ==
    /\ Goto("restore", "left")
    /\ handler' = [handler EXCEPT !["TERM"] = "die"]
    /\ UNCHANGED <<controller, killSent, forced, noted, provider, signals, raisedAt>>

\* The caller leaves the provider context.
CloseProvider ==
    /\ Goto("left", "closed")
    /\ provider' = "closed"
    /\ UNCHANGED <<handler, controller, killSent, forced, noted, signals, raisedAt>>
-----------------------------------------------------------------------------
(* Signals. *)

\* Mutant: an interrupt of the cancellation is cancelled like the first one.
UnwindAgain ==
    CASE pc \in {"enter", "installed"} -> "left"
      [] pc \in {"spawn", "spawned", "closing"} -> "restore"
      [] pc \in {"communicating", "caught", "caught_int", "restore_term"} -> "caught"
      [] OTHER -> "left"

\* Where an exception raised by a handler continues.
Unwind ==
    CASE pc \in {"enter", "installed"} -> "left"
      [] pc \in {"spawn", "spawned", "closing"} -> "restore"
      [] pc = "communicating" -> "caught"
      [] pc \in {"caught", "caught_int", "restore_term"} -> "closing"
      [] OTHER -> "left"

\* A handler that raises: KeyboardInterrupt or SystemExit.
RaiseSignal(s) ==
    /\ handler[s] = "raise"
    /\ pc' = Unwind /\ raisedAt' = raisedAt \cup {pc}
    /\ UNCHANGED <<handler, controller, killSent, forced, noted, provider>>

\* force_shutdown: the first one kills, the others do nothing.
ForceSignal(s) ==
    /\ handler[s] = "force"
    /\ forced' = TRUE
    /\ killSent' = (killSent \/ ~forced) /\ noted' = (noted \/ ~forced)
    /\ UNCHANGED <<pc, handler, controller, provider, raisedAt>>

\* SIGTERM without a handler: the manager and its provider are gone.
DieSignal(s) ==
    /\ handler[s] = "die"
    /\ pc' = "dead" /\ provider' = "closed"
    /\ UNCHANGED <<handler, controller, killSent, forced, noted, raisedAt>>

Signal(s) ==
    /\ pc \notin {"left", "closed", "dead"} /\ signals < MaxSignals
    /\ signals' = signals + 1
    /\ RaiseSignal(s) \/ ForceSignal(s) \/ DieSignal(s)

\* The controller ends by itself or because of SIGTERM; SIGKILL takes effect.
ControllerEnds ==
    /\ controller = "running"
    /\ controller' \in {"exited"} \cup (IF killSent THEN {"killed"} ELSE {})
    /\ UNCHANGED <<pc, handler, killSent, forced, noted, provider, signals, raisedAt>>

RunStep ==
    \/ InstallTerminate \/ EnterGuard \/ Spawn \/ EnterTry \/ Communicate
    \/ InstallForce \/ SendTerm \/ AwaitCleanup \/ AwaitKilled \/ RestoreRepeat
    \/ CloseStreams \/ RestoreTerminate

MainStep == RunStep \/ CloseProvider

Next == MainStep \/ ControllerEnds \/ \E s \in Signum : Signal(s)

Spec == Init /\ [][Next]_vars

-----------------------------------------------------------------------------
\* "Keep the manager provider alive until an interrupted controller has exited."
ProviderOutlivesController == provider = "closed" => controller # "running"

\* When the provider closes over a controller that did not end by itself, the
\* failure says that remote cleanup is unconfirmed, unless an exception was
\* raised where nothing handles it: after Popen and before its try, or in the
\* except clause before both handlers are replaced.
AbandonedIsReported ==
    provider = "closed" /\ controller \in {"running", "killed"} =>
        noted \/ raisedAt \cap {"spawned", "caught", "caught_int"} # {}

\* run_controller leaves both signals as it found them, also when a SIGINT cuts
\* a restore short, unless the cut is between the replacement of a handler and the
\* try that puts it back (SIGTERM's on entry; SIGINT's, before SIGTERM's, in the
\* except clause), or in the last restore.
HandlersRestored ==
    pc \in {"left", "closed"}
        /\ raisedAt \cap {"installed", "caught_int", "restore"} = {} =>
            handler = Original
=============================================================================
