---------------------------- MODULE HostProvider ----------------------------
(***************************************************************************)
(* ColdSnapHostProvider: the socket server through which the controller asks *)
(* the manager to work on hosts.  The main thread constructs it and closes   *)
(* it, one thread runs the server's loop, and each connection has a handler  *)
(* thread that nobody waits for (daemon_threads, block_on_close = False).    *)
(* The host session, its commands and containers are outside src/: opening   *)
(* may fail, an operation on a host may never return.                        *)
(***************************************************************************)
EXTENDS Naturals

CONSTANT Requests     \* connections the controller may make

VARIABLES
    at,           \* where the main thread stands in the provider's life
    session,      \* the host session
    directory,    \* the private directory under /tmp exists
    server,       \* the Unix socket server
    stop,         \* the server's shutdown request
    loop,         \* the thread that runs serve_forever
    conn          \* what became of each connection

providerVars == <<at, session, directory, server, stop, loop, conn>>
serverVars == <<stop, loop, conn>>

Opening == {"session", "opened", "runtime", "mkdtemp", "made", "bind", "dropping",
            "chmod", "start"}
Guarded == {"runtime", "bind"}      \* the try statements of the constructor
Closing == {"closing", "stopping", "unbinding", "disconnecting", "sweeping"}
ConnStates == {"none", "queued", "handling", "working", "done",
               "answered", "reset"}

ProviderInit ==
    /\ at = "session" /\ session = "none" /\ directory = FALSE
    /\ server = "none" /\ stop = FALSE /\ loop = "none"
    /\ conn = [r \in Requests |-> "none"]

Advance(from, to) == at = from /\ at' = to
-----------------------------------------------------------------------------
(* The constructor.  An exception is a failure of a step or an interrupt; only  *)
(* the latter strikes where nothing but assignments are left to do.            *)

OpenSession ==
    /\ Advance("session", "opened") /\ session' = "open"
    /\ UNCHANGED <<directory, server, serverVars>>

\* The try around the runtime is entered, and left.
BuildRuntime ==
    /\ Advance("opened", "runtime") \/ Advance("runtime", "mkdtemp")
    /\ UNCHANGED <<session, directory, server, serverVars>>

RefuseCapabilities ==
    /\ Advance("mkdtemp", "dropping")
    /\ UNCHANGED <<session, directory, server, serverVars>>

MakeDirectory ==
    /\ Advance("mkdtemp", "made") /\ directory' = TRUE
    /\ UNCHANGED <<session, server, serverVars>>

\* The try around the server.
EnterBind ==
    /\ Advance("made", "bind")
    /\ UNCHANGED <<session, directory, server, serverVars>>

\* The server's constructor binds and listens.
Bind ==
    /\ Advance("bind", "chmod") /\ server' = "listening"
    /\ UNCHANGED <<session, directory, serverVars>>

MakePrivate ==
    /\ Advance("chmod", "start")
    /\ UNCHANGED <<session, directory, server, serverVars>>

StartServing ==
    /\ Advance("start", "open") /\ loop' = "polling"
    /\ UNCHANGED <<session, directory, server, stop, conn>>

\* session.close() and, where there is one, the removal of the directory; then the
\* exception goes on.
Drop ==
    /\ Advance("dropping", "done") /\ session' = "closed" /\ directory' = FALSE
    /\ UNCHANGED <<server, serverVars>>

\* Mutant: a server that cannot be bound leaves its session.
RaiseOpeningInPart ==
    /\ at \in Opening
    /\ at' = IF at = "runtime" THEN "dropping" ELSE "done"
    /\ session' \in {session} \cup (IF at = "dropping" THEN {"closed"} ELSE {})
    /\ UNCHANGED <<directory, server, serverVars>>

\* An exception in a try statement leads to its except clause.  Elsewhere it leaves
\* the constructor, which closes nothing; in an except clause before or after the
\* session is closed.
RaiseOpening ==
    /\ at \in Opening
    /\ at' = IF at \in Guarded THEN "dropping" ELSE "done"
    /\ session' \in {session} \cup (IF at = "dropping" THEN {"closed"} ELSE {})
    /\ UNCHANGED <<directory, server, serverVars>>

FailOpening == at \notin {"opened", "made"} /\ RaiseOpening

Construct ==
    \/ OpenSession \/ BuildRuntime \/ RefuseCapabilities \/ MakeDirectory
    \/ EnterBind \/ Bind \/ MakePrivate \/ StartServing \/ Drop
-----------------------------------------------------------------------------
(* close(), once: _closed is set before its first step. *)

RequestShutdown ==
    /\ Advance("closing", "stopping") /\ stop' = TRUE
    /\ UNCHANGED <<session, directory, server, loop, conn>>

\* Mutant: shutdown() does not wait for the loop.
AwaitLoopNot ==
    /\ Advance("stopping", "unbinding")
    /\ UNCHANGED <<session, directory, server, serverVars>>

\* shutdown() returns when serve_forever has.
AwaitLoop ==
    /\ loop = "ended" /\ Advance("stopping", "unbinding")
    /\ UNCHANGED <<session, directory, server, serverVars>>

\* The handlers are not joined.  What waits in the backlog is reset.
CloseServer ==
    /\ Advance("unbinding", "disconnecting") /\ server' = "closed"
    /\ conn' = [r \in Requests |-> IF conn[r] = "queued" THEN "reset" ELSE conn[r]]
    /\ UNCHANGED <<session, directory, stop, loop>>

CloseSession ==
    /\ Advance("disconnecting", "sweeping") /\ session' = "closed"
    /\ UNCHANGED <<directory, server, serverVars>>

\* thread.join(timeout=2) on a loop that has ended, then rmtree.
Sweep ==
    /\ Advance("sweeping", "done") /\ directory' = FALSE
    /\ UNCHANGED <<session, server, serverVars>>

Close == RequestShutdown \/ AwaitLoop \/ CloseServer \/ CloseSession \/ Sweep
-----------------------------------------------------------------------------
(* serve_forever.  The request to stop is looked at before a connection is     *)
(* taken, not while it is.                                                     *)

\* Mutant: no connection is taken while another one works.
SelectWhenIdle ==
    /\ loop = "polling"
    /\ loop' = IF stop THEN "ended" ELSE "accepting"
    /\ stop \/ \E r \in Requests : conn[r] = "queued"
    /\ stop \/ \A r \in Requests : conn[r] # "working"
    /\ UNCHANGED <<at, session, directory, server, stop, conn>>

Select ==
    /\ loop = "polling"
    /\ loop' = IF stop THEN "ended" ELSE "accepting"
    /\ stop \/ \E r \in Requests : conn[r] = "queued"
    /\ UNCHANGED <<at, session, directory, server, stop, conn>>

Accept(r) ==
    /\ loop = "accepting" /\ conn[r] = "queued"
    /\ loop' = "polling" /\ conn' = [conn EXCEPT ![r] = "handling"]
    /\ UNCHANGED <<at, session, directory, server, stop>>

ServeLoop == Select \/ \E r \in Requests : Accept(r)
-----------------------------------------------------------------------------
(* One connection: the controller's end and the handler thread.               *)

Move(r, from, to) == conn[r] = from /\ conn' = [conn EXCEPT ![r] = to]

Connect(r) ==
    /\ server = "listening" /\ Move(r, "none", "queued")
    /\ UNCHANGED <<at, session, directory, server, stop, loop>>

\* dispatch: a request is refused (its form, token, session, capability or host),
\* or answered at once (capabilities), or has the session or the runtime work.
Dispatch(r) ==
    /\ Move(r, "handling", "done") \/ Move(r, "handling", "working")
    /\ UNCHANGED <<at, session, directory, server, stop, loop>>

\* The host operation returns or raises, if it does.
WorkEnds(r) ==
    /\ Move(r, "working", "done")
    /\ UNCHANGED <<at, session, directory, server, stop, loop>>

\* The response, also of an error; that the peer has gone is ignored.
Answer(r) ==
    /\ Move(r, "done", "answered")
    /\ UNCHANGED <<at, session, directory, server, stop, loop>>
=============================================================================
