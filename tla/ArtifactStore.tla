---------------------------- MODULE ArtifactStore ----------------------------
(***************************************************************************)
(* The controller-side descriptor store of one recipe fingerprint and one  *)
(* snapshot driver: artifacts.py, and the import half of oci_artifacts.py  *)
(* that shares its root directory.                                         *)
(*                                                                         *)
(* A process is one invocation of the plugin: it promotes one capture      *)
(* descriptor, removes the whole store, or imports a descriptor from OCI.  *)
(* Every file operation that another process can observe is a step of its  *)
(* own.  flock(2) locks an inode, not a name, so the model keeps the inode *)
(* that .lock names apart from the inode each process has open.  An inode  *)
(* is named by the process whose open created it.                          *)
(***************************************************************************)
EXTENDS Naturals, FiniteSets

CONSTANTS
    Procs,        \* plugin invocations
    Captures,     \* generation identifiers, ordered as their file names are
    Keep,         \* the generation limit; "unlimited" is any Keep >= |Captures|
    Clock,        \* the readings time.time_ns() may return, in any order
    Times,        \* bound: the activation stamps a generation may get
    Ops,          \* which operations processes run
    MaxCrashes,   \* bound: how many processes die in mid-operation
    NoProc,       \* no process, no inode
    NoCapture     \* no descriptor

ASSUME StoreAssumption ==
    /\ Captures \subseteq Nat /\ NoCapture \notin Captures
    /\ NoProc \notin Procs
    /\ Keep \in Nat /\ MaxCrashes \in Nat
    /\ Clock \subseteq Times /\ Times \subseteq Nat \ {0}
    /\ Ops \subseteq {"promote", "remove", "import"}

VARIABLES
    root,       \* the store's root directory exists
    lockFile,   \* the inode that root/.lock names, or NoProc
    fd,         \* fd[p]: the lock inode p has open, or NoProc
    locked,     \* the processes that hold the flock of the inode they opened
    pending,    \* pending[c]: mtime of pending/<c>.json, 0 when absent
    gens,       \* gens[c]: mtime of generations/<c>.json, 0 when absent
    current,    \* the capture whose bytes current.json holds, or NoCapture
    imported,   \* imported.json exists
    litter,     \* the processes whose temporary entry is in root
    op, cap,    \* the operation p runs, and the capture it promotes
    pc,
    step,       \* the index in Members the remover p clears next
    victims,    \* victims[p]: the generations p has decided to prune
    crashes,
    activated,  \* history: captures that have been current
    unlinked    \* history: some remover has unlinked .lock

store == <<root, lockFile, pending, gens, current, imported, litter>>
local == <<fd, locked, op, cap, pc, step, victims>>
vars == <<store, local, crashes, activated, unlinked>>

\* Mutant: the directories in the other order.
MembersPendingFirst == <<"current", "imported", "pending", "generations">>
\* remove_artifact_store clears the members in this order, and the overlay
\* directories of LocalOverlay after them.
Members == <<"current", "imported", "generations", "pending">>

PromotionStates ==
    {"locked", "renamed", "stamped", "temp", "activated", "pruning"}

\* The states in which p is inside `with _store_lock(store)`.
Critical == PromotionStates \cup {"clearing"}
InCritical(p) == pc[p] \in Critical
Ended == {"done", "crashed"}
-----------------------------------------------------------------------------
\* Nothing is left in the root directory.
Empty ==
    /\ lockFile = NoProc /\ litter = {} /\ ~imported /\ current = NoCapture
    /\ \A c \in Captures : gens[c] = 0 /\ pending[c] = 0

\* Types, and the directory tree is one: a root that is gone has no entries.
TypeOK ==
    /\ root \in BOOLEAN
    /\ lockFile \in Procs \cup {NoProc}
    /\ fd \in [Procs -> Procs \cup {NoProc}]
    /\ locked \in SUBSET Procs
    /\ pending \in [Captures -> Nat]
    /\ gens \in [Captures -> Nat]
    /\ current \in Captures \cup {NoCapture}
    /\ imported \in BOOLEAN
    /\ litter \in SUBSET Procs
    /\ op \in [Procs -> {"none", "promote", "remove", "import"}]
    /\ cap \in [Procs -> Captures \cup {NoCapture}]
    /\ pc \in [Procs -> {"idle", "captured", "rooted", "opened", "waiting",
                         "unlocked", "bare", "importing"} \cup Critical \cup Ended]
    /\ step \in [Procs -> 1..5]
    /\ victims \in [Procs -> SUBSET Captures]
    /\ crashes \in Nat
    /\ activated \in SUBSET Captures
    /\ unlinked \in BOOLEAN
    /\ ~root => Empty

Init ==
    /\ root = FALSE /\ lockFile = NoProc
    /\ fd = [p \in Procs |-> NoProc] /\ locked = {}
    /\ pending = [c \in Captures |-> 0] /\ gens = [c \in Captures |-> 0]
    /\ current = NoCapture /\ imported = FALSE /\ litter = {}
    /\ op = [p \in Procs |-> "none"] /\ cap = [p \in Procs |-> NoCapture]
    /\ pc = [p \in Procs |-> "idle"]
    /\ step = [p \in Procs |-> 1] /\ victims = [p \in Procs |-> {}]
    /\ crashes = 0 /\ activated = {} /\ unlinked = FALSE

Goto(p, label) == pc' = [pc EXCEPT ![p] = label]

\* Leave `with _store_lock(store)`: LOCK_UN, close, and on to `label`.
Release(p, label) ==
    /\ locked' = locked \ {p}
    /\ fd' = [fd EXCEPT ![p] = NoProc]
    /\ Goto(p, label)
-----------------------------------------------------------------------------
(* Entering the lock                                                       *)

\* The capture controller commits pending/<c>.json; the plugin then calls
\* promote_generation.  Operation identifiers are fresh, so c is too.
Capture(p, c, now) ==
    /\ pc[p] = "idle" /\ "promote" \in Ops
    /\ \A q \in Procs : cap[q] # c
    /\ op' = [op EXCEPT ![p] = "promote"]
    /\ cap' = [cap EXCEPT ![p] = c]
    /\ pending' = [pending EXCEPT ![c] = now]
    /\ root' = TRUE
    /\ Goto(p, "captured")
    /\ UNCHANGED <<lockFile, gens, current, imported, litter, fd, locked, step,
                   victims, crashes, activated, unlinked>>

\* remove_artifact_store returns at once when there is no store.
StartRemove(p) ==
    /\ pc[p] = "idle" /\ "remove" \in Ops
    /\ op' = [op EXCEPT ![p] = "remove"]
    /\ Goto(p, IF root THEN "captured" ELSE "done")
    /\ UNCHANGED <<store, fd, locked, cap, step, victims, crashes, activated,
                   unlinked>>

\* _store_lock: mkdir(root), before the open.
MakeRoot(p) ==
    /\ pc[p] = "captured"
    /\ root' = TRUE
    /\ Goto(p, "rooted")
    /\ UNCHANGED <<lockFile, pending, gens, current, imported, litter, fd, locked,
                   op, cap, step, victims, crashes, activated, unlinked>>

\* os.open(.lock, O_CREAT): the inode .lock names now, or a new one.  The root
\* may have been removed since MakeRoot; the open then raises.
OpenLock(p) ==
    /\ pc[p] = "rooted"
    /\ \/ /\ ~root
          /\ Goto(p, "done")
          /\ UNCHANGED <<lockFile, fd>>
       \/ /\ root
          /\ lockFile' = IF lockFile = NoProc THEN p ELSE lockFile
          /\ fd' = [fd EXCEPT ![p] = lockFile']
          /\ Goto(p, "opened")
    /\ UNCHANGED <<root, pending, gens, current, imported, litter, locked, op, cap,
                   step, victims, crashes, activated, unlinked>>

\* os.chmod(.lock) goes by name, so it raises when .lock was unlinked.
ChmodLock(p) ==
    /\ pc[p] = "opened"
    /\ \/ lockFile # NoProc /\ Goto(p, "waiting") /\ UNCHANGED <<fd, locked>>
       \/ lockFile = NoProc /\ Release(p, "done")
    /\ UNCHANGED <<store, op, cap, step, victims, crashes, activated, unlinked>>

\* Mutant: the platform has no flock (fcntl is None).
LockFreeNoFcntl(p) == TRUE
LockFree(p) == \A q \in locked : fd[q] # fd[p]

\* fcntl.flock(descriptor, LOCK_EX) on the inode that was opened.
Acquire(p) ==
    /\ pc[p] = "waiting"
    /\ LockFree(p)
    /\ locked' = locked \cup {p}
    /\ Goto(p, IF op[p] = "promote" THEN "locked" ELSE "clearing")
    /\ UNCHANGED <<store, fd, op, cap, step, victims, crashes, activated, unlinked>>
-----------------------------------------------------------------------------
(* promote_generation, inside the lock                                     *)

\* Mutant: an error leaves the lock scope without its finally.
RenameNoFinally(p) ==
    LET c == cap[p] IN
    /\ pc[p] = "locked"
    /\ \/ /\ pending[c] = 0 \/ gens[c] # 0
          /\ Goto(p, "done")
          /\ UNCHANGED <<pending, gens, root, fd, locked>>
       \/ /\ pending[c] # 0 /\ gens[c] = 0
          /\ gens' = [gens EXCEPT ![c] = pending[c]]
          /\ pending' = [pending EXCEPT ![c] = 0]
          /\ root' = TRUE
          /\ Goto(p, "renamed")
          /\ UNCHANGED <<fd, locked>>
    /\ UNCHANGED <<lockFile, current, imported, litter, op, cap, step, victims,
                   crashes, activated, unlinked>>

\* Read and validate the pending descriptor, then os.replace it into
\* generations/.  It fails when the descriptor is gone or already retained.
Rename(p) ==
    LET c == cap[p] IN
    /\ pc[p] = "locked"
    /\ \/ /\ pending[c] = 0 \/ gens[c] # 0
          /\ Release(p, "done")
          /\ UNCHANGED <<pending, gens, root>>
       \/ /\ pending[c] # 0 /\ gens[c] = 0
          /\ gens' = [gens EXCEPT ![c] = pending[c]]
          /\ pending' = [pending EXCEPT ![c] = 0]
          /\ root' = TRUE
          /\ Goto(p, "renamed")
          /\ UNCHANGED <<fd, locked>>
    /\ UNCHANGED <<lockFile, current, imported, litter, op, cap, step, victims,
                   crashes, activated, unlinked>>

\* Mutant: the stamp is the wall clock, which may run behind.
WallClockActivation(t, now) == t = now

\* t = max(now, latest + 1), with latest = 0 when there is no generation.
NextActivation(t, now) ==
    /\ t >= now
    /\ \A c \in Captures : t > gens[c]
    /\ t = now \/ \E c \in Captures : t = gens[c] + 1

\* os.utime: the activation order replaces the capture's own mtime.
Stamp(p, now) ==
    /\ pc[p] = "renamed"
    /\ \/ /\ gens[cap[p]] = 0
          /\ Release(p, "done")
          /\ UNCHANGED gens
       \/ /\ gens[cap[p]] # 0
          /\ \E t \in Times :
                /\ NextActivation(t, now)
                /\ gens' = [gens EXCEPT ![cap[p]] = t]
          /\ Goto(p, "stamped")
          /\ UNCHANGED <<fd, locked>>
    /\ UNCHANGED <<root, lockFile, pending, current, imported, litter, op, cap, step,
                   victims, crashes, activated, unlinked>>

\* _atomic_write up to the fsync: a temporary file beside current.json.
WriteTemp(p) ==
    /\ pc[p] = "stamped"
    /\ litter' = litter \cup {p}
    /\ root' = TRUE
    /\ Goto(p, "temp")
    /\ UNCHANGED <<lockFile, pending, gens, current, imported, fd, locked, op, cap,
                   step, victims, crashes, activated, unlinked>>

\* os.replace(temporary, current.json).
Activate(p) ==
    /\ pc[p] = "temp"
    /\ current' = cap[p]
    /\ activated' = activated \cup {cap[p]}
    /\ litter' = litter \ {p}
    /\ Goto(p, "activated")
    /\ UNCHANGED <<root, lockFile, pending, gens, imported, fd, locked, op, cap,
                   step, victims, crashes, unlinked>>

\* candidates.sort(reverse=True): by mtime, then by name.
Newer(d, c) == gens[d] > gens[c] \/ (gens[d] = gens[c] /\ d > c)
Generations == {c \in Captures : gens[c] # 0}

\* Mutant: sorted oldest first, so the slice drops the newest.
SurplusWrongEnd ==
    {c \in Generations : Cardinality({d \in Generations : Newer(c, d)}) >= Keep}

\* candidates[keep_generations:]
Surplus ==
    {c \in Generations : Cardinality({d \in Generations : Newer(d, c)}) >= Keep}

ScanGenerations(p) ==
    /\ pc[p] = "activated"
    /\ victims' = [victims EXCEPT ![p] = Surplus]
    /\ Goto(p, "pruning")
    /\ UNCHANGED <<store, fd, locked, op, cap, step, crashes, activated, unlinked>>

\* Unlink the surplus, newest first; a victim that is gone raises.  The scope
\* of the lock ends with the last one.
PruneStep(p) ==
    /\ pc[p] = "pruning"
    /\ \/ /\ victims[p] = {}
          /\ Release(p, "done")
          /\ UNCHANGED <<gens, victims>>
       \/ \E c \in victims[p] :
            /\ \A d \in victims[p] : ~Newer(d, c)
            /\ \/ /\ gens[c] = 0
                  /\ Release(p, "done")
                  /\ UNCHANGED <<gens, victims>>
               \/ /\ gens[c] # 0
                  /\ gens' = [gens EXCEPT ![c] = 0]
                  /\ victims' = [victims EXCEPT ![p] = @ \ {c}]
                  /\ UNCHANGED <<pc, fd, locked>>
    /\ UNCHANGED <<root, lockFile, pending, current, imported, litter, op, cap,
                   step, crashes, activated, unlinked>>
-----------------------------------------------------------------------------
(* remove_artifact_store                                                   *)

\* One member of the store per step; then the lock is released.
ClearMember(p) ==
    /\ pc[p] = "clearing"
    /\ \/ /\ step[p] = 5
          /\ Release(p, "unlocked")
          /\ UNCHANGED <<current, gens, pending, imported, step>>
       \/ /\ step[p] <= 4
          /\ LET m == Members[step[p]] IN
             /\ current' = IF m = "current" THEN NoCapture ELSE current
             /\ gens' = IF m = "generations" THEN [c \in Captures |-> 0] ELSE gens
             /\ pending' = IF m = "pending" THEN [c \in Captures |-> 0] ELSE pending
             /\ imported' = (imported /\ m # "imported")
          /\ step' = [step EXCEPT ![p] = @ + 1]
          /\ UNCHANGED <<pc, fd, locked>>
    /\ UNCHANGED <<root, lockFile, litter, op, cap, victims, crashes, activated,
                   unlinked>>

\* lock.unlink(), after the lock was released.
UnlinkLock(p) ==
    /\ pc[p] = "unlocked"
    /\ lockFile' = NoProc
    /\ unlinked' = (unlinked \/ lockFile # NoProc)
    /\ Goto(p, "bare")
    /\ UNCHANGED <<root, pending, gens, current, imported, litter, fd, locked, op,
                   cap, step, victims, crashes, activated>>

\* root.iterdir() finds something unexpected and raises, or root.rmdir().
RemoveRoot(p) ==
    /\ pc[p] = "bare"
    /\ root' = (root /\ ~Empty)
    /\ Goto(p, "done")
    /\ UNCHANGED <<lockFile, pending, gens, current, imported, litter, fd, locked, op,
                   cap, step, victims, crashes, activated, unlinked>>
-----------------------------------------------------------------------------
(* stage_oci_artifact, which takes no lock                                 *)

\* mkdtemp inside the store root, then docker create and cp into it.
StartImport(p) ==
    /\ pc[p] = "idle" /\ "import" \in Ops
    /\ op' = [op EXCEPT ![p] = "import"]
    /\ root' = TRUE
    /\ litter' = litter \cup {p}
    /\ Goto(p, "importing")
    /\ UNCHANGED <<lockFile, pending, gens, current, imported, fd, locked, cap, step,
                   victims, crashes, activated, unlinked>>

\* os.replace onto imported.json, or an error; the temporary goes either way.
FinishImport(p) ==
    /\ pc[p] = "importing"
    /\ \/ imported' = TRUE
       \/ UNCHANGED imported
    /\ litter' = litter \ {p}
    /\ Goto(p, "done")
    /\ UNCHANGED <<root, lockFile, pending, gens, current, fd, locked, op, cap, step,
                   victims, crashes, activated, unlinked>>
-----------------------------------------------------------------------------
\* The process dies.  The kernel closes its descriptors, which drops the
\* flock; its temporary entry stays.
Crash(p) ==
    /\ pc[p] \notin {"idle"} \cup Ended
    /\ crashes < MaxCrashes
    /\ crashes' = crashes + 1
    /\ Release(p, "crashed")
    /\ UNCHANGED <<store, op, cap, step, victims, activated, unlinked>>

\* p's program, apart from starting an operation and dying.
Run(p) ==
    \/ MakeRoot(p) \/ OpenLock(p) \/ ChmodLock(p) \/ Acquire(p)
    \/ Rename(p) \/ (\E now \in Clock : Stamp(p, now)) \/ WriteTemp(p)
    \/ Activate(p) \/ ScanGenerations(p) \/ PruneStep(p)
    \/ ClearMember(p) \/ UnlinkLock(p) \/ RemoveRoot(p)
    \/ FinishImport(p)

Start(p) ==
    \/ \E c \in Captures, now \in Clock : Capture(p, c, now)
    \/ StartRemove(p)
    \/ StartImport(p)

Next == \E p \in Procs : Start(p) \/ Run(p) \/ Crash(p)

Spec == Init /\ [][Next]_vars

\* The kernel schedules a live process and grants a free flock to a waiter.
FairSpec == Spec /\ \A p \in Procs : WF_vars(Run(p))
-----------------------------------------------------------------------------
(* Safety                                                                  *)

\* Docstring of promote_generation: "Promotion is serialized per recipe
\* fingerprint" (artifacts.py:120).  Here: two promotions that have both moved
\* their descriptor into generations/ are never both unfinished.
Promoting(p) == pc[p] \in PromotionStates \ {"locked"}
PromotionSerialized ==
    \A p, q \in Procs : Promoting(p) /\ Promoting(q) => p = q

\* As long as no removal has unlinked .lock, at most one process is between
\* taking and releasing the store lock, crashes included.
SerializedUntilUnlink ==
    ~unlinked => \A p, q \in Procs : InCritical(p) /\ InCritical(q) => p = q

\* current.json holds the newest descriptor ever activated, and its generation
\* is retained: neither a clock that runs backwards, nor a promotion that died
\* half way, nor pruning takes it from under the readers.
CurrentIsNewest ==
    ~unlinked /\ Keep > 0 /\ current # NoCapture =>
        /\ gens[current] # 0
        /\ \A c \in activated : gens[c] <= gens[current]
-----------------------------------------------------------------------------
(* What the store implements                                               *)

\* The pairs of generations with the newer one first.
ByAge == {e \in Generations \X Generations : Newer(e[1], e[2])}

\* A reader of generations/ and current.json sees the log of GenerationLog: the
\* files by mtime and name, the newest of them activated, and pruning that
\* spares the Keep newest and the current one, although a promotion takes seven
\* steps, may die in any of them, and runs beside others and a removal.
Log == INSTANCE GenerationLog WITH
    kept <- Generations, newer <- ByAge, cur <- current, lost <- unlinked

ImplementsLog == Log!Spec

\* Where the descriptor of a capture is, for those who look for descriptors only.
Where(c) ==
    IF gens[c] # 0 THEN "generations"
    ELSE IF pending[c] # 0 THEN "pending"
    ELSE IF \E p \in Procs : cap[p] = c THEN "gone" ELSE "capturing"

Places == [c \in Captures |-> Where(c)]

\* A removal has been through generations/ and pending/.
Cleared == IF \E p \in Procs : step[p] = 5 THEN {"store"} ELSE {}

\* To deletions, publications and scans, which take no lock, the store is one of
\* DescriptorStores: a descriptor is written, renamed and unlinked, and unlinked
\* only when more than Keep are there or a removal has cleared the store.
Descriptors == INSTANCE DescriptorStores WITH
    Stores <- {"store"}, StoreOf <- [c \in Captures |-> "store"],
    state <- Places, cleared <- Cleared

ImplementsStores == Descriptors!StoresSpec
=============================================================================
