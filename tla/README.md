# TLA+ models of the ColdSnap plugin for sparkrun

The plugin captures a running inference workload into a *snapshot artifact* and restores
workloads from it. It runs on a manager machine, drives an external controller process
(`coldsnap`), and keeps descriptors, overlays and plans on the manager while payloads and
images stay on the cluster's hosts. It has no server: every operation is one invocation
of a command, and several invocations share the manager's cache directory and the hosts.
Most of what can go wrong is therefore between processes that share files, between the
threads of one invocation, or at a signal.

Source paths below are relative to `src/src/sparkrun/plugins/coldsnap/`.

## 1. Inventory

| Component | State | Operations | Hard behaviour | Correct when |
|---|---|---|---|---|
| Artifact store (`artifacts.py`) | `.lock`, `pending/`, `generations/` with mtimes, `current.json`, `imported.json` | promote, remove | lock file that is itself removed, clocks that go back, crashes between rename and activation | one promotion at a time; `current.json` is the newest generation; pruning spares it; nobody is blocked for ever |
| OCI import (`oci_artifacts.py`) | a temporary directory and `imported.json` in the store | pull, stage | takes no lock | a staged descriptor is whole; removal copes with leftovers |
| Timing stream (`timing.py`) | sequence, clocks, spans, active entries; file position | accept, finish, follow | reader thread against an appending process and a stop flag | an accepted stream is a forest of closed spans, its end is not lost, the reader ends |
| Invocation (`service.py`, `_invoke`) | stop event, thread, receipt, provider | run, stop, join, check | the order of stop, join, receipt and provider close | a usable stream is the whole stream |
| Controller process (`controller_process.py`) | handlers, process group, notes | run, cancel, force | signals between any two steps; a controller that does not react | the provider outlives the controller, or the user is told; handlers are put back |
| Local overlays (`local_overlays.py`) | `artifact.json` and `overlay.json` per target | select, promote, unlink | no lock, two files, source replaced meanwhile | a selected overlay belongs to its portable source; the portable one stays usable |
| Deletion (`deletion.py`, `cli.py`, `oci_artifacts.py`) | a rendered plan; registry and model repository; hosts; the store | plan, confirm, execute in the scopes local, published, both | time between plan and execution, scan without locks, registries and hosts that fail, two deletions, publications beside them | shared assets survive on the hosts and in the registry, nothing becomes unreachable |
| Capture operation (`service.py` `execute_explicit`, `runtime_cache.py`) | staged private trees, eviction, pending descriptor | stage, weights, evict, invoke, publish, promote, clean up | pools of threads, interrupts, order of irreversible steps | no tree is left on a host; nothing is evicted before all is prepared; the descriptor is promoted last |
| Host provider (`host_provider.py`, `manager_runtime.py`) | session, directory, socket, serving thread, handler threads | construct, serve, dispatch, close | requests in flight and in the backlog while it closes; failed construction; interrupts in either | everything opened is closed; nobody is admitted after the close or waits for ever |
| Builder (`builder.py`, `git_sources.py`) | staged sources; the plan's directory and tags on the build host | look up, clone, stage, build, validate, clean up | builds of one plan side by side, a tag set before the validation, failures at every command | a returned tag is validated; nothing stays staged; only twins disturb each other |
| Restore staging (`providers.py`, `service.py`) | the policies of the request, the payloads found per worker | select, look up in three places, fall back, prepare, launch | one worker of several fails; the artifact file is read several times and may be replaced | payloads of one capture; a fallback leaves no trace |
| Tool cache (`tool.py`) | installed binaries and their manifest | install, verify, use | two installers and a reader | a used binary is a verified one |
| Lifecycle (`service.py`) | none; sparkrun's workload table | resolve, act | the workload changes in between | exactly one workload is acted on |
| Configuration, target environment, formatting | none of their own | | | |

How they interact: the capture operation invokes the controller (controller process and
timing stream, inside the host provider, through whose socket the controller has hosts
work), whose descriptor in `pending/` it promotes into
the artifact store; restore reads the store's `current.json` and may select a local
overlay; materialization captures and promotes an overlay bound to a portable artifact of
the store; image preparation calls the builder; a publication pushes what a descriptor names and
writes one of its own; deletion reads the descriptors of all stores and removes one of them, with
what it names on the hosts and in the registry.

## 2. Plan

1. `ArtifactStore`, with the abstract `GenerationLog` it implements. *Done.*
2. `TimingEvents` and `TimingStream`, which composes it with the two threads. *Done.*
3. `ControllerProcess`. *Done.*
4. `LocalOverlay`. *Done.*
5. `Deletion`, local scope. *Done.*
6. `CaptureOperation`: the order of `execute_explicit`, with the pools of
   `runtime_cache.py` and interrupts. *Done.*
7. `RestoreStaging`: workers, modes and fallback. *Done.*
8. `ToolCache`: installers and users of one version directory. *Done.*
9. `HostProvider`, and `HostedController`, which composes it with `ControllerProcess` and
   the rest of `_invoke`. *Done.*
10. `PublishedDeletion`: the other scopes of a deletion, and publications. *Done.*
11. `Builder`: invocations that share a build host. *Done.*
12. Proofs for 9 to 11. *Done.*
13. `DescriptorStores`: the stores as those who take no lock see them, implemented by `ArtifactStore` and
    used by `Deletion`. The proofs of both, and of `GenerationLog`. *Done.*
14. The safety halves of the liveness properties: who waits for whom, and the measures that
    fall. *Done.*

## 3. Modules

**ArtifactStore** models one store. A process is one invocation. Each system call
another process can observe is an action: making the root, opening `.lock`, `chmod`,
`flock`, the rename to `generations/`, the mtime, the temporary file and the replacement
of `current.json`, each unlink of pruning, each member a removal clears, the unlink of
`.lock`, the `rmdir`. The lock is an inode (named by the process whose `open` created it),
because `flock` is held on the inode and a removal unlinks the name. Failures of the code's
own checks (`FileExistsError`-like cases, "unexpected entries", a vanished root) are the
alternative branches of the actions. What a descriptor says is a capture identifier. The overlay
directories a removal also clears are left to `LocalOverlay`.

**GenerationLog** is what a reader of the store may rely on: a set of retained generations
with their order of age, of which only entries beyond the `Keep` newest are trimmed and the newest
alone becomes current. `ArtifactStore` maps its files to it (`ByAge` is the order by
mtime and name). After `.lock` was unlinked nothing is promised.

**DescriptorStores** is what remains for those who take no lock (deletions, publications,
scans): a descriptor is written to `pending/`, renamed, and unlinked; a generation is
unlinked only while more than `Keep` are there, or after a removal has been through the store (`cleared`),
since then two promotions can each count the other's. A removal clears one directory,
then the other. `Deletion` and `PublishedDeletion` change the stores by these steps alone, and `ArtifactStore`
implements them (`Places`, `Cleared`), before and after `.lock` was unlinked. So what is proved of
deletions holds beside every file operation of a promotion, an import or a removal.

**TimingEvents** is `OperationTimingEventStream` with the bookkeeping of
`OperationTimingProgress`: a record is a kind with identifiers, a sequence number and a
parent; durations and attributes are left out, and an invalid record is one whose `accept`
raises. **TimingStream** adds the file, the reader thread and the main thread of `_invoke`.
The controller is external: it may write any record, tear one, die, or go on after the wait
was interrupted.

**ControllerProcess** follows `run_controller` statement by statement, with the handler
installed for each signal; `Signal` is enabled between any two steps, on the main thread, also between the
replacement of a handler and the `try` that puts it back (`installed`).

**HostProvider** is the socket server through which the controller has the manager work on hosts:
the constructor opens session, directory, socket and thread one after the other (`at` is the place of
the main thread). Only two of its places are in a `try` (`Guarded`: the runtime, the server); an exception there leads to the
`except` clause (`dropping`), one anywhere else, before, between or after them, leaves what is open as it is
(`RaiseOpening`). A failure is such an exception of a step that does something (`FailOpening`), an interrupt comes anywhere. `close()` is its five steps. A
connection is queued, taken by the loop, handled in a thread of its own that may wait for a host for ever, and answered;
nobody joins these threads. **HostedController** composes it with `ControllerProcess` as
`_invoke` does: the provider is constructed, receipt directory and reader follow, then the
contexts and the run, `event_stop` and the join, the receipt, the close. The provider is closed by its
context, which is entered after the reader was started (`Before`). The
reader is `TimingStream` seen from outside (it ends once it is told to, which
`StopEndsReader` checks). A signal outside of `run_controller` meets the handlers that are installed there;
`leftAt` records where an exception left the code, so that the properties can name the places
where the code has no clause.

**LocalOverlay** follows selection and promotion of one target key, for vLLM
(`promote_local_overlay`, which may find that nothing differs and unlinks) and SGLang
(`promote_local_materialization`, which verifies and re-reads the source). A digest is the
maker of the artifact; a source is the content of the portable artifact.

**Deletion** has any number of stores, hosts and deletions. A plan's digests and hosts are
functions of the records read, the digests retained and the selected cluster, as
`build_deletion_plan` computes them. Of the descriptors with one capture identity, which a publication has of
its origin, a plan keeps the one with the higher score, or the first read (`Foremost`, `OnePerCapture`);
the others are `seen`, are removed with the store, and leave in `left` what only they name. An image's name is its reference, and `docker image rm`
takes the one it is given; payloads and images are known elsewhere by their digest (`DigestOf`). Promotions prune (`Prune`) at any time after they rename, and the removal of
the store clears `generations/` and then `pending/`. A capture's state directory, which no other capture
shares, and cached Hugging Face copies of a payload, which are deleted by the same program
as the payload, are part of the payload. `left` records what the code knowingly leaves
without a descriptor: pruned generations, captures promoted after the plan, assets another
store retained, hosts outside the cluster. `unbound` holds the captures no running deletion can be held to
preserve: begun beside it, renamed while it read the directories, or in the store it removes.
A model that lacks either would claim too much.

**PublishedDeletion** extends it with the scopes `published` and `both`. A publication is a
capture whose assets are those of another (`OriginOf`), in whatever store: it reads a committed descriptor, pushes
what that names (`registry`), writes its own, points the recipe's `tag` at it, and promotes it, in
this order. What is published is an asset in a repository (`Places`), since publications of one capture may go to
several; `RemoteOf` is where each of them goes. A deletion takes `listed`, what the plan's one record per capture names and no other store retains, from
the registry before it goes to the hosts. Deleting a tag removes the manifest, and with it every tag of
the digest in its repository (`_delete_distribution_tag`). The tag of a capsule stands for the image that one unit pushes there; a
commit to the model repository that names what is already gone may fail or not (`FailAny`). The
scope is chosen with the confirmation, as nothing depends on it before. `adrift` is the counterpart of `left` in the registry; `PruneAny` adds what a pruned publication leaves there. A publication
that fails half way stays under way; so does what it has pushed.

**RestoreStaging** is one restore: the artifact file is selected, read as a document,
looked up (each worker of a pool has its own outcome, in any order) as payloads, packs and
published repository, and read again by `prepare_capsules` and the controller. A
descriptor is a record of a capture and what it offers; the file may be replaced by another
or removed between any two readings, which is what a concurrent promotion or removal
of `ArtifactStore` does to it. `weights` is the request's policy while it is edited. A worker's payload is the
capture it was found for.

**CaptureOperation** is one `execute_explicit`. Its states are the places of the main
thread; the tasks of the staging pool (`copies`) and of the cleanup pool (`removals`) step
on their own, at most `PoolSize` copies at once. Each step of the `try` block may fail into the
`finally` clause; what a failing step may already have done (a push, an activation, a part of a
teardown) is a choice. `KeyboardInterrupt` arrives on the main thread anywhere, while the threads run on:
Python's executors wait for them. `exposed` records an interrupt that falls where
the code has no cleanup: while the copies are awaited (the clause is `except Exception`), between the
return of the staging and the `try`, or while the trees are removed. Whole components appear as
one step: staging of weights, the controller, promotion.

**ToolCache** is the directory of one version and platform, its binaries and `manifest.json`, shared
by invocations whose configurations pin a commit each (`wanted`). `_ensure_tool` is a walk through
`source`: what is cached, the release, the OCI bundle, the source build; each installer writes its
`payload` file by file (`_atomic_write` is one step: it renames), the manifest last, and verifies what lies there. `seen` is
what the manifest said, each hash is taken when the file is read, and what is executed
later (`ran`) is what lies there then. Release archives have no commit to be
checked before they are installed, an OCI bundle has its own word for it, a build is of the commit it cloned; so the first two deliver any
bundle. `claimed` is history: the manifests written from them whose commit is not the controller's. The error of a
download is not one that `_ensure_tool` falls back from. `tampered` is history: another
invocation changed what the cache holds (writing the same bytes again is no change) since this one began to verify or to write.
The invocations outside `native` want the binaries for a target and do not run the controller.

**Builder** is `prepare_image` of several invocations on one build host. What a plan's fingerprint covers
is the plan; the output tag, the provider image and the directory with `nccl-selection.txt` are named by it and shared without a
lock, while each invocation clones and stages the sources in a directory of its own, whose path is what the
selection file holds. Each command of the script may fail, the script's time may be up, and Ctrl-C may come:
`FailScript` and the failing branches stand for all of them. An image is named by the invocation that built
it. `twins`, `stranded` and `littered` are history: whose script ran beside another one of its plan, whose removal on the build host
failed, was interrupted or never began, and whose own temporary directory was not wholly removed. What is looked for in a directory whose removal was
begun may be there or not (`Complete`).

`PROJECT.json` maps every definition to its lines.

## 4. What the runs check

| Run | Shows |
|---|---|
| `store` | `SerializedUntilUnlink`, `CurrentIsNewest`, `ImplementsLog`, `ImplementsStores`, `EveryOperationEnds` |
| `timing` | `ParentsFormForest`, `CompletedIsClosed`, `OpenedStreamKept`, `UsableMeansWhole`, `ReaderRunsOut`, `StopEndsReader` |
| `controller` | `AbandonedIsReported`, `HandlersRestored`, `NothingLeftOpen`, `ClosedAdmitsNobody`, `NobodyWaitsInVain`, `MainNeverTurnsBack`, `QueuedIsServed`, `CancellationEnds`, over the whole of `_invoke` |
| `overlay` | `SelectedIsBound`, `PairIsWhole`, `OnlyUnlinkFails` |
| `deletion` | `SharedKept`, `NoOrphan`, `PullableIsWhole`, `PublishedIsListed`, for deletions of any scope |
| `restore` | `StagedIsOneCapture`, `RecoveryIsClean` |
| `tool` | `RunsVerified`, `OneBundleVerified`, `InstallationStands` |
| `capture` | `TreesRemoved`, `RemovedAfterCopy`, `EvictedWhenPrepared`, `ActivatedIsPublished` |
| `builder` | `ReturnedIsValidated`, `StagingRemoved`, `OnlyTwinsCollide` |

The type invariants are proved (section 5), and so
is every other property of the passing runs but the four liveness properties.

Three runs end in a counterexample to something the repository says of itself:

| Run | The code | The claim |
|---|---|---|
| `store_removal_race` | `remove_artifact_store` unlinks `.lock` after it has released it; a waiter on the old inode and the creator of a new one both promote | "Promotion is serialized per recipe fingerprint" (`artifacts.py:120`) |
| `controller_provider` | a signal before the `try`, or before both repeat handlers are in place, or a controller that outlasts SIGKILL | "Keep the manager provider alive until an interrupted controller has exited" (`controller_process.py:6`) |
| `overlay_unavailable` | only `RuntimeError` falls back; an unlink between `exists()` and a read raises something else, and the artifact is read again after its selection | "A stale/corrupt entry must never make the portable artifact unavailable" (`service.py:315-317`) |

In each case the passing run states what does hold: `SerializedUntilUnlink`,
`AbandonedIsReported` and `OnlyUnlinkFails` are the same promises with the gap named. Other
properties name theirs as well:

- `OpenedStreamKept`: a file that is created, or a torn record that is completed, between a failed
  read and the test of `stop` gets no further look (`timing.py:381`), unlike the end of an opened file.
- `SharedKept`, `PullableIsWhole`: a descriptor promoted while a deletion walks the stores without their locks
  is not seen (`unbound`; `deletion.py:438`).
- `NoOrphan`, `PublishedIsListed`: `left` and `adrift` hold what the code leaves. Most of it
  knowingly: a deletion with scope `local` drops the descriptors of what stays published. But
  also what is named only by descriptors that gave way to another one of their capture
  (`deletion.py:384-387`, `420-427`): when one capture was published to two repositories from one recipe, the plan lists
  the payloads of one of them, and the store goes with both descriptors.
- `HandlersRestored`: a SIGINT between the replacement of a handler and the `try` that puts it back
  (`controller_process.py:35`; SIGINT's own in the `except` clause), or in the last restore.
- `RunsVerified`: "Every path verifies the release version, source commit, platform, and binary hashes before use"
  (`tool.py:17-18`) and "Every acquisition path verifies the configured release version and full Git commit"
  (`README.md:350-352`, and of target binaries 448) do not hold of the tools of a target:
  `install_controller_tool` writes the configured commit into the manifest, an OCI bundle's manifest is believed, and `_verify_cached` returns at
  `tool.py:366-374` without asking the controller. A release made from another commit is accepted for a target, and refused
  for the manager itself. Nor is anything promised once another invocation has changed the cache (`tampered`): each binary is hashed
  and executed later under the same path.
- `TreesRemoved`: an interrupt at certain places leaves trees behind (`exposed`).
- `NothingLeftOpen`: in the constructor only the runtime and the server have a clause: not the check of the capabilities
  before its `session.close()`, `mkdtemp`, what follows it (`host_provider.py:171`, `184-205`), `chmod` and the start of the thread,
  and not the clauses themselves; nothing closes the provider between its construction and its context, the reader's start included
  (`service.py:1139-1182`); `close()` sets
  `_closed` first and does not go on after an interrupt (`ProviderGaps`). The reader polls on if an exception comes
  between its start and the `try`, or before `event_stop.set()` (`ReaderGaps`).
- `NobodyWaitsInVain`, `QueuedIsServed`: a `close()` that is interrupted in `shutdown()` or right before
  `server_close()` leaves a queued connection without a loop and without a reset (`leftAt`).
- `ReturnedIsValidated`: the output tag is set before the validation, so another invocation may return an
  image that is not validated yet, or that was refused and stays in the cache (`builder.py:535`, `930`).
- `StagingRemoved`: a removal on the build host that fails is logged, and one that is interrupted, or a `mktemp` that is, leaves its directory;
  so does a removal of the own `TemporaryDirectory` that fails or is interrupted (`builder.py:832`), which is not tried again.

### Bounds

- `store`: three processes, three captures, `Keep = 1`, clock readings 1 and 2 in any
  order, stamps up to 5, one crash. Two promotions and a removal already show every
  lock pattern; `Keep = 1` makes every promotion prune, and two clock readings give equal,
  rising and falling clocks. Stamps cannot exceed 5 with three promotions from 2, so `Times`
  cuts nothing off. `StartInOrder` starts interchangeable processes in the order of their
  numbers. The race needs four processes and no crash.
- `timing`: two spans and one clock are enough for a parent cycle; `MaxEvents = 6` with seven records
  puts the limit inside the run; `Lead = 1` lets the file be one complete and one partial
  record ahead of the reader, which is all that separates its tests.
- `controller`: three signals reach every handler (a cancellation, one before the repeat handlers or a forced
  end, one in what follows) and any two places of the provider's life; with two requests one can wait in the backlog
  while the other is with a host for ever.
- `overlay`: three makers and one reader, two sources; a torn pair takes two makers, and the
  third replaces it under a reader.
- `deletion`: two stores; a capture of the first, a publication of it in the same recipe and of that one either a second to another repository
  or one of the other recipe, which differ in an image each and in where they go: sharing between stores and the merge of
  descriptors in one need no more; a second host that has left the cluster; two deletions
  that may overlap or repeat each other (`MaxDeletions = 2`), one if there are two publications of the first
  recipe (`OneDeletion`). Captures and publications run beside one deletion; the second begins when they have been committed (`TwoAfterCaptures`). `Keep = 2`, so that a third promotion prunes.
- `restore`: two workers, so that one can fail beside another, and five descriptors that differ in
  the capture, in what they offer and in whether a worker of the request is one of theirs. With
  `MaxReplaced = 3` there can be a different descriptor at each of the readings.
- `capture`: three units and `PoolSize = 2`, so that a task waits while others run and fail;
  the code's own limit is 32 threads. Two interrupts, the second in what follows the first.
- `builder`: three invocations, so that two of a plan can collide while a third finds the tag, and
  two plans, so that one may also work beside them undisturbed.
- `tool`: two invocations, of one commit or of two, and two binaries per bundle, so that files and
  manifest can be mixed; three bundles, two of one commit with different controllers, and
  two of different commits that share an adapter. One crash leaves every torn cache;
  what follows it needs one invocation, and a later one only finds what it left. At least one invocation is of the
  commit that has two bundles (`OneWantsC`): two of the other are a smaller case of the same. A crash happens to
  a process that has begun to write (`CrashWhileInstalling`); elsewhere it leaves what a process leaves that takes no more
  steps. Each executes one of its binaries (`OneBinaryRuns`), as the property compares them one by one.

Symmetry is used only in runs without liveness. Deadlock is not checked: every actor runs one
operation and ends, so each system stops. That nobody waits for ever is what the liveness properties say.

### Fairness

`ArtifactStore` assumes weak fairness of each process once it has started (`Run`): an
operating system runs a runnable process; no fairness of `Start` or `Crash`. A waiter on
`flock` needs no more, as every process runs one operation and lock holders are finite.
`TimingStream` assumes it of the reader thread and of the main thread's join, never of
the controller. `HostedController` assumes it of the main thread, of the server's loop, of the reader
once it is told to end, and of each handler's own steps (dispatch, answer); not of work on a host
(`HostReturns`), of the controller or of signals. The main thread's fairness takes for granted that closing the session and the
steps of the constructor return. `LocalOverlay`,
`Deletion`, `RestoreStaging`, `CaptureOperation`, `ToolCache` and `Builder` have no liveness claims: their steps
wait for users, hosts and external programs.

## 5. What is proved

The `*Proofs` modules prove, for every value of the constants that satisfies the named
assumptions, that each specification implies `[]` of its type invariant and of every safety
invariant its passing run checks, the action properties, and both refinements. No liveness or other
assumption is used.

- **ArtifactStoreProofs.** `LockInv` gives mutual exclusion: as long as `.lock` was not
  unlinked every open inode is the one it names, and two holders of one inode cannot be.
  For `CurrentIsNewest` that is not inductive, because a promoter is between rename and
  activation, or has planned victims it has not removed: `CaptureInv` says which capture each
  process has in hand, `OrderInv` that stamps above all others are given under the
  lock and that victims are older than what is current.
  `StoreImplementsLog` needs in addition that whatever is still to be pruned is outlived by `Keep` newer
  generations, although victims were chosen some steps ago (`PruneInv`). The order of age is linear
  (`ByAgeIsLinear`) as names are unique, and each file operation is a step of the log or none
  (`RenameRetains`, `StampPromotes`, `UnlinkTrims`, `ClearEmpties`).
  `StoreImplementsDescriptors` may not assume the lock: `PlaceInv` says that a descriptor is
  in one directory at most and has a process it came from, and that `.lock` goes only after the store was cleared;
  `PruningHasSurplus` that a victim goes only while more than `Keep` are there, unless a removal has cleared the store.
  Last, the half of `EveryOperationEnds` that is safety: who waits for the lock waits for a process inside it
  (`WaiterHasHolder`), and no step sets an operation back, its own or another's (`OperationsAdvance`).
- **TimingStreamProofs.** `EventsInv` adds to the forest that parents are known when
  they are named (so a new span cannot close a cycle) and that the progress entries are open
  spans. `FlowInv` counts: what was accepted, what is in hand and what is unread make what
  was written; and relates `stop`, `drained` and the position of the reader. `ReaderRunsOut`: once
  told to stop, the reader goes on only by an event that counts against the limit of `accept`, so a controller
  that writes on cannot keep it for ever.
- **ControllerProcessProofs.** `HandlerInv` says what is installed at each point,
  `ReportInv` what the failure says by then. For the invocation around it `HostedInv` adds
  what is open at each place of the provider's life (`ProviderOpen`, `ProviderClosing`) and what the reader
  may be doing there (`ReaderInv`); a step of `HostedNext` is a step of `run_controller`, or a signal outside of it, or leaves its
  variables, which carries the first results over (`HostedRunSafe`). `WaitInv` says where loop and
  connections may be at each place of `close()`, for `NobodyWaitsInVain`: the join, `shutdown()`,
  `accept()` and the backlog each wait for a thread that can come. `MainNeverTurnsBack` gives a number to
  each place, within `run_controller` and around it, that every statement, failure and signal lowers
  (`RunForward`, `MainForward`).
- **LocalOverlayProofs.** A digest is its maker, and a maker that has written keeps its source:
  `BindInv` ties every artifact and record, on disk or read by a process, to it.
  `PresentInv` says a file that was seen is there until an unlink.
- **DeletionProofs.** `DeletionKeepsToStores`: the stores change by the steps of
  `DescriptorStores` only, the ones `ArtifactStore` is proved to implement. For `SharedKept`: what is committed outside of the target, and does not move, is
  retained or in a directory still unread (`ScanInv`); images under deletion are in the plan
  (`ImageInv`). For `NoOrphan`, which is far from inductive: every digest on a host that is
  not in `left` has a descriptor that no deletion already *through with that digest*
  will drop (`AccountInv`); a digest that was put back after a deletion passed by is accounted
  for by the newer capture. `ScopesImplementLocal` shows that a deletion with any scope, with publications beside it, is a
  `Deletion` step by step, so that both hold of it (`ScopesKeepShared`). `PullableIsWhole` rests on `WholeInv`: what a
  running deletion has yet to take from the registry (`ListInv`) is not what a recipe with its descriptor in place names.
  `PublishedIsListed` rests on `NameInv`: every published digest has a publication whose descriptor no
  deletion that is *through with that digest in the registry* will drop (`Cleared`, `Names`).
- **RestoreStagingProofs.** `PoolInv` says that in a pool every recorded payload is of the
  descriptor this pool read; a pool that succeeds has one for each worker, and `ProviderInv`
  carries that to the request. `PolicyInv` gives the policies at each place of the fallback, with the published source it pops, and
  `ActivationInv` that they are those of the activation.
- **CaptureOperationProofs.** `CopyInv` says where tasks may be outstanding:
  none once the staging has ended by itself, whereas an interrupted one may leave some, always
  with `exposed`. `TreeInv` ties a tree to the state of its task, and a tree that is still there outside the
  `try` to a removal that is queued or failed (`RemovalInv`). `OrderInv` and `ResultInv` list
  what has been done at each place. The argument uses finitely many units nowhere but
  in the assumption; the pool's size does not matter.
- **HostCacheProofs** (`ToolCache` and `Builder`). What an undisturbed invocation has checked is still there (`VerifyInv`), what
  an undisturbed installation has written is its payload (`InstallInv`); both survive the steps of
  others because every step that changes a file or the manifest marks the others as disturbed
  (`Undisturbed`). `ManifestInv` says a manifest's hashes are those of one bundle, torn cache or not; `ClaimInv` that
  the commit it names is the controller's unless it was written from a release or a bundle, and that who reads it has no other word.
  For builds, `StagingInv` says whose directories stand at each step, `TagInv` that an image under a
  tag is validated or its builder is past the tagging, and `ChoiceInv` that what the selection file names, while a
  script without a twin reads it, is its own release directory, which stands.

Only model-checked: the four liveness properties, because the prover has no fairness and no `ENABLED`. Their safety
halves are proved: who waits waits for somebody who can come (`WaiterHasHolder`, `NobodyWaitsInVain`), and
steps lead forward only (`OperationsAdvance`, `ReaderRunsOut`, `MainNeverTurnsBack`). What is left to TLC is
that a step that can be taken is taken:

| Property | Left to TLC |
|---|---|
| `EveryOperationEnds` | the scheduling of processes, and that finitely many are started |
| `StopEndsReader` | the scheduling of the reader and of the join |
| `QueuedIsServed` | the scheduling of the loop and of the main thread |
| `CancellationEnds` | the scheduling of the main thread, and that its waits have timeouts |

The two refinements fix no fairness: `GenerationLog` and `DescriptorStores` promise what no step does, not
that one is taken.

## 6. What is not modelled

The conversation of one request with a registry (credentials, bearer challenge); the lifecycle operations,
one query and one call on a table that belongs to sparkrun; policy, compatibility and request
construction, pure functions without state; the target environment (reads of hosts and of one bundle); the NCCL
selection, a sort over a directory of releases; and
reporting. `PROJECT.json` lists each with its reason. What a host request asks for, what a Dockerfile does and
how a name is built from a record is data. The error of a
download by urllib is none that `_ensure_tool` falls back from (`tool.py:641`): the model has that outcome, and no
property says what should hold, as no document does. Nothing compares the document a restore read first with the
artifact the controller reads when it prepares the capsules (`service.py:456`); which capsules it launches is its own. A deletion that stops half way leaves descriptors that name what is gone;
`SharedKept` and `NoOrphan` say what it may not do to others and what it may not hide. File systems are taken to be local
and POSIX: rename is atomic, an unlinked inode stays open, and `fsync` is not modelled, so
a crash is the death of a process, not of the machine. A manager that is killed with
SIGKILL leaves the private trees of a capture; nothing in the code looks for them later, and
`CaptureOperation` has no such step. It also leaves out the empty `units` directory that
remains under each operation's staging root, because the cleanup removes its parent only when empty
(`runtime_cache.py:252`).
