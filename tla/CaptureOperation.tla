--------------------------- MODULE CaptureOperation ---------------------------
(***************************************************************************)
(* One operation of the command line: ColdSnapService.execute_explicit.     *)
(* A capture copies the runtime cache of every launch unit to a private    *)
(* tree on the unit's host (runtime_cache.py), in a pool of threads, stops *)
(* the running workload, runs the controller and promotes its descriptor.  *)
(* An operation that fails, or that Ctrl-C interrupts on the main thread,  *)
(* has to take the trees away; the threads of a pool that was given a task *)
(* always run it to its end.                                               *)
(***************************************************************************)
EXTENDS FiniteSets, Naturals

CONSTANTS
    Units,          \* the launch units of the request
    PoolSize,       \* the threads of a pool
    MaxInterrupts   \* bound on the interrupts

ASSUME CaptureAssumption ==
    Units # {} /\ IsFiniteSet(Units) /\ PoolSize \in Nat \ {0}

VARIABLES
    kind,       \* the operation
    seeded,     \* the recipe seeds the runtime cache, and it is enabled
    managed,    \* the output goes to the artifact store
    pc,
    fate,       \* how the operation is to end: the exception in flight
    copies,     \* per unit: its task in the staging pool
    removals,   \* per unit: its task in the cleanup pool
    tree,       \* per unit: its private tree on the host
    kept,       \* the units whose removal failed, and was logged
    images,     \* the images are on all hosts
    weights,    \* the weights are staged, or recovery is selected
    evicted,    \* (some of) the running workload was stopped
    made,       \* the controller has succeeded
    backed,     \* its capsules are in a registry, and the recipe names one
    tag,        \* the registry has the descriptor
    promoted,   \* the store has it as its current one
    interrupts, \* so far, up to MaxInterrupts
    exposed     \* history: an interrupt where nothing removes the trees

cache == <<copies, removals, tree, kept>>
prepared == <<images, weights, evicted>>
results == <<made, backed, tag, promoted>>
history == <<interrupts, exposed>>
request == <<kind, seeded, managed>>
vars == <<request, pc, fate, cache, prepared, results, history>>

Publications == {"publish", "publish-native"}
Try == {"artifact", "weights", "evict", "controller", "publish", "promote"}
AllUnits(state) == [u \in Units |-> state]

TypeOK ==
    /\ kind \in {"capture", "restore"} \cup Publications
    /\ seeded \in BOOLEAN /\ managed \in BOOLEAN
    /\ pc \in {"images", "cache", "copying", "copied", "sweep", "unwind", "cleanup",
               "ended"} \cup Try
    /\ fate \in {"ok", "error", "interrupt"}
    /\ copies \in [Units -> {"idle", "queued", "running", "copied", "failed"}]
    /\ removals \in [Units -> {"idle", "queued", "done"}]
    /\ tree \in [Units -> {"absent", "partial", "full"}]
    /\ kept \subseteq {u \in Units : removals[u] = "done"}
    /\ images \in BOOLEAN /\ weights \in BOOLEAN /\ evicted \in BOOLEAN
    /\ made \in BOOLEAN /\ backed \in BOOLEAN /\ tag \in BOOLEAN /\ promoted \in BOOLEAN
    /\ interrupts \in Nat /\ exposed \in BOOLEAN
    /\ \A u \in Units : copies[u] \in {"idle", "queued"} => tree[u] = "absent"

Init ==
    /\ kind \in {"capture", "restore"} \cup Publications
    /\ seeded \in BOOLEAN /\ managed \in BOOLEAN
    /\ pc = (IF kind = "capture" THEN "images" ELSE "artifact")
    /\ fate = "ok"
    /\ copies = AllUnits("idle") /\ removals = AllUnits("idle")
    /\ tree = AllUnits("absent") /\ kept = {}
    /\ images = FALSE /\ weights = FALSE /\ evicted = FALSE
    /\ made = FALSE /\ backed = FALSE /\ tag = FALSE /\ promoted = FALSE
    /\ interrupts = 0 /\ exposed = FALSE
-----------------------------------------------------------------------------
\* The units the cleanup knows: those the staging returned.
Entries == {u \in Units : copies[u] = "copied"}

\* The cleanup of these units, after which the operation ends like this.
Clean(place, units, end) ==
    /\ pc' = place
    /\ fate' = end
    /\ removals' = [u \in Units |-> IF u \in units THEN "queued" ELSE "idle"]
    /\ UNCHANGED <<copies, tree, kept>>

\* The try block is left: its finally clause.
Leave(end) == Clean("cleanup", Entries, end)

\* Before the try block an exception ends the operation.
Abort(end) == pc' = "ended" /\ fate' = end /\ UNCHANGED cache

Go(place) == pc' = place /\ UNCHANGED <<fate, cache>>

PrepareImages ==
    /\ pc = "images"
    /\ \/ Abort("error") /\ UNCHANGED images
       \/ Go("cache") /\ images' = TRUE
    /\ UNCHANGED <<request, weights, evicted, results, history>>
-----------------------------------------------------------------------------
(* stage_capture_runtime_cache *)

\* What may fail while the copies are planned has not touched a host.
StageCache ==
    /\ pc = "cache"
    /\ \/ ~seeded /\ Go("copied")
       \/ seeded /\ Abort("error")
       \/ /\ seeded /\ pc' = "copying"
          /\ copies' = AllUnits("queued")
          /\ UNCHANGED <<fate, removals, tree, kept>>
    /\ UNCHANGED <<request, prepared, results, history>>

\* A thread takes the next task; it may not be able to create the directory.
BeginCopy(u) ==
    /\ copies[u] = "queued"
    /\ Cardinality({v \in Units : copies[v] = "running"}) < PoolSize
    /\ \/ copies' = [copies EXCEPT ![u] = "failed"] /\ UNCHANGED tree
       \/ /\ copies' = [copies EXCEPT ![u] = "running"]
          /\ tree' = [tree EXCEPT ![u] = "partial"]
    /\ UNCHANGED <<request, pc, fate, removals, kept, prepared, results, history>>

EndCopy(u) ==
    /\ copies[u] = "running"
    /\ \/ copies' = [copies EXCEPT ![u] = "failed"] /\ UNCHANGED tree
       \/ /\ copies' = [copies EXCEPT ![u] = "copied"]
          /\ tree' = [tree EXCEPT ![u] = "full"]
    /\ UNCHANGED <<request, pc, fate, removals, kept, prepared, results, history>>

Copied == \A u \in Units : copies[u] \notin {"queued", "running"}

\* Mutant: the results of the futures are not asked for.
EndCopiesUnasked ==
    /\ pc = "copying" /\ Copied
    /\ Go("copied")
    /\ UNCHANGED <<request, prepared, results, history>>

\* Mutant: only the copies that were finished are removed.
EndCopiesFinishedOnly ==
    /\ pc = "copying" /\ Copied
    /\ \/ (\E u \in Units : copies[u] = "failed") /\ Clean("sweep", Entries, "error")
       \/ (\A u \in Units : copies[u] = "copied") /\ Go("copied")
    /\ UNCHANGED <<request, prepared, results, history>>

\* Mutant: the first failure is not held up by the other tasks.
EndCopiesAtOnce ==
    /\ pc = "copying"
    /\ \/ (\E u \in Units : copies[u] = "failed") /\ Clean("sweep", Units, "error")
       \/ (\A u \in Units : copies[u] = "copied") /\ Go("copied")
    /\ UNCHANGED <<request, prepared, results, history>>

\* After the first failure too the executor waits for all of its tasks; then
\* the trees of all units are removed.
EndCopies ==
    /\ pc = "copying" /\ Copied
    /\ \/ (\E u \in Units : copies[u] = "failed") /\ Clean("sweep", Units, "error")
       \/ (\A u \in Units : copies[u] = "copied") /\ Go("copied")
    /\ UNCHANGED <<request, prepared, results, history>>

EnterTry ==
    /\ pc = "copied" /\ Go("weights")
    /\ UNCHANGED <<request, prepared, results, history>>
-----------------------------------------------------------------------------
(* cleanup_capture_runtime_cache *)

\* rm -rf, again after a change of ownership; what stays is logged.
RemoveTree(u) ==
    /\ removals[u] = "queued"
    /\ removals' = [removals EXCEPT ![u] = "done"]
    /\ \/ tree' = [tree EXCEPT ![u] = "absent"] /\ UNCHANGED kept
       \/ /\ kept' = kept \cup {u}
          /\ tree' \in {tree, [tree EXCEPT ![u] = IF @ = "full" THEN "partial" ELSE @]}
    /\ UNCHANGED <<request, pc, fate, copies, prepared, results, history>>

\* The operation ends when all threads of the cleanup have.
EndCleanup ==
    /\ pc \in {"sweep", "cleanup"} /\ \A u \in Units : removals[u] # "queued"
    /\ pc' = "ended"
    /\ UNCHANGED <<request, fate, cache, prepared, results, history>>
-----------------------------------------------------------------------------
(* The try block of execute_explicit *)

\* The artifact a publication or a restore is about must be a file.
ResolveArtifact ==
    /\ pc = "artifact"
    /\ \/ Leave("error")
       \/ kind = "restore" /\ Go("weights")
       \/ kind \in Publications /\ Go("controller")
    /\ UNCHANGED <<request, prepared, results, history>>

StageWeights ==
    /\ pc = "weights"
    /\ \/ Leave("error") /\ UNCHANGED weights
       \/ Go(IF kind = "capture" THEN "evict" ELSE "controller") /\ weights' = TRUE
    /\ UNCHANGED <<request, images, evicted, results, history>>

\* replace_capture_workload: strict, so a teardown that is not complete fails.
Evict ==
    /\ pc = "evict"
    /\ \/ Leave("error") /\ evicted' \in BOOLEAN
       \/ Go("controller") /\ evicted' = TRUE
    /\ UNCHANGED <<request, images, weights, results, history>>

\* Mutant: the descriptor is promoted before it is published.
InvokePromotingFirst ==
    /\ pc = "controller"
    /\ \/ Leave("error") /\ UNCHANGED <<made, backed, promoted>>
       \/ /\ Go(IF kind \in Publications THEN "publish" ELSE "promote")
          /\ made' = TRUE /\ backed' \in BOOLEAN
          /\ promoted' = (managed /\ kind \in Publications)
    /\ UNCHANGED <<request, prepared, tag, history>>

\* _invoke: the descriptor is in the pending directory.
Invoke ==
    /\ pc = "controller"
    /\ \/ Leave("error") /\ UNCHANGED <<made, backed>>
       \/ /\ Go(IF kind \in Publications THEN "publish" ELSE "promote")
          /\ made' = TRUE /\ backed' \in BOOLEAN
    /\ UNCHANGED <<request, prepared, tag, promoted, history>>

\* A publication pushes the descriptor to the registry, one of native payloads
\* only if the capsules are there.  A push that fails may have been done.
Publish ==
    /\ pc = "publish"
    /\ \/ Leave("error") /\ tag' \in BOOLEAN
       \/ Go("promote") /\ tag' = (kind = "publish" \/ backed)
    /\ UNCHANGED <<request, prepared, made, backed, promoted, history>>

\* promote_generation may refuse, and may fail after it has activated.
Promote ==
    /\ pc = "promote"
    /\ \/ managed /\ kind # "restore" /\ Leave("error") /\ promoted' \in BOOLEAN
       \/ managed /\ kind # "restore" /\ Leave("ok") /\ promoted' = TRUE
       \/ (~managed \/ kind = "restore") /\ Leave("ok") /\ UNCHANGED promoted
    /\ UNCHANGED <<request, prepared, made, backed, tag, history>>
-----------------------------------------------------------------------------
(* KeyboardInterrupt on the main thread *)

Interrupted == interrupts < MaxInterrupts /\ interrupts' = interrupts + 1

InterruptPreparation ==
    /\ Interrupted /\ pc \in {"images", "cache"} /\ Abort("interrupt")
    /\ UNCHANGED <<request, prepared, results, exposed>>

\* Some tasks have been submitted.  The executor waits, but the except clause
\* is for Exception.
InterruptStaging ==
    /\ Interrupted
    /\ \/ /\ pc = "cache" /\ seeded
          /\ copies' \in [Units -> {"idle", "queued"}]
       \/ pc = "copying" /\ UNCHANGED copies
    /\ pc' = "unwind" /\ fate' = "interrupt"
    /\ exposed' = TRUE
    /\ UNCHANGED <<request, removals, tree, kept, prepared, results>>

\* Between the return of the staging and the try statement.
InterruptGap ==
    /\ Interrupted /\ pc = "copied" /\ Abort("interrupt")
    /\ exposed' = TRUE
    /\ UNCHANGED <<request, prepared, results>>

\* The executor has waited, or does not because of another interrupt; then the
\* interpreter waits for the threads when it exits.
Unwind ==
    /\ pc = "unwind" /\ pc' = "ended"
    /\ \/ Copied /\ UNCHANGED interrupts
       \/ Interrupted
    /\ UNCHANGED <<request, fate, cache, prepared, results, exposed>>

\* Inside the try block the finally clause removes the trees.  The step that is
\* interrupted may have done a part.
InterruptTry ==
    /\ Interrupted /\ pc \in Try /\ Leave("interrupt")
    /\ evicted' \in {evicted, pc = "evict" \/ evicted}
    /\ tag' \in {tag, pc = "publish" \/ tag}
    /\ promoted' \in {promoted, (pc = "promote" /\ managed /\ kind # "restore") \/ promoted}
    /\ UNCHANGED <<request, images, weights, made, backed, exposed>>

\* Removals that were not yet submitted are never done.
InterruptCleanup ==
    /\ Interrupted /\ pc \in {"sweep", "cleanup"}
    /\ \E lost \in SUBSET {u \in Units : removals[u] = "queued"} :
          removals' = [u \in Units |-> IF u \in lost THEN "idle" ELSE removals[u]]
    /\ fate' = "interrupt"
    /\ exposed' = TRUE
    /\ UNCHANGED <<request, pc, copies, tree, kept, prepared, results>>

Interrupt ==
    \/ InterruptPreparation \/ InterruptStaging \/ InterruptGap
    \/ InterruptTry \/ InterruptCleanup

Next ==
    \/ PrepareImages \/ StageCache \/ EndCopies \/ EnterTry
    \/ (\E u \in Units : BeginCopy(u) \/ EndCopy(u) \/ RemoveTree(u))
    \/ EndCleanup \/ ResolveArtifact \/ StageWeights \/ Evict \/ Invoke \/ Publish
    \/ Promote \/ Interrupt \/ Unwind

Spec == Init /\ [][Next]_vars
-----------------------------------------------------------------------------
\* However an operation ends, no unit's private tree stays on its host but
\* where the removal failed and was logged - unless it was interrupted while
\* the trees were made, before the try statement, or while they were removed.
TreesRemoved ==
    pc = "ended" /\ ~exposed =>
        \A u \in Units : tree[u] = "absent" \/ u \in kept

\* No private tree is removed while the thread that copies into it is running,
\* or has still to start: the copy would make it again.
RemovedAfterCopy ==
    \A u \in Units : removals[u] # "idle" => copies[u] \notin {"queued", "running"}

\* "Image/model/cache preparation is intentionally complete by this point": when
\* the running workload is stopped, and while the controller captures, all that
\* a capture needs is there.
EvictedWhenPrepared ==
    evicted /\ pc \in Try =>
        /\ kind = "capture" /\ images /\ weights
        /\ seeded => \A u \in Units : tree[u] = "full"

\* What a publication activates in the store is in the registry, and nothing
\* that the controller did not complete is activated at all.
ActivatedIsPublished ==
    promoted =>
        /\ made
        /\ kind = "publish" \/ (kind = "publish-native" /\ backed) => tag
=============================================================================
