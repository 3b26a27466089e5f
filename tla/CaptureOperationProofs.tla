------------------------ MODULE CaptureOperationProofs ------------------------
(***************************************************************************)
(* Proofs about CaptureOperation, for any units, pools and interrupts.      *)
(***************************************************************************)
EXTENDS CaptureOperation, TLAPS

\* The places where every task of the staging pool has ended.
Settled == Try \cup {"images", "cache", "copied", "sweep", "cleanup"}

\* The copies are those of a capture that seeds its cache, and done when the
\* staging has returned.
CopyInv ==
    /\ kind # "capture" \/ ~seeded \/ pc \in {"images", "cache"} =>
          \A u \in Units : copies[u] = "idle"
    /\ kind = "capture" /\ seeded /\ pc \in Try \cup {"copied", "cleanup"} =>
          \A u \in Units : copies[u] = "copied"
    /\ pc = "copying" => seeded
    /\ pc \in Settled \/ (pc = "ended" /\ ~exposed) =>
          \A u \in Units : copies[u] \notin {"queued", "running"}

\* What a removal has left, and that a tree without one is as it was copied.
TreeInv ==
    \A u \in Units :
        /\ removals[u] # "done" /\ copies[u] = "copied" => tree[u] = "full"
        /\ removals[u] = "done" => tree[u] = "absent" \/ u \in kept

\* The removals of an operation without an interrupt are those of all trees.
RemovalInv ==
    /\ pc \notin {"sweep", "cleanup", "ended"} => \A u \in Units : removals[u] = "idle"
    /\ pc \in {"sweep", "cleanup", "ended"} /\ ~exposed =>
          \A u \in Units : removals[u] = "idle" => tree[u] = "absent"
    /\ pc = "ended" => \A u \in Units : removals[u] # "queued"
    /\ pc = "unwind" => exposed

\* The order of the steps of each kind of operation.
OrderInv ==
    /\ kind # "capture" => pc \in {"artifact", "weights", "controller", "publish",
                                   "promote", "cleanup", "ended"}
    /\ kind = "capture" => pc \notin {"artifact", "publish"}
    /\ kind = "capture" /\ pc \in Try \cup {"cache", "copying", "copied"} => images
    /\ kind = "capture" /\ pc \in {"evict", "controller", "promote"} => weights
    /\ evicted => kind = "capture" /\ pc \in {"controller", "promote", "cleanup", "ended"}

\* A promotion comes last, after the controller and the publication.
ResultInv ==
    /\ pc \in {"publish", "promote"} => made
    /\ pc = "promote" /\ (kind = "publish" \/ (kind = "publish-native" /\ backed)) => tag
    /\ promoted => pc \in {"cleanup", "ended"}
    /\ ActivatedIsPublished

IInv ==
    TypeOK /\ CopyInv /\ TreeInv /\ RemovalInv /\ RemovedAfterCopy /\ OrderInv /\ ResultInv
-----------------------------------------------------------------------------
LEMMA InitInv == Init => IInv
<1> SUFFICES ASSUME Init PROVE IInv
  OBVIOUS
<1> USE DEF Init
<1>1. TypeOK
  BY DEF TypeOK, AllUnits, Publications, Try
<1>2. CopyInv /\ TreeInv /\ RemovalInv /\ RemovedAfterCopy
  BY DEF CopyInv, TreeInv, RemovalInv, RemovedAfterCopy, AllUnits, Try, Publications
<1>3. OrderInv /\ ResultInv
  BY DEF OrderInv, ResultInv, ActivatedIsPublished, Try, Publications
<1>4. QED
  BY <1>1, <1>2, <1>3 DEF IInv

\* A step that leaves the trees and the tasks alone keeps their types.
LEMMA SameCache ==
  ASSUME TypeOK, UNCHANGED cache
  PROVE  /\ copies' \in [Units -> {"idle", "queued", "running", "copied", "failed"}]
         /\ removals' \in [Units -> {"idle", "queued", "done"}]
         /\ tree' \in [Units -> {"absent", "partial", "full"}]
         /\ kept' \subseteq {u \in Units : removals'[u] = "done"}
         /\ \A u \in Units : copies'[u] \in {"idle", "queued"} => tree'[u] = "absent"
  BY DEF TypeOK, cache

\* A cleanup begins when no removal was asked for before.
LEMMA CleanType ==
  ASSUME TypeOK, RemovalInv, pc \notin {"sweep", "cleanup", "ended"},
         NEW place \in {"sweep", "cleanup"}, NEW units \in SUBSET Units,
         NEW end \in {"ok", "error", "interrupt"}, Clean(place, units, end)
  PROVE  /\ pc' = place /\ fate' \in {"ok", "error", "interrupt"}
         /\ copies' \in [Units -> {"idle", "queued", "running", "copied", "failed"}]
         /\ removals' \in [Units -> {"idle", "queued", "done"}]
         /\ tree' \in [Units -> {"absent", "partial", "full"}]
         /\ kept' \subseteq {u \in Units : removals'[u] = "done"}
         /\ \A u \in Units : copies'[u] \in {"idle", "queued"} => tree'[u] = "absent"
<1>1. kept = {}
  BY DEF TypeOK, RemovalInv
<1>2. QED
  BY <1>1 DEF TypeOK, Clean

\* Leaving the try block asks for the removal of every tree there is.
LEMMA LeaveStep ==
  ASSUME IInv, pc \in Try, NEW end \in {"ok", "error", "interrupt"}, Leave(end),
         UNCHANGED <<request, exposed>>
  PROVE  CopyInv' /\ TreeInv' /\ RemovalInv' /\ RemovedAfterCopy'
<1> USE DEF IInv
<1>1. /\ pc' = "cleanup" /\ UNCHANGED <<copies, tree, kept>>
      /\ \A u \in Units : removals'[u] = IF copies[u] = "copied" THEN "queued" ELSE "idle"
  BY DEF Leave, Clean, Entries
<1>2. /\ kind # "capture" \/ ~seeded => \A u \in Units : copies[u] = "idle"
      /\ kind = "capture" /\ seeded => \A u \in Units : copies[u] = "copied"
  BY DEF CopyInv
<1>3. \A u \in Units : copies[u] \in {"idle", "copied"}
  BY <1>2 DEF TypeOK
<1>4. CopyInv'
  BY <1>1, <1>2, <1>3 DEF CopyInv, Settled, Try, request
<1>5. TreeInv'
  BY <1>1, <1>3 DEF TreeInv, RemovalInv, Try, TypeOK
<1>6. RemovalInv'
  BY <1>1, <1>3 DEF RemovalInv, TypeOK
<1>7. RemovedAfterCopy'
  BY <1>1, <1>3 DEF RemovedAfterCopy
<1>8. QED
  BY <1>4, <1>5, <1>6, <1>7

\* A step on to another place with all copies settled.
LEMMA GoStep ==
  ASSUME IInv, NEW place \in Try, Go(place), UNCHANGED <<request, exposed>>,
         pc \in Try \cup {"copied"}
  PROVE  CopyInv' /\ TreeInv' /\ RemovalInv' /\ RemovedAfterCopy'
<1> USE DEF IInv, Go, cache, request
<1>1. CopyInv'
  BY DEF CopyInv, Settled, Try
<1>2. TreeInv' /\ RemovedAfterCopy'
  BY DEF TreeInv, RemovedAfterCopy
<1>3. RemovalInv'
  BY DEF RemovalInv, Try
<1>4. QED
  BY <1>1, <1>2, <1>3

CacheInv == CopyInv /\ TreeInv /\ RemovalInv /\ RemovedAfterCopy

TryStep ==
    \/ EnterTry \/ ResolveArtifact \/ StageWeights \/ Evict \/ Invoke \/ Publish
    \/ Promote \/ InterruptTry

\* The steps from the try statement on go to another place of the try block or
\* leave it; they do not touch the trees.
LEMMA TryPlaces ==
  ASSUME TypeOK, TryStep
  PROVE  /\ UNCHANGED <<request, exposed>>
         /\ \/ /\ pc \in Try
               /\ \E end \in {"ok", "error", "interrupt"} : Leave(end)
            \/ /\ pc \in Try \cup {"copied"}
               /\ \E place \in Try : Go(place)
<1>1. CASE EnterTry
  BY <1>1 DEF EnterTry, history, Try
<1>2. CASE ResolveArtifact
  BY <1>2 DEF ResolveArtifact, history, Try
<1>3. CASE StageWeights
  BY <1>3 DEF StageWeights, history, Try
<1>4. CASE Evict
  BY <1>4 DEF Evict, history, Try
<1>5. CASE Invoke
  BY <1>5 DEF Invoke, history, Try
<1>6. CASE Publish
  BY <1>6 DEF Publish, history, Try
<1>7. CASE Promote
  BY <1>7 DEF Promote, history, Try
<1>8. CASE InterruptTry
  BY <1>8 DEF InterruptTry, Try
<1>9. QED
  BY <1>1, <1>2, <1>3, <1>4, <1>5, <1>6, <1>7, <1>8 DEF TryStep

LEMMA TryCache == ASSUME IInv, TryStep PROVE CacheInv'
<1>1. TypeOK
  BY DEF IInv
<1>2. CASE pc \in Try /\ \E end \in {"ok", "error", "interrupt"} : Leave(end)
  BY <1>1, <1>2, TryPlaces, LeaveStep DEF CacheInv
<1>3. CASE pc \in Try \cup {"copied"} /\ \E place \in Try : Go(place)
  BY <1>1, <1>3, TryPlaces, GoStep DEF CacheInv
<1>4. QED
  BY <1>1, <1>2, <1>3, TryPlaces

LEMMA TryType == ASSUME IInv, TryStep PROVE TypeOK'
<1> USE DEF IInv
<1>1. /\ pc' \in Try \cup {"cleanup"} /\ fate' \in {"ok", "error", "interrupt"}
      /\ copies' \in [Units -> {"idle", "queued", "running", "copied", "failed"}]
      /\ removals' \in [Units -> {"idle", "queued", "done"}]
      /\ tree' \in [Units -> {"absent", "partial", "full"}]
      /\ kept' \subseteq {u \in Units : removals'[u] = "done"}
      /\ \A u \in Units : copies'[u] \in {"idle", "queued"} => tree'[u] = "absent"
  <2>1. CASE pc \in Try /\ \E end \in {"ok", "error", "interrupt"} : Leave(end)
    <3>1. Entries \in SUBSET Units /\ pc \notin {"sweep", "cleanup", "ended"}
      BY <2>1 DEF Entries, Try
    <3>2. PICK end \in {"ok", "error", "interrupt"} : Clean("cleanup", Entries, end)
      BY <2>1 DEF Leave
    <3>3. QED
      BY <3>1, <3>2, CleanType
  <2>2. CASE pc \in Try \cup {"copied"} /\ \E place \in Try : Go(place)
    <3>1. UNCHANGED cache /\ pc' \in Try /\ UNCHANGED fate
      BY <2>2 DEF Go
    <3>2. QED
      BY <3>1, SameCache DEF TypeOK
  <2>3. QED
    BY <2>1, <2>2, TryPlaces
<1>2. /\ images' \in BOOLEAN /\ weights' \in BOOLEAN /\ evicted' \in BOOLEAN
      /\ made' \in BOOLEAN /\ backed' \in BOOLEAN /\ tag' \in BOOLEAN
      /\ promoted' \in BOOLEAN /\ interrupts' \in Nat
  <2> USE DEF TypeOK, prepared, results, history
  <2>1. CASE EnterTry \/ ResolveArtifact
    BY <2>1 DEF EnterTry, ResolveArtifact
  <2>2. CASE StageWeights \/ Evict
    BY <2>2 DEF StageWeights, Evict
  <2>3. CASE Invoke
    BY <2>3 DEF Invoke
  <2>4. CASE Publish
    <3>1. tag' \in BOOLEAN
      BY <2>4 DEF Publish
    <3>2. QED
      BY <2>4, <3>1 DEF Publish
  <2>5. CASE Promote
    BY <2>5 DEF Promote
  <2>6. CASE InterruptTry
    <3>1. evicted' \in BOOLEAN /\ tag' \in BOOLEAN /\ promoted' \in BOOLEAN
      BY <2>6, Zenon DEF InterruptTry
    <3>2. interrupts' \in Nat
      BY <2>6 DEF InterruptTry, Interrupted
    <3>3. QED
      BY <2>6, <3>1, <3>2 DEF InterruptTry
  <2>7. QED
    BY <2>1, <2>2, <2>3, <2>4, <2>5, <2>6 DEF TryStep
<1>3. UNCHANGED <<request, exposed>>
  BY TryPlaces
<1>4. QED
  BY <1>1, <1>2, <1>3 DEF TypeOK, request, Try

LEMMA TryOrder == ASSUME IInv, TryStep PROVE OrderInv' /\ ResultInv'
<1> USE DEF IInv, TypeOK, OrderInv, ResultInv, ActivatedIsPublished, Publications, Try,
        prepared, results, request, Go, Leave, Clean
<1>1. CASE EnterTry
  BY <1>1 DEF EnterTry
<1>2. CASE ResolveArtifact
  BY <1>2 DEF ResolveArtifact
<1>3. CASE StageWeights
  BY <1>3 DEF StageWeights
<1>4. CASE Evict
  BY <1>4 DEF Evict
<1>5. CASE Invoke
  BY <1>5 DEF Invoke
<1>6. CASE Publish
  BY <1>6 DEF Publish
<1>7. CASE Promote
  BY <1>7 DEF Promote
<1>8. CASE InterruptTry
  BY <1>8 DEF InterruptTry
<1>9. QED
  BY <1>1, <1>2, <1>3, <1>4, <1>5, <1>6, <1>7, <1>8 DEF TryStep

LEMMA TryInv == ASSUME IInv, TryStep PROVE IInv'
<1>1. QED
  BY TryType, TryCache, TryOrder DEF IInv, CacheInv
-----------------------------------------------------------------------------
\* The steps of staging up to the end of its pool, by the part of the invariant.
\* They do not change what the order of the steps and the results depend on.
LEMMA OrderKept ==
  ASSUME IInv, UNCHANGED <<kind, images, weights, evicted, results>>,
         pc' = pc \/ (kind = "capture" /\ pc' \in {"copying", "copied", "sweep", "unwind"}
                     /\ pc \in {"cache", "copying"})
                  \/ pc' = "ended"
  PROVE  OrderInv' /\ ResultInv'
<1>1. kind = "capture" /\ pc \in {"cache", "copying"} => images /\ ~evicted /\ ~promoted
  BY DEF IInv, OrderInv, ResultInv, Try
<1>2. OrderInv'
  BY <1>1 DEF IInv, OrderInv, Try
<1>3. ResultInv'
  BY <1>1 DEF IInv, ResultInv, ActivatedIsPublished, results
<1>4. QED
  BY <1>2, <1>3

LEMMA ImagesStep == ASSUME IInv, PrepareImages PROVE IInv'
<1> USE DEF IInv
<1>1. pc = "images" /\ UNCHANGED cache /\ kind = "capture" /\ UNCHANGED exposed
  BY DEF PrepareImages, Abort, Go, OrderInv, history
<1>2. TypeOK'
  <2>1. images' \in BOOLEAN /\ pc' \in {"ended", "cache"} /\ fate' \in {"ok", "error"} \cup {fate}
    BY DEF PrepareImages, Abort, Go, TypeOK
  <2>2. UNCHANGED <<request, weights, evicted, results, history>>
    BY DEF PrepareImages
  <2>3. QED
    BY <1>1, <2>1, <2>2, SameCache DEF TypeOK, request, results, history, Try
<1>3. CopyInv' /\ TreeInv' /\ RemovalInv' /\ RemovedAfterCopy'
  BY <1>1 DEF PrepareImages, Abort, Go, request, cache, CopyInv, TreeInv, RemovalInv,
     RemovedAfterCopy, Settled, Try, TypeOK
<1>4. OrderInv' /\ ResultInv'
  BY <1>1 DEF PrepareImages, Abort, Go, request, results, OrderInv, ResultInv,
     ActivatedIsPublished, Try
<1>5. QED
  BY <1>2, <1>3, <1>4

LEMMA StageStep == ASSUME IInv, StageCache PROVE IInv'
<1> USE DEF IInv
<1>1. pc = "cache" /\ kind = "capture" /\ UNCHANGED <<kind, seeded, exposed, prepared, results>>
  BY DEF StageCache, OrderInv, history, request
<1>2. TypeOK'
  <2>1. CASE UNCHANGED cache
    BY <1>1, <2>1, SameCache
       DEF StageCache, Abort, Go, TypeOK, request, prepared, results, history, Try
  <2>2. CASE copies' = AllUnits("queued") /\ UNCHANGED <<fate, removals, tree, kept>>
             /\ pc' = "copying"
    <3>1. \A u \in Units : copies[u] = "idle"
      BY <1>1 DEF CopyInv
    <3>2. \A u \in Units : tree'[u] = "absent"
      BY <2>2, <3>1 DEF TypeOK
    <3>3. QED
      BY <1>1, <2>2, <3>2
         DEF StageCache, TypeOK, AllUnits, request, prepared, results, history, Try
  <2>3. QED
    BY <2>1, <2>2 DEF StageCache, Go, Abort
<1>3. CopyInv' /\ TreeInv' /\ RemovalInv' /\ RemovedAfterCopy'
  BY <1>1 DEF StageCache, Abort, Go, cache, AllUnits, CopyInv, TreeInv, RemovalInv,
     RemovedAfterCopy, Settled, Try, TypeOK
<1>4. OrderInv' /\ ResultInv'
  BY <1>1, OrderKept DEF StageCache, Abort, Go, prepared
<1>5. QED
  BY <1>2, <1>3, <1>4

\* A copy runs only while the pool is waited for, or after an interrupt.
LEMMA CopyStep ==
  ASSUME IInv, NEW u \in Units, BeginCopy(u) \/ EndCopy(u) PROVE IInv'
<1> USE DEF IInv
<1>1. /\ copies[u] \in {"queued", "running"}
      /\ UNCHANGED <<request, pc, fate, removals, kept, prepared, results, history>>
  BY DEF BeginCopy, EndCopy
<1>2. /\ kind = "capture" /\ seeded /\ removals[u] = "idle"
      /\ pc \notin Settled /\ pc \notin Try \cup {"copied", "cleanup", "images", "cache"}
      /\ pc = "ended" => exposed
  BY <1>1 DEF CopyInv, RemovedAfterCopy, TypeOK, Settled, Try
<1>3. /\ \A v \in Units \ {u} : copies'[v] = copies[v] /\ tree'[v] = tree[v]
      /\ \/ copies'[u] = "running" /\ tree'[u] = "partial"
         \/ copies'[u] = "failed"
         \/ copies'[u] = "copied" /\ tree'[u] = "full"
  BY DEF BeginCopy, EndCopy, TypeOK
<1>4. TypeOK'
  BY <1>1, <1>3
     DEF BeginCopy, EndCopy, TypeOK, request, prepared, results, history, Try
<1>5. CopyInv'
  BY <1>1, <1>2, <1>3 DEF CopyInv, request, history
<1>6. TreeInv' /\ RemovedAfterCopy'
  BY <1>1, <1>2, <1>3 DEF TreeInv, RemovedAfterCopy
<1>7. RemovalInv'
  BY <1>1, <1>2, <1>3 DEF RemovalInv, Settled, history
<1>8. OrderInv' /\ ResultInv'
  BY <1>1, OrderKept DEF request, prepared
<1>9. QED
  BY <1>4, <1>5, <1>6, <1>7, <1>8

LEMMA EndCopiesStep == ASSUME IInv, EndCopies PROVE IInv'
<1> USE DEF IInv
<1>1. pc = "copying" /\ kind = "capture" /\ UNCHANGED <<kind, seeded, exposed, prepared, results>>
  BY DEF EndCopies, OrderInv, history, request
<1>2. \A u \in Units : copies[u] \notin {"queued", "running"} /\ removals[u] = "idle"
  BY <1>1 DEF EndCopies, Copied, RemovalInv
<1>3. CASE (\E u \in Units : copies[u] = "failed") /\ Clean("sweep", Units, "error")
  <2>1. TypeOK'
    <3>1. Clean("sweep", Units, "error") /\ Units \in SUBSET Units
      BY <1>3
    <3>2. /\ pc' = "sweep" /\ fate' \in {"ok", "error", "interrupt"}
          /\ copies' \in [Units -> {"idle", "queued", "running", "copied", "failed"}]
          /\ removals' \in [Units -> {"idle", "queued", "done"}]
          /\ tree' \in [Units -> {"absent", "partial", "full"}]
          /\ kept' \subseteq {u \in Units : removals'[u] = "done"}
          /\ \A u \in Units : copies'[u] \in {"idle", "queued"} => tree'[u] = "absent"
      BY <1>1, <3>1, CleanType
    <3>3. QED
      BY <3>2 DEF EndCopies, TypeOK, request, prepared, results, history, Try
  <2>2. CopyInv' /\ TreeInv' /\ RemovalInv' /\ RemovedAfterCopy'
    BY <1>1, <1>2, <1>3
       DEF Clean, CopyInv, TreeInv, RemovalInv, RemovedAfterCopy, Settled, Try
  <2>3. QED
    BY <1>1, <1>3, <2>1, <2>2, OrderKept DEF Clean, prepared
<1>4. CASE (\A u \in Units : copies[u] = "copied") /\ Go("copied")
  <2>1. TypeOK'
    BY <1>4, SameCache DEF Go, EndCopies, TypeOK, request, prepared, results, history, Try
  <2>2. CopyInv' /\ TreeInv' /\ RemovalInv' /\ RemovedAfterCopy'
    BY <1>1, <1>2, <1>4
       DEF Go, cache, CopyInv, TreeInv, RemovalInv, RemovedAfterCopy, Settled, Try
  <2>3. QED
    BY <1>1, <1>4, <2>1, <2>2, OrderKept DEF Go, prepared
<1>5. QED
  BY <1>3, <1>4 DEF EndCopies

\* A removal that succeeded leaves no tree; one that did not is logged.
LEMMA RemovalStep == ASSUME IInv, NEW u \in Units, RemoveTree(u) PROVE IInv'
<1> USE DEF IInv
<1>1. /\ removals[u] = "queued"
      /\ UNCHANGED <<request, pc, fate, copies, prepared, results, history>>
      /\ removals' = [removals EXCEPT ![u] = "done"]
  BY DEF RemoveTree
<1>2. copies[u] \notin {"queued", "running"} /\ pc \in {"sweep", "cleanup"}
  BY <1>1 DEF RemovedAfterCopy, RemovalInv, TypeOK
<1>3. /\ kept \subseteq kept' /\ kept' \subseteq kept \cup {u}
      /\ \A v \in Units \ {u} : tree'[v] = tree[v] /\ removals'[v] = removals[v]
      /\ removals'[u] = "done" /\ (tree'[u] = "absent" \/ u \in kept')
      /\ tree' \in [Units -> {"absent", "partial", "full"}]
      /\ tree[u] = "absent" => tree'[u] = "absent"
  BY <1>1 DEF RemoveTree, TypeOK
<1>4. TypeOK'
  <2>1. kept' \subseteq {v \in Units : removals'[v] = "done"}
    BY <1>3 DEF TypeOK
  <2>2. \A v \in Units : copies'[v] \in {"idle", "queued"} => tree'[v] = "absent"
    BY <1>1, <1>3 DEF TypeOK
  <2>3. removals' \in [Units -> {"idle", "queued", "done"}]
    BY <1>1 DEF TypeOK
  <2>4. tree' \in [Units -> {"absent", "partial", "full"}]
    BY <1>3
  <2>5. QED
    BY <1>1, <2>1, <2>2, <2>3, <2>4 DEF TypeOK, request, prepared, results, history, Try
<1>5. CopyInv'
  BY <1>1 DEF CopyInv, request, history
<1>6. TreeInv' /\ RemovedAfterCopy'
  BY <1>1, <1>2, <1>3 DEF TreeInv, RemovedAfterCopy
<1>7. RemovalInv'
  BY <1>1, <1>2, <1>3 DEF RemovalInv, history
<1>8. OrderInv' /\ ResultInv'
  BY <1>1, OrderKept DEF request, prepared
<1>9. QED
  BY <1>4, <1>5, <1>6, <1>7, <1>8

\* The end of an operation, and the end that an interrupt makes.
LEMMA EndStep ==
  ASSUME IInv, EndCleanup \/ InterruptPreparation \/ InterruptGap \/ Unwind
  PROVE  IInv'
<1> USE DEF IInv
<1> USE DEF TypeOK
<1>1. /\ UNCHANGED <<request, cache, prepared, results>> /\ pc' = "ended"
      /\ fate' \in {"ok", "error", "interrupt"} /\ interrupts' \in Nat /\ exposed' \in BOOLEAN
      /\ exposed => exposed'
  <2>1. CASE EndCleanup
    BY <2>1 DEF EndCleanup, history
  <2>2. CASE InterruptPreparation
    BY <2>2 DEF InterruptPreparation, Interrupted, Abort
  <2>3. CASE InterruptGap
    BY <2>3 DEF InterruptGap, Interrupted, Abort
  <2>4. CASE Unwind
    BY <2>4 DEF Unwind, Interrupted
  <2>5. QED
    BY <2>1, <2>2, <2>3, <2>4
<1>2. \/ pc = "unwind" /\ exposed
      \/ pc \in {"sweep", "cleanup"} /\ \A u \in Units : removals[u] # "queued"
      \/ pc \in {"images", "cache"} /\ \A u \in Units : copies[u] = "idle"
      \/ pc = "copied" /\ exposed'
  BY DEF EndCleanup, InterruptPreparation, InterruptGap, Unwind, CopyInv, RemovalInv
<1>3. TypeOK'
  BY <1>1, SameCache DEF TypeOK, request, prepared, results, Try
<1>4. CopyInv'
  BY <1>1, <1>2 DEF CopyInv, request, cache, Settled, Try
<1>5. TreeInv' /\ RemovedAfterCopy'
  BY <1>1 DEF TreeInv, RemovedAfterCopy, cache
<1>6. RemovalInv'
  BY <1>1, <1>2 DEF RemovalInv, cache, TypeOK
<1>7. OrderInv' /\ ResultInv'
  BY <1>1, OrderKept DEF request, prepared
<1>8. QED
  BY <1>3, <1>4, <1>5, <1>6, <1>7

LEMMA InterruptStagingStep == ASSUME IInv, InterruptStaging PROVE IInv'
<1> USE DEF IInv
<1>1. /\ UNCHANGED <<request, removals, tree, kept, prepared, results>>
      /\ pc' = "unwind" /\ fate' = "interrupt" /\ interrupts' \in Nat /\ exposed' = TRUE
  BY DEF InterruptStaging, Interrupted, TypeOK
<1>2. /\ kind = "capture" /\ seeded
      /\ \/ pc = "copying" /\ copies' = copies
         \/ /\ pc = "cache" /\ \A u \in Units : tree[u] = "absent"
            /\ copies' \in [Units -> {"idle", "queued"}]
  <2>1. kind = "capture"
    BY DEF InterruptStaging, OrderInv
  <2>2. CASE pc = "cache"
    BY <2>1, <2>2 DEF InterruptStaging, CopyInv, TypeOK
  <2>3. CASE pc = "copying"
    <3>1. seeded
      BY <2>3 DEF CopyInv, OrderInv
    <3>2. QED
      BY <2>1, <2>3, <3>1 DEF InterruptStaging
  <2>4. QED
    BY <2>2, <2>3 DEF InterruptStaging
<1>3. TypeOK'
  BY <1>1, <1>2 DEF TypeOK, request, prepared, results, Try
<1>4. CopyInv'
  BY <1>1, <1>2 DEF CopyInv, request, Settled, Try
<1>5. TreeInv' /\ RemovedAfterCopy' /\ RemovalInv'
  BY <1>1, <1>2 DEF TreeInv, RemovedAfterCopy, RemovalInv
<1>6. OrderInv' /\ ResultInv'
  BY <1>1, <1>2, OrderKept DEF request, prepared
<1>7. QED
  BY <1>3, <1>4, <1>5, <1>6

LEMMA InterruptCleanupStep == ASSUME IInv, InterruptCleanup PROVE IInv'
<1> USE DEF IInv
<1>1. /\ UNCHANGED <<request, pc, copies, tree, kept, prepared, results>>
      /\ fate' = "interrupt" /\ interrupts' \in Nat /\ exposed' = TRUE
      /\ pc \in {"sweep", "cleanup"}
  BY DEF InterruptCleanup, Interrupted, TypeOK
<1>2. /\ removals' \in [Units -> {"idle", "queued", "done"}]
      /\ \A u \in Units : \/ removals'[u] = removals[u]
                          \/ removals[u] = "queued" /\ removals'[u] = "idle"
  BY DEF InterruptCleanup, TypeOK
<1>3. TypeOK'
  BY <1>1, <1>2 DEF TypeOK, request, prepared, results, Try
<1>4. CopyInv'
  BY <1>1 DEF CopyInv, request, Settled, Try
<1>5. TreeInv' /\ RemovedAfterCopy' /\ RemovalInv'
  BY <1>1, <1>2 DEF TreeInv, RemovedAfterCopy, RemovalInv
<1>6. OrderInv' /\ ResultInv'
  BY <1>1, OrderKept DEF request, prepared
<1>7. QED
  BY <1>3, <1>4, <1>5, <1>6
-----------------------------------------------------------------------------
LEMMA IInvStep == IInv /\ [Next]_vars => IInv'
<1> SUFFICES ASSUME IInv, [Next]_vars PROVE IInv'
  OBVIOUS
<1>1. CASE UNCHANGED vars
  BY <1>1 DEF vars, request, cache, prepared, results, history, IInv, TypeOK, CopyInv,
     TreeInv, RemovalInv, RemovedAfterCopy, OrderInv, ResultInv, ActivatedIsPublished
<1>2. CASE Next
  BY <1>2, ImagesStep, StageStep, CopyStep, EndCopiesStep, RemovalStep, EndStep, TryInv,
     InterruptStagingStep, InterruptCleanupStep DEF Next, Interrupt, TryStep
<1>3. QED
  BY <1>1, <1>2

LEMMA IInvCorrect == Spec => []IInv
<1>1. QED
  BY InitInv, IInvStep, PTL DEF Spec

\* TypeOK holds of an operation of any kind, for any units.
THEOREM TypeCorrect == Spec => []TypeOK
<1>1. IInv => TypeOK
  BY DEF IInv
<1>2. QED
  BY <1>1, IInvCorrect, PTL

\* TreesRemoved holds for all units, whatever fails: only an interrupt while the
\* trees are made, before the try statement or during their removal leaves one.
THEOREM TreesAreRemoved == Spec => []TreesRemoved
<1>1. IInv => TreesRemoved
  <2> SUFFICES ASSUME IInv, pc = "ended", ~exposed, NEW u \in Units
               PROVE  tree[u] = "absent" \/ u \in kept
    BY DEF TreesRemoved
  <2>1. removals[u] \in {"idle", "done"}
    BY DEF IInv, TypeOK, RemovalInv
  <2>2. CASE removals[u] = "idle"
    BY <2>2 DEF IInv, RemovalInv
  <2>3. CASE removals[u] = "done"
    BY <2>3 DEF IInv, TreeInv
  <2>4. QED
    BY <2>1, <2>2, <2>3
<1>2. QED
  BY <1>1, IInvCorrect, PTL

\* RemovedAfterCopy holds for pools of any size: no tree is removed under the
\* thread that makes it.
THEOREM RemovedAfterCopyAlways == Spec => []RemovedAfterCopy
<1>1. IInv => RemovedAfterCopy
  BY DEF IInv
<1>2. QED
  BY <1>1, IInvCorrect, PTL

\* EvictedWhenPrepared holds for all units: the running workload is not stopped
\* before the images, the weights and every private tree are there.
THEOREM EvictionIsLast == Spec => []EvictedWhenPrepared
<1>1. IInv => EvictedWhenPrepared
  <2> SUFFICES ASSUME IInv, evicted, pc \in Try PROVE EvictedWhenPrepared
    BY DEF EvictedWhenPrepared
  <2>1. kind = "capture" /\ pc \in {"controller", "promote"} /\ images /\ weights
    BY DEF IInv, OrderInv, Try
  <2>2. seeded => \A u \in Units : copies[u] = "copied" /\ removals[u] = "idle"
    BY <2>1 DEF IInv, CopyInv, RemovalInv, Try
  <2>3. seeded => \A u \in Units : tree[u] = "full"
    BY <2>2 DEF IInv, TreeInv
  <2>4. QED
    BY <2>1, <2>3 DEF EvictedWhenPrepared
<1>2. QED
  BY <1>1, IInvCorrect, PTL

\* ActivatedIsPublished holds of every operation: promotion comes after the
\* controller and after the registry.
THEOREM ActivationIsLast == Spec => []ActivatedIsPublished
<1>1. IInv => ActivatedIsPublished
  BY DEF IInv, ResultInv
<1>2. QED
  BY <1>1, IInvCorrect, PTL
=============================================================================
