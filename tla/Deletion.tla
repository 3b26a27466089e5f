------------------------------- MODULE Deletion -------------------------------
(***************************************************************************)
(* `coldsnap delete --scope local` (deletion.py), beside captures and other *)
(* deletions.  A capture leaves weight payloads, stored under the hash of    *)
(* their content and so shared by captures, and capsule images on its hosts, *)
(* and a descriptor in its store on the manager.  A deletion reads the       *)
(* descriptors of its store, then those of all other stores, renders a plan, *)
(* waits for the user, and executes the plan host by host, the store last.   *)
(* Nothing is locked until the store is removed.  The state directory of a   *)
(* capture, which is never shared, goes with its payloads.  The stores are    *)
(* those of DescriptorStores: whoever captures, promotes or removes takes its *)
(* steps.                                                                     *)
(***************************************************************************)
EXTENDS DescriptorStores

CONSTANTS
    Hosts, Deleters, Ids, Repositories,
    Payloads, Images,    \* payload digests, image references
    DigestOf,            \* of either: references may differ in their repository only
    HostsOf, AssetsOf,   \* of a capture: its hosts, payloads and images
    IdOf, RemoteOf,      \* and its capture_id, and what it names as published, where
    Clusters,            \* the host sets a deletion may select
    MaxDeletions,        \* bound on the deletions started
    None

ASSUME CaptureAssumption ==
    /\ HostsOf \in [Captures -> SUBSET Hosts]
    /\ AssetsOf \in [Captures -> SUBSET (Payloads \cup Images)]
    /\ Payloads \cap Images = {}
    /\ IdOf \in [Captures -> Ids]
    /\ \A c \in Captures : RemoteOf[c] \subseteq Repositories \X AssetsOf[c]

ASSUME SelectionAssumption ==
    Clusters \subseteq SUBSET Hosts /\ {} \notin Clusters /\ None \notin Stores

VARIABLES
    held,      \* the digests each host holds
    phase, target, cluster,  \* per deletion: progress, store, selected hosts
    unread,    \* per deletion: the directories it has yet to read
    seen,      \* per deletion: the captures found in its store
    records,   \* per deletion: those of them that it keeps
    retained,  \* per deletion: the digests found in other stores
    todo,      \* per deletion: hosts it has not begun
    images,    \* per deletion: images left on the host it is at
    begun,     \* the deletions started so far, up to MaxDeletions
    unbound,   \* history: captures a deletion is not bound to preserve
    left       \* history: what lost its descriptor outside of a plan

captures == <<state, cleared, left>>
plan == <<target, cluster, seen, records, retained>>
vars == <<captures, held, phase, plan, unread, todo, images, begun, unbound>>

Assets == Payloads \cup Images
Digests == {DigestOf[x] : x \in Assets}
Scanning == {"generations", "pending", "retaining"}
Executing == {"hosts", "images", "clearing"}

TypeOK ==
    /\ StoresTypeOK
    /\ held \subseteq Hosts \X Assets
    /\ phase \in [Deleters -> {"idle", "rendered"} \cup Scanning \cup Executing]
    /\ target \in [Deleters -> Stores \cup {None}]
    /\ \A d \in Deleters : target[d] = None <=> phase[d] = "idle"
    /\ cluster \in [Deleters -> Clusters \cup {{}}]
    /\ unread \in [Deleters -> SUBSET (Stores \X Directories)]
    /\ seen \in [Deleters -> SUBSET Captures]
    /\ records \in [Deleters -> SUBSET Captures]
    /\ \A d \in Deleters : records[d] \subseteq seen[d]
    /\ \A d \in Deleters : \A c \in seen[d] : StoreOf[c] = target[d]
    /\ retained \in [Deleters -> SUBSET Digests]
    /\ todo \in [Deleters -> SUBSET Hosts]
    /\ images \in [Deleters -> SUBSET (Hosts \X Images)]
    /\ begun \in Nat
    /\ unbound \subseteq Captures
    /\ left \subseteq Hosts \X Assets

\* What a capture has on its hosts.
Held(c) == HostsOf[c] \X AssetsOf[c]

Init ==
    /\ StoresInit /\ state = [c \in Captures |-> "none"]
    /\ held = {} /\ begun = 0 /\ left = {} /\ unbound = {}
    /\ phase = [d \in Deleters |-> "idle"]
    /\ target = [d \in Deleters |-> None]
    /\ cluster = [d \in Deleters |-> {}]
    /\ seen = [d \in Deleters |-> {}] /\ records = [d \in Deleters |-> {}]
    /\ unread = [d \in Deleters |-> {}] /\ retained = [d \in Deleters |-> {}]
    /\ todo = [d \in Deleters |-> {}] /\ images = [d \in Deleters |-> {}]
-----------------------------------------------------------------------------
(* Captures. *)

\* The controller puts payloads and capsules on the hosts, ...
StartCapture(c) ==
    /\ Undertake(c)
    /\ held' = held \cup Held(c)
    /\ unbound' = IF \E d \in Deleters : phase[d] # "idle"
                  THEN unbound \cup {c} ELSE unbound
    /\ UNCHANGED <<phase, plan, unread, todo, images, begun, left>>

\* ... and writes the committed descriptor to pending/.
WriteDescriptor(c) ==
    /\ Commit(c)
    /\ UNCHANGED <<held, phase, plan, unread, todo, images, begun, unbound, left>>

\* promote_generation renames it to generations/.  A deletion that walks the
\* directories meanwhile may see it in neither; then it prunes ...
Promote(c) ==
    /\ Retain(c)
    /\ unbound' = IF \E d \in Deleters : phase[d] = "retaining"
                  THEN unbound \cup {c} ELSE unbound
    /\ UNCHANGED <<held, phase, plan, unread, todo, images, begun, left>>

\* ... old generations, or leaves that to the next promotion when it dies.  Which ones is the concern of ArtifactStore.
Prune(c) ==
    /\ Discard(c)
    /\ left' = left \cup Held(c)
    /\ UNCHANGED <<held, phase, plan, unread, todo, images, begun, unbound>>
-----------------------------------------------------------------------------
(* build_deletion_plan. *)

Begin(d) ==
    /\ phase[d] = "idle"
    /\ begun < MaxDeletions /\ begun' = begun + 1
    /\ phase' = [phase EXCEPT ![d] = "generations"]
    /\ \E s \in Stores : target' = [target EXCEPT ![d] = s]
    /\ \E hosts \in Clusters : cluster' = [cluster EXCEPT ![d] = hosts]
    /\ unbound' = unbound \cup {c \in Captures : state[c] = "capturing"}
    /\ UNCHANGED <<captures, held, unread, seen, records, retained, todo, images>>

\* The plan is rendered when nothing is left to read.
AfterReading(d) == IF unread'[d] = {} THEN "rendered" ELSE "retaining"

\* _record_score: does the descriptor name published images, published payloads?
Score(c) == Cardinality({kind \in {Images, Payloads} : \E x \in RemoteOf[c] : x[2] \in kind})

\* The descriptors that no other one of the same capture displaces: one that scores
\* less, or as much and was read earlier.
Foremost(earlier, later) ==
    {c \in earlier \cup later : \A e \in earlier \cup later : IdOf[e] = IdOf[c] =>
        \/ Score(e) < Score(c)
        \/ Score(e) = Score(c) /\ (c \in later \/ e \in earlier)}

\* The order within a directory is the file system's.
OnePerCapture(found) ==
    {kept \in SUBSET found :
        \A c \in found : Cardinality({k \in kept : IdOf[k] = IdOf[c]}) = 1}

ReadTarget(d, directory) ==
    LET found == In(target[d], directory) IN
    /\ seen' = [seen EXCEPT ![d] = @ \cup found]
    /\ \E kept \in OnePerCapture(Foremost(records[d], found)) :
          records' = [records EXCEPT ![d] = kept]

\* _store_descriptors reads generations/ before pending/.
TargetRecords(d) ==
    /\ \/ /\ phase[d] = "generations"
          /\ phase' = [phase EXCEPT ![d] = "pending"]
          /\ ReadTarget(d, "generations") /\ UNCHANGED unread
       \/ /\ phase[d] = "pending"
          /\ ReadTarget(d, "pending")
          /\ unread' = [unread EXCEPT ![d] = (Stores \ {target[d]}) \X Directories]
          /\ phase' = [phase EXCEPT ![d] = AfterReading(d)]
    /\ UNCHANGED <<captures, held, target, cluster, retained, todo, images, unbound, begun>>

DigestsOf(c) == {DigestOf[x] : x \in AssetsOf[c]}
References(s, directory) == UNION {DigestsOf(c) : c \in In(s, directory)}

\* _retained_references walks the other stores, in the order the file system has.
RetainedReferences(d) ==
    /\ phase[d] = "retaining"
    /\ \E x \in unread[d] :
          /\ unread' = [unread EXCEPT ![d] = @ \ {x}]
          /\ retained' = [retained EXCEPT ![d] = @ \cup References(x[1], x[2])]
    /\ phase' = [phase EXCEPT ![d] = AfterReading(d)]
    /\ UNCHANGED <<captures, held, target, cluster, seen, records, todo, images,
                   unbound, begun>>

\* A host that has left the cluster is not contacted: every selected host is.
Contacted(d, c) == IF HostsOf[c] \subseteq cluster[d] THEN HostsOf[c] ELSE cluster[d]

\* Mutant: payloads of other captures are deleted with those of the target.
DoomedBlindly(d) == {x \in Assets : \E c \in records[d] : x \in AssetsOf[c]}

\* What the plan has: that of its records, less what has a retained digest.
Doomed(d) ==
    {x \in Assets : DigestOf[x] \notin retained[d] /\ \E c \in records[d] : x \in AssetsOf[c]}

\* Payloads go from every selected host, images from the hosts of the capture.
PayloadsAt(d, h) == {h} \X (Payloads \cap Doomed(d))

ImagesAt(d, h) ==
    {h} \X {i \in Images \cap Doomed(d) :
               \E c \in records[d] : h \in Contacted(d, c) /\ i \in AssetsOf[c]}

PlanHosts(d) ==
    {h \in cluster[d] : \/ Payloads \cap Doomed(d) # {}
                        \/ \E c \in records[d] : h \in Contacted(d, c)}

Planned(d) == UNION {ImagesAt(d, h) \cup PayloadsAt(d, h) : h \in PlanHosts(d)}
-----------------------------------------------------------------------------
(* execute_deletion_plan. *)

\* The command ends, and may be run again.
End(d) ==
    /\ phase' = [phase EXCEPT ![d] = "idle"]
    /\ target' = [target EXCEPT ![d] = None]
    /\ cluster' = [cluster EXCEPT ![d] = {}]
    /\ seen' = [seen EXCEPT ![d] = {}]
    /\ records' = [records EXCEPT ![d] = {}]
    /\ retained' = [retained EXCEPT ![d] = {}]
    /\ unread' = [unread EXCEPT ![d] = {}]
    /\ todo' = [todo EXCEPT ![d] = {}]
    /\ images' = [images EXCEPT ![d] = {}]

\* "Delete every item in this ColdSnap plan?"
Confirm(d) ==
    /\ phase[d] = "rendered"
    /\ \/ End(d) /\ UNCHANGED unbound
       \/ /\ phase' = [phase EXCEPT ![d] = "hosts"]
          /\ todo' = [todo EXCEPT ![d] = PlanHosts(d)]
          /\ unbound' = unbound \cup {c \in Captures : StoreOf[c] = target[d]}
          /\ UNCHANGED <<plan, unread, images>>
    /\ UNCHANGED <<captures, held, begun>>

\* The host is done with when no image is left there.
AfterImages(d) == IF images'[d] = {} THEN "hosts" ELSE "images"

\* The deletion program of one host; its images follow.
DeleteOnHost(d) ==
    /\ phase[d] = "hosts"
    /\ \E h \in todo[d] :
          /\ held' = held \ PayloadsAt(d, h)
          /\ todo' = [todo EXCEPT ![d] = @ \ {h}]
          /\ images' = [images EXCEPT ![d] = ImagesAt(d, h)]
    /\ phase' = [phase EXCEPT ![d] = AfterImages(d)]
    /\ UNCHANGED <<captures, plan, unread, unbound, begun>>

\* docker image rm, one image at a time; an image that is gone is no failure.
RemoveImages(d) ==
    /\ phase[d] = "images"
    /\ \E x \in images[d] :
          /\ held' = held \ {x}
          /\ images' = [images EXCEPT ![d] = @ \ {x}]
    /\ phase' = [phase EXCEPT ![d] = AfterImages(d)]
    /\ UNCHANGED <<captures, plan, unread, todo, unbound, begun>>

\* Mutant: a host that fails is passed over.
FailAndGoOn(d) ==
    /\ phase[d] = "hosts"
    /\ \E h \in todo[d] : todo' = [todo EXCEPT ![d] = @ \ {h}]
    /\ UNCHANGED <<captures, held, phase, plan, unread, images, unbound, begun>>

\* A descriptor is invalid, a host cannot be reached, its program fails half
\* way, an image is in use, the deletion is interrupted or killed.
Fail(d) ==
    /\ phase[d] # "idle"
    /\ End(d)
    /\ \/ UNCHANGED held
       \/ /\ phase[d] = "hosts"
          /\ \E h \in todo[d] : \E part \in SUBSET PayloadsAt(d, h) : held' = held \ part
    /\ UNCHANGED <<captures, unbound, begun>>

\* What dropped descriptors leave behind: all of one that the deletion has not read,
\* and of one it has, what the plan does not have.
Unplanned(d, dropped) ==
    {x \in Hosts \X Assets : \E c \in dropped :
        x \in Held(c) /\ ~(c \in seen[d] /\ x \in Planned(d))}

Empty(d, directory) ==
    /\ ClearDirectory(target[d], directory)
    /\ left' = left \cup Unplanned(d, In(target[d], directory))

\* remove_artifact_store drops whatever is in generations/, ...
ClearGenerations(d) ==
    /\ phase[d] = "hosts" /\ todo[d] = {}
    /\ phase' = [phase EXCEPT ![d] = "clearing"]
    /\ Empty(d, "generations")
    /\ UNCHANGED <<held, plan, unread, todo, images, unbound, begun>>

\* ... then in pending/.
ClearPending(d) ==
    /\ phase[d] = "clearing"
    /\ End(d)
    /\ Empty(d, "pending")
    /\ UNCHANGED <<held, unbound, begun>>

Step(d) ==
    \/ Begin(d) \/ TargetRecords(d) \/ RetainedReferences(d) \/ Confirm(d)
    \/ DeleteOnHost(d) \/ RemoveImages(d) \/ Fail(d)
    \/ ClearGenerations(d) \/ ClearPending(d)

Next ==
    \/ \E c \in Captures : StartCapture(c) \/ WriteDescriptor(c) \/ Promote(c) \/ Prune(c)
    \/ \E d \in Deleters : Step(d)

Spec == Init /\ [][Next]_vars
-----------------------------------------------------------------------------
\* A capture that was committed before any deletion read the stores, is not the
\* target of one, and stayed where it was while the stores were read keeps its
\* payloads and images, whatever deletions of other stores do, overlap, fail
\* and repeat.
SharedKept ==
    \A c \in Captures \ unbound : Committed(c) => Held(c) \subseteq held

\* A deletion that fails leaves descriptors for what it has not deleted, so it
\* can be repeated: nothing is on a host without a descriptor or a capture
\* under way, but what was pruned, promoted after the plan was read, retained
\* for another store, outside of the selected cluster, or named by descriptors only
\* that gave way to another one of their capture.
NoOrphan ==
    \A x \in held \ left : \E c \in Captures :
        (state[c] = "capturing" \/ Committed(c)) /\ x \in Held(c)
=============================================================================
