---------------------------- MODULE DeletionProofs ----------------------------
(***************************************************************************)
(* Proofs about Deletion and PublishedDeletion for any stores, hosts,        *)
(* captures and publications, and for any number of deletions, overlapping,  *)
(* failing and repeated.                                                     *)
(***************************************************************************)
EXTENDS PublishedDeletion, TLAPS

LEMMA AssetsTyped ==
    ASSUME NEW c \in Captures
    PROVE  /\ AssetsOf[c] \subseteq Assets /\ HostsOf[c] \subseteq Hosts
           /\ StoreOf[c] \in Stores /\ Held(c) \subseteq Hosts \X Assets
           /\ DigestsOf(c) \subseteq Digests /\ RemoteOf[c] \subseteq Repositories \X Assets
<1>1. AssetsOf[c] \subseteq Assets /\ HostsOf[c] \subseteq Hosts /\ StoreOf[c] \in Stores
  BY CaptureAssumption, StoresAssumption DEF CaptureAssumption, StoresAssumption, Assets
<1>2. RemoteOf[c] \subseteq Repositories \X Assets
  BY <1>1, CaptureAssumption DEF CaptureAssumption
<1>3. QED
  BY <1>1, <1>2 DEF Held, DigestsOf, Digests

LEMMA PlanTyped ==
    ASSUME TypeOK, NEW d \in Deleters
    PROVE  /\ PlanHosts(d) \subseteq Hosts
           /\ \A h \in Hosts : ImagesAt(d, h) \subseteq Hosts \X Images
<1>1. PlanHosts(d) \subseteq cluster[d]
  BY DEF PlanHosts
<1>2. cluster[d] \subseteq Hosts
  BY SelectionAssumption DEF SelectionAssumption, TypeOK
<1>3. QED
  BY <1>1, <1>2 DEF ImagesAt

\* What is kept was read before or is read now.
LEMMA KeptOfRead ==
    ASSUME NEW earlier, NEW later, NEW kept \in OnePerCapture(Foremost(earlier, later))
    PROVE  kept \subseteq earlier \cup later
  BY DEF OnePerCapture, Foremost

LEMMA ReadTyped ==
    ASSUME TypeOK, NEW d \in Deleters, NEW directory, ReadTarget(d, directory)
    PROVE  /\ seen' \in [Deleters -> SUBSET Captures]
           /\ records' \in [Deleters -> SUBSET Captures]
           /\ \A x \in Deleters : records'[x] \subseteq seen'[x]
           /\ \A x \in Deleters : \A c \in seen'[x] : StoreOf[c] = target[x]
           /\ \A x \in Deleters \ {d} : seen'[x] = seen[x] /\ records'[x] = records[x]
           /\ seen'[d] = seen[d] \cup In(target[d], directory)
<1> DEFINE found == In(target[d], directory)
<1> USE DEF TypeOK
<1>1. found \subseteq Captures /\ \A c \in found : StoreOf[c] = target[d]
  BY DEF In
<1>2. seen' = [seen EXCEPT ![d] = @ \cup found]
  BY DEF ReadTarget
<1>3. PICK kept \in OnePerCapture(Foremost(records[d], found)) :
          records' = [records EXCEPT ![d] = kept]
  BY DEF ReadTarget
<1>4. kept \subseteq records[d] \cup found
  BY KeptOfRead
<1>5. QED
  BY <1>1, <1>2, <1>3, <1>4

\* A deletion that reads its store leaves the plans of the others alone.
LEMMA ReadsAlone ==
    ASSUME TypeOK, NEW d \in Deleters, TargetRecords(d)
    PROVE  \A e \in Deleters \ {d} : seen'[e] = seen[e] /\ records'[e] = records[e]
<1>1. PICK directory : ReadTarget(d, directory)
  BY DEF TargetRecords
<1>2. QED
  BY <1>1, ReadTyped

LEMMA TypeInit == Init => TypeOK
  BY DEF Init, TypeOK, StoresInit, StoresTypeOK

\* Where a capture's descriptor is after a step on the stores.
LEMMA DescriptorMoved ==
    ASSUME StoresTypeOK, NEW c \in Captures, NEW from, NEW to, MoveDescriptor(c, from, to)
    PROVE  /\ state[c] = from /\ state'[c] = to /\ cleared' = cleared
           /\ \A x \in Captures \ {c} : state'[x] = state[x]
           /\ DOMAIN state' = Captures
  BY DEF MoveDescriptor, StoresTypeOK

LEMMA DirectoryCleared ==
    ASSUME StoresTypeOK, NEW s, NEW directory, ClearDirectory(s, directory)
    PROVE  /\ \A x \in Captures : state'[x] = IF x \in In(s, directory) THEN "gone" ELSE state[x]
           /\ state' \in [Captures -> {"none", "capturing", "gone"} \cup Directories]
           /\ cleared \subseteq cleared' /\ cleared' \subseteq cleared \cup {s}
  BY DEF ClearDirectory, StoresTypeOK

LEMMA StoresTypeStep == StoresTypeOK /\ [StoresNext]_<<state, cleared>> => StoresTypeOK'
<1> SUFFICES ASSUME StoresTypeOK, [StoresNext]_<<state, cleared>> PROVE StoresTypeOK'
  OBVIOUS
<1>1. ASSUME NEW c \in Captures, Undertake(c) \/ Commit(c) \/ Retain(c) \/ Discard(c)
      PROVE  StoresTypeOK'
  BY <1>1 DEF Undertake, Commit, Retain, Discard, MoveDescriptor, StoresTypeOK, Directories
<1>2. ASSUME NEW s \in Stores, NEW directory \in Directories, ClearDirectory(s, directory)
      PROVE  StoresTypeOK'
  BY <1>2, DirectoryCleared DEF StoresTypeOK
<1>3. QED
  BY <1>1, <1>2 DEF StoresNext, StoresTypeOK

\* Every operation keeps the types, and a plan only has captures of its store.
LEMMA TypeStep == TypeOK /\ [Next]_vars => TypeOK'
<1> SUFFICES ASSUME TypeOK, [Next]_vars PROVE TypeOK'
  OBVIOUS
<1> USE DEF TypeOK, captures, plan
<1>1. CASE UNCHANGED vars
  BY <1>1 DEF vars, StoresTypeOK
<1>2. ASSUME NEW c \in Captures, StartCapture(c) PROVE TypeOK'
  <2>1. StoresTypeOK'
    BY <1>2, StoresTypeStep DEF StartCapture, StoresNext
  <2>2. QED
    BY <1>2, <2>1, AssetsTyped DEF StartCapture
<1>3. ASSUME NEW c \in Captures, WriteDescriptor(c) PROVE TypeOK'
  <2>1. StoresTypeOK'
    BY <1>3, StoresTypeStep DEF WriteDescriptor, StoresNext
  <2>2. QED
    BY <1>3, <2>1 DEF WriteDescriptor
<1>4. ASSUME NEW c \in Captures, Promote(c) \/ Prune(c) PROVE TypeOK'
  <2>1. StoresTypeOK'
    BY <1>4, StoresTypeStep DEF Promote, Prune, StoresNext
  <2>2. QED
    BY <1>4, <2>1, AssetsTyped DEF Promote, Prune
<1>5. ASSUME NEW d \in Deleters, Begin(d) PROVE TypeOK'
  <2>1. begun' \in Nat /\ unbound' \subseteq Captures
    BY <1>5 DEF Begin
  <2>2. target' \in [Deleters -> Stores \cup {None}] /\ cluster' \in [Deleters -> Clusters \cup {{}}]
    BY <1>5 DEF Begin
  <2>3. phase' \in [Deleters -> {"idle", "rendered"} \cup Scanning \cup Executing]
    BY <1>5 DEF Begin, Scanning
  <2>4. \A x \in Deleters : \A c \in seen'[x] : StoreOf[c] = target'[x]
    <3>1. seen[d] = {}
      BY <1>5, AssetsTyped, SelectionAssumption DEF Begin, SelectionAssumption
    <3>2. QED
      BY <1>5, <3>1 DEF Begin
  <2>5. \A x \in Deleters : target'[x] = None <=> phase'[x] = "idle"
    BY <1>5, SelectionAssumption DEF Begin, SelectionAssumption
  <2>6. QED
    BY <1>5, <2>1, <2>2, <2>3, <2>4, <2>5 DEF Begin, StoresTypeOK
<1>6. ASSUME NEW d \in Deleters, TargetRecords(d) PROVE TypeOK'
  <2>1. PICK directory : ReadTarget(d, directory)
    BY <1>6 DEF TargetRecords
  <2>2. /\ phase' \in [Deleters -> {"idle", "rendered"} \cup Scanning \cup Executing]
        /\ unread' \in [Deleters -> SUBSET (Stores \X Directories)]
        /\ \A x \in Deleters : target'[x] = None <=> phase'[x] = "idle"
    BY <1>6 DEF TargetRecords, AfterReading, Scanning
  <2>3. QED
    BY <1>6, <2>1, <2>2, ReadTyped DEF TargetRecords, StoresTypeOK
<1>7. ASSUME NEW d \in Deleters, RetainedReferences(d) PROVE TypeOK'
  <2>1. \A s, x : References(s, x) \subseteq Digests
    BY AssetsTyped DEF References, In
  <2>2. QED
    BY <1>7, <2>1 DEF RetainedReferences, AfterReading, Scanning, StoresTypeOK
<1>8. ASSUME NEW d \in Deleters, Confirm(d) PROVE TypeOK'
  <2>1. CASE End(d)
    BY <1>8, <2>1 DEF Confirm, End, StoresTypeOK
  <2>2. CASE ~End(d)
    BY <1>8, <2>2, PlanTyped DEF Confirm, Executing, StoresTypeOK
  <2>3. QED
    BY <2>1, <2>2
<1>9. ASSUME NEW d \in Deleters, DeleteOnHost(d) PROVE TypeOK'
  BY <1>9, PlanTyped DEF DeleteOnHost, AfterImages, Executing, StoresTypeOK
<1>10. ASSUME NEW d \in Deleters, RemoveImages(d) PROVE TypeOK'
  BY <1>10 DEF RemoveImages, AfterImages, Executing, StoresTypeOK
<1>11. ASSUME NEW d \in Deleters, Fail(d) PROVE TypeOK'
  BY <1>11 DEF Fail, End, StoresTypeOK
<1>12. ASSUME NEW d \in Deleters, ClearGenerations(d) \/ ClearPending(d) PROVE TypeOK'
  <2>1. target[d] \in Stores
    BY <1>12 DEF ClearGenerations, ClearPending
  <2>2. StoresTypeOK' /\ left' \subseteq Hosts \X Assets
    BY <1>12, <2>1, StoresTypeStep
       DEF ClearGenerations, ClearPending, Empty, Unplanned, StoresNext, Directories
  <2>3. CASE ClearGenerations(d)
    BY <2>2, <2>3 DEF ClearGenerations, Executing
  <2>4. CASE ClearPending(d)
    BY <2>2, <2>4 DEF ClearPending, End
  <2>5. QED
    BY <1>12, <2>3, <2>4
<1>13. QED
  BY <1>1, <1>2, <1>3, <1>4, <1>5, <1>6, <1>7, <1>8, <1>9, <1>10, <1>11, <1>12
     DEF Next, Step

\* TypeOK holds of Deletion for all constants: above all, a plan has the
\* captures of its own store only.
THEOREM TypeCorrect == Spec => []TypeOK
<1>1. QED
  BY TypeInit, TypeStep, PTL DEF Spec
-----------------------------------------------------------------------------
(* The stores. *)

LEMMA StoresStep == TypeOK /\ [Next]_vars => [StoresNext]_<<state, cleared>>
<1> SUFFICES ASSUME TypeOK, [Next]_vars PROVE [StoresNext]_<<state, cleared>>
  OBVIOUS
<1> USE DEF captures
<1>1. CASE UNCHANGED vars
  BY <1>1 DEF vars
<1>2. ASSUME NEW c \in Captures,
             StartCapture(c) \/ WriteDescriptor(c) \/ Promote(c) \/ Prune(c)
      PROVE  StoresNext
  BY <1>2 DEF StartCapture, WriteDescriptor, Promote, Prune, StoresNext
<1>3. ASSUME NEW d \in Deleters, ClearGenerations(d) \/ ClearPending(d) PROVE StoresNext
  <2>1. target[d] \in Stores
    BY <1>3 DEF ClearGenerations, ClearPending, TypeOK
  <2>2. PICK directory \in Directories : ClearDirectory(target[d], directory)
    BY <1>3 DEF ClearGenerations, ClearPending, Empty, Directories
  <2>3. QED
    BY <2>1, <2>2 DEF StoresNext
<1>4. ASSUME NEW d \in Deleters, Step(d), ~(ClearGenerations(d) \/ ClearPending(d))
      PROVE  UNCHANGED <<state, cleared>>
  BY <1>4 DEF Step, Begin, TargetRecords, RetainedReferences, Confirm, DeleteOnHost,
              RemoveImages, Fail
<1>5. QED
  BY <1>1, <1>2, <1>3, <1>4 DEF Next

\* Captures and deletions, whatever their interleaving, change the descriptor
\* stores by the steps of DescriptorStores alone, those that ArtifactStore
\* implements file operation by file operation.
THEOREM DeletionKeepsToStores == Spec => StoresSpec
<1>1. Init => StoresInit
  BY DEF Init
<1>2. QED
  BY <1>1, StoresStep, TypeCorrect, PTL DEF Spec, StoresSpec
-----------------------------------------------------------------------------
(* SharedKept: what retains an asset is either read or yet to be read. *)

Live(c) == state[c] = "capturing" \/ Committed(c)
Protected == Captures \ unbound
Reading == {"retaining", "rendered"} \cup Executing

CaptureInv ==
    \A c \in Captures, d \in Deleters :
        state[c] = "capturing" /\ phase[d] # "idle" => c \in unbound

RetainInv ==
    \A d \in Deleters, c \in Protected :
        phase[d] \in Reading /\ Committed(c) /\ StoreOf[c] # target[d] =>
            \/ DigestsOf(c) \subseteq retained[d]
            \/ phase[d] = "retaining" /\ <<StoreOf[c], state[c]>> \in unread[d]

TargetInv ==
    \A d \in Deleters, c \in Captures :
        phase[d] \in Executing /\ StoreOf[c] = target[d] => c \in unbound

ImageInv ==
    \A d \in Deleters : /\ images[d] \subseteq Hosts \X Doomed(d)
                        /\ phase[d] # "images" => images[d] = {}
                        /\ phase[d] = "clearing" => todo[d] = {}

KeptInv == \A c \in Protected : Live(c) => Held(c) \subseteq held

ScanInv == CaptureInv /\ RetainInv /\ TargetInv

LEMMA ScanInit == Init => ScanInv /\ ImageInv /\ KeptInv
<1> SUFFICES ASSUME Init PROVE ScanInv /\ ImageInv /\ KeptInv
  OBVIOUS
<1>1. ScanInv
  BY DEF Init, ScanInv, CaptureInv, RetainInv, TargetInv, Reading, Executing
<1>2. ImageInv /\ KeptInv
  BY DEF Init, ImageInv, KeptInv, Protected, Live, Committed, Directories
<1>3. QED
  BY <1>1, <1>2

\* A capture and its history, when a deletion takes a step of its own.
LEMMA ScanStep == TypeOK /\ ScanInv /\ [Next]_vars => ScanInv'
<1> SUFFICES ASSUME TypeOK, ScanInv, [Next]_vars PROVE ScanInv'
  OBVIOUS
<1> USE DEF ScanInv, CaptureInv, RetainInv, TargetInv, Protected, Committed,
            Directories, Reading, Executing, captures, plan, TypeOK
<1>0. StoresTypeOK
  OBVIOUS
<1>1. CASE UNCHANGED vars
  BY <1>1 DEF vars
<1>2. ASSUME NEW c \in Captures, StartCapture(c) PROVE ScanInv'
  <2>1. /\ state[c] = "none" /\ state'[c] = "capturing"
        /\ \A x \in Captures \ {c} : state'[x] = state[x]
    BY <1>2, DescriptorMoved DEF StartCapture, Undertake
  <2>2. QED
    BY <1>2, <2>1 DEF StartCapture
<1>3. ASSUME NEW c \in Captures, WriteDescriptor(c) PROVE ScanInv'
  <2>1. /\ state[c] = "capturing" /\ state'[c] = "pending"
        /\ \A x \in Captures \ {c} : state'[x] = state[x]
    BY <1>3, DescriptorMoved DEF WriteDescriptor, Commit
  <2>2. QED
    BY <1>3, <2>1 DEF WriteDescriptor
<1>4. ASSUME NEW c \in Captures, Promote(c) PROVE ScanInv'
  <2>1. /\ state[c] = "pending" /\ state'[c] = "generations"
        /\ \A x \in Captures \ {c} : state'[x] = state[x]
    BY <1>4, DescriptorMoved DEF Promote, Retain
  <2>2. CaptureInv' /\ TargetInv'
    BY <1>4, <2>1 DEF Promote
  <2>3. RetainInv'
    <3>1. SUFFICES ASSUME NEW d \in Deleters, NEW x \in Protected',
                          phase[d] \in Reading, Committed(x)', StoreOf[x] # target[d]
                   PROVE  \/ DigestsOf(x) \subseteq retained[d]
                          \/ phase[d] = "retaining" /\ <<StoreOf[x], state'[x]>> \in unread[d]
      BY <1>4 DEF Promote
    <3>2. Committed(x) /\ x \in Protected /\ (x = c => phase[d] # "retaining")
      BY <1>4, <2>1, <3>1 DEF Promote
    <3>3. QED
      BY <2>1, <3>1, <3>2
  <2>4. QED
    BY <2>2, <2>3
<1>12. ASSUME NEW c \in Captures, Prune(c) PROVE ScanInv'
  <2>1. state'[c] = "gone" /\ \A x \in Captures \ {c} : state'[x] = state[x]
    BY <1>12, DescriptorMoved DEF Prune, Discard
  <2>2. QED
    BY <1>12, <2>1 DEF Prune
<1>5. ASSUME NEW d \in Deleters, Begin(d) PROVE ScanInv'
  BY <1>5 DEF Begin
<1>6. ASSUME NEW d \in Deleters, TargetRecords(d) PROVE ScanInv'
  BY <1>6, AssetsTyped DEF TargetRecords, AfterReading
<1>7. ASSUME NEW d \in Deleters, RetainedReferences(d) PROVE ScanInv'
  <2>1. ASSUME NEW c \in Captures
        PROVE  DigestsOf(c) \subseteq References(StoreOf[c], state[c])
    BY DEF References, In
  <2>2. QED
    BY <1>7, <2>1 DEF RetainedReferences, AfterReading
<1>8. ASSUME NEW d \in Deleters, Confirm(d) PROVE ScanInv'
  BY <1>8 DEF Confirm, End
<1>9. ASSUME NEW d \in Deleters, DeleteOnHost(d) \/ RemoveImages(d) PROVE ScanInv'
  BY <1>9 DEF DeleteOnHost, RemoveImages, AfterImages
<1>10. ASSUME NEW d \in Deleters, Fail(d) PROVE ScanInv'
  BY <1>10 DEF Fail, End
<1>11. ASSUME NEW d \in Deleters, ClearGenerations(d) \/ ClearPending(d) PROVE ScanInv'
  <2>1. \A c \in Captures : state'[c] \in {state[c], "gone"}
    BY <1>0, <1>11, DirectoryCleared DEF ClearGenerations, ClearPending, Empty
  <2>2. CaptureInv'
    BY <1>11, <2>1 DEF ClearGenerations, ClearPending, End
  <2>3. TargetInv'
    BY <1>11, <2>1 DEF ClearGenerations, ClearPending, End
  <2>4. RetainInv'
    <3>1. SUFFICES ASSUME NEW e \in Deleters, NEW c \in Protected, phase'[e] \in Reading,
                          Committed(c)', StoreOf[c] # target'[e]
                   PROVE  \/ DigestsOf(c) \subseteq retained'[e]
                          \/ phase'[e] = "retaining" /\ <<StoreOf[c], state'[c]>> \in unread'[e]
      BY <1>11 DEF ClearGenerations, ClearPending
    <3>2. Committed(c) /\ state'[c] = state[c]
      BY <2>1, <3>1
    <3>3. QED
      BY <1>11, <3>1, <3>2 DEF ClearGenerations, ClearPending, End
  <2>5. QED
    BY <2>2, <2>3, <2>4
<1>13. QED
  BY <1>1, <1>2, <1>3, <1>4, <1>5, <1>6, <1>7, <1>8, <1>9, <1>10, <1>11, <1>12
     DEF Next, Step

LEMMA DigestsPlanned ==
    ASSUME NEW d \in Deleters, NEW h \in Hosts
    PROVE  PayloadsAt(d, h) \cup ImagesAt(d, h) \subseteq {h} \X Doomed(d)
  BY DEF PayloadsAt, ImagesAt

\* What a deletion that executes deletes is not of a protected capture.
LEMMA Spared ==
    ASSUME TypeOK, ScanInv, NEW d \in Deleters, phase[d] \in Executing,
           NEW c \in Protected, Live(c)
    PROVE  Held(c) \cap (Hosts \X Doomed(d)) = {}
<1>1. Committed(c)
  BY DEF ScanInv, CaptureInv, Live, Protected, Executing
<1>2. StoreOf[c] # target[d]
  BY DEF ScanInv, TargetInv, Protected
<1>3. DigestsOf(c) \subseteq retained[d]
  BY <1>1, <1>2 DEF ScanInv, RetainInv, Reading, Executing
<1>4. \A x \in Held(c) : DigestOf[x[2]] \in retained[d]
  BY <1>3 DEF Held, DigestsOf
<1>5. \A x \in Hosts \X Doomed(d) : DigestOf[x[2]] \notin retained[d]
  BY DEF Doomed
<1>6. QED
  BY <1>4, <1>5

LEMMA ImageStep == TypeOK /\ ImageInv /\ [Next]_vars => ImageInv'
<1> SUFFICES ASSUME TypeOK, ImageInv, [Next]_vars PROVE ImageInv'
  OBVIOUS
<1> USE DEF ImageInv, Doomed, captures, plan, TypeOK
<1>1. CASE UNCHANGED vars
  BY <1>1 DEF vars
<1>2. ASSUME NEW c \in Captures,
             StartCapture(c) \/ WriteDescriptor(c) \/ Promote(c) \/ Prune(c)
      PROVE  ImageInv'
  BY <1>2 DEF StartCapture, WriteDescriptor, Promote, Prune
<1>3. ASSUME NEW d \in Deleters, Begin(d) \/ RetainedReferences(d) PROVE ImageInv'
  BY <1>3 DEF Begin, RetainedReferences, AfterReading
<1>4. ASSUME NEW d \in Deleters, TargetRecords(d) PROVE ImageInv'
  <2>1. images[d] = {} /\ UNCHANGED <<images, todo, retained>>
    BY <1>4 DEF TargetRecords
  <2>2. phase'[d] \notin {"images", "clearing"}
    BY <1>4 DEF TargetRecords, AfterReading
  <2>3. \A e \in Deleters \ {d} : phase'[e] = phase[e]
    BY <1>4 DEF TargetRecords
  <2>4. \A e \in Deleters \ {d} : Doomed(e)' = Doomed(e)
    BY <1>4, <2>1, ReadsAlone
  <2>5. QED
    BY <2>1, <2>2, <2>3, <2>4
<1>5. ASSUME NEW d \in Deleters, End(d) PROVE ImageInv'
  BY <1>5 DEF End
<1>6. ASSUME NEW d \in Deleters, Confirm(d), ~End(d) PROVE ImageInv'
  BY <1>6 DEF Confirm
<1>7. ASSUME NEW d \in Deleters, DeleteOnHost(d) PROVE ImageInv'
  <2>1. PICK h \in todo[d] : images' = [images EXCEPT ![d] = ImagesAt(d, h)]
    BY <1>7 DEF DeleteOnHost
  <2>2. ImagesAt(d, h) \subseteq Hosts \X Doomed(d)
    BY <2>1, DigestsPlanned
  <2>3. QED
    BY <1>7, <2>1, <2>2 DEF DeleteOnHost, AfterImages
<1>8. ASSUME NEW d \in Deleters, RemoveImages(d) PROVE ImageInv'
  BY <1>8 DEF RemoveImages, AfterImages
<1>9. ASSUME NEW d \in Deleters, ClearGenerations(d) PROVE ImageInv'
  BY <1>9 DEF ClearGenerations
<1>10. QED
  BY <1>1, <1>2, <1>3, <1>4, <1>5, <1>6, <1>7, <1>8, <1>9
     DEF Next, Step, Fail, ClearPending

LEMMA KeptStep ==
    TypeOK /\ ScanInv /\ ImageInv /\ KeptInv /\ [Next]_vars => KeptInv'
<1> SUFFICES ASSUME TypeOK, ScanInv, ImageInv, KeptInv, [Next]_vars PROVE KeptInv'
  OBVIOUS
<1> USE DEF KeptInv, Protected, Live, Committed, Directories, captures, plan
<1>1. CASE UNCHANGED vars
  BY <1>1 DEF vars, Held
<1>2. ASSUME NEW c \in Captures, StartCapture(c) PROVE KeptInv'
  <2>1. \A x \in Captures \ {c} : state'[x] = state[x]
    BY <1>2, DescriptorMoved DEF StartCapture, Undertake, TypeOK
  <2>2. QED
    BY <1>2, <2>1 DEF StartCapture, Held
\* A step on the stores that has no capture begin.
<1>3. ASSUME \A x \in Captures : Live(x)' => Live(x), held' = held, unbound \subseteq unbound'
      PROVE  KeptInv'
  BY <1>3 DEF Held
<1>4. ASSUME NEW c \in Captures, WriteDescriptor(c) \/ Promote(c) \/ Prune(c) PROVE KeptInv'
  <2>1. \A x \in Captures : Live(x)' => Live(x)
    BY <1>4, DescriptorMoved
       DEF WriteDescriptor, Promote, Prune, Commit, Retain, Discard, TypeOK
  <2>2. QED
    BY <1>3, <1>4, <2>1 DEF WriteDescriptor, Promote, Prune
\* A deletion only removes what it is bound to delete.
<1>5. ASSUME NEW d \in Deleters, phase[d] \in Executing,
             held \ (Hosts \X Doomed(d)) \subseteq held',
             UNCHANGED <<state, unbound>>
      PROVE  KeptInv'
  <2> SUFFICES ASSUME NEW c \in Protected, Live(c) PROVE Held(c) \subseteq held'
    BY <1>5 DEF Held
  <2>1. Held(c) \subseteq held /\ Held(c) \cap (Hosts \X Doomed(d)) = {}
    BY <1>5, Spared
  <2>2. QED
    BY <1>5, <2>1
<1>6. ASSUME NEW d \in Deleters, DeleteOnHost(d) PROVE KeptInv'
  <2>1. held \ (Hosts \X Doomed(d)) \subseteq held'
    BY <1>6, DigestsPlanned DEF DeleteOnHost, TypeOK
  <2>2. QED
    BY <1>5, <1>6, <2>1 DEF DeleteOnHost, Executing
<1>7. ASSUME NEW d \in Deleters, RemoveImages(d) PROVE KeptInv'
  <2>1. held \ (Hosts \X Doomed(d)) \subseteq held'
    BY <1>7 DEF RemoveImages, ImageInv
  <2>2. QED
    BY <1>5, <1>7, <2>1 DEF RemoveImages, Executing
<1>8. ASSUME NEW d \in Deleters, Fail(d) PROVE KeptInv'
  <2>1. CASE UNCHANGED held
    BY <1>8, <2>1 DEF Fail, Held
  <2>2. CASE phase[d] = "hosts" /\ \E h \in todo[d] :
                \E part \in SUBSET PayloadsAt(d, h) : held' = held \ part
    <3>1. held \ (Hosts \X Doomed(d)) \subseteq held'
      BY <2>2, DigestsPlanned DEF TypeOK
    <3>2. QED
      BY <1>5, <1>8, <2>2, <3>1 DEF Fail, Executing
  <2>3. QED
    BY <1>8, <2>1, <2>2 DEF Fail
<1>9. ASSUME NEW d \in Deleters, ClearGenerations(d) \/ ClearPending(d) PROVE KeptInv'
  <2>1. \A x \in Captures : Live(x)' => Live(x)
    BY <1>9, DirectoryCleared DEF ClearGenerations, ClearPending, Empty, TypeOK
  <2>2. QED
    BY <1>3, <1>9, <2>1 DEF ClearGenerations, ClearPending
<1>10. ASSUME NEW d \in Deleters,
              Begin(d) \/ TargetRecords(d) \/ RetainedReferences(d) \/ Confirm(d)
       PROVE  KeptInv'
  BY <1>10 DEF Begin, TargetRecords, RetainedReferences, Confirm, Held
<1>11. QED
  BY <1>1, <1>2, <1>4, <1>6, <1>7, <1>8, <1>9, <1>10 DEF Next, Step

\* SharedKept holds: a deletion retains whatever a capture of another store
\* needs, if its descriptor was there and stayed in place while it was read.
THEOREM SharedKeptAlways == Spec => []SharedKept
<1>1. Init => TypeOK /\ ScanInv /\ ImageInv /\ KeptInv
  BY TypeInit, ScanInit
<1>2. TypeOK /\ ScanInv /\ ImageInv /\ KeptInv /\ [Next]_vars
        => (TypeOK /\ ScanInv /\ ImageInv /\ KeptInv)'
  BY TypeStep, ScanStep, ImageStep, KeptStep
<1>3. KeptInv => SharedKept
  BY DEF KeptInv, SharedKept, Protected, Live
<1>4. QED
  BY <1>1, <1>2, <1>3, PTL DEF Spec
-----------------------------------------------------------------------------
(* NoOrphan: what a deletion is through with is held again only for a       *)
(* capture that is not in its plan.                                         *)

\* Deletion d has deleted x, as its plan says.
Through(d, x) ==
    /\ phase[d] \in Executing
    /\ x \in Planned(d)
    /\ x[1] \notin todo[d] /\ x \notin images[d]

\* c accounts for x, and no deletion that is through with x will drop it.
Accounts(c, x) ==
    /\ Live(c) /\ x \in Held(c)
    /\ \A d \in Deleters : Through(d, x) => c \notin seen[d]

AccountInv == \A x \in held \ left : \E c \in Captures : Accounts(c, x)

RecordInv ==
    \A d \in Deleters : \A c \in seen[d] : state[c] \notin {"none", "capturing"}

LEMMA RecordStep == TypeOK /\ RecordInv /\ [Next]_vars => RecordInv'
<1> SUFFICES ASSUME TypeOK, RecordInv, [Next]_vars PROVE RecordInv'
  OBVIOUS
<1> USE DEF RecordInv, TypeOK, captures, plan
<1>0. StoresTypeOK
  OBVIOUS
<1>1. CASE UNCHANGED vars
  BY <1>1 DEF vars
<1>2. ASSUME NEW c \in Captures, StartCapture(c) PROVE RecordInv'
  <2>1. state[c] = "none" /\ \A x \in Captures \ {c} : state'[x] = state[x]
    BY <1>0, <1>2, DescriptorMoved DEF StartCapture, Undertake
  <2>2. QED
    BY <1>2, <2>1 DEF StartCapture
<1>3. ASSUME NEW c \in Captures, WriteDescriptor(c) \/ Promote(c) \/ Prune(c) PROVE RecordInv'
  <2>1. \A x \in Captures : state'[x] \in {"none", "capturing"} => state[x] = state'[x]
    BY <1>0, <1>3, DescriptorMoved DEF WriteDescriptor, Promote, Prune, Commit, Retain, Discard
  <2>2. QED
    BY <1>3, <2>1 DEF WriteDescriptor, Promote, Prune
<1>4. ASSUME NEW d \in Deleters, TargetRecords(d) PROVE RecordInv'
  <2>1. PICK directory \in Directories : ReadTarget(d, directory)
    BY <1>4 DEF TargetRecords, Directories
  <2>2. QED
    BY <1>4, <2>1, ReadTyped DEF TargetRecords, In, Directories
<1>5. ASSUME NEW d \in Deleters, Begin(d) \/ RetainedReferences(d) \/ DeleteOnHost(d)
                                       \/ RemoveImages(d)
      PROVE  RecordInv'
  BY <1>5 DEF Begin, RetainedReferences, DeleteOnHost, RemoveImages
<1>6. ASSUME NEW d \in Deleters, Confirm(d) \/ Fail(d) PROVE RecordInv'
  BY <1>6 DEF Confirm, Fail, End
<1>7. ASSUME NEW d \in Deleters, ClearGenerations(d) \/ ClearPending(d) PROVE RecordInv'
  <2>1. \A c \in Captures : state'[c] \in {state[c], "gone"}
    BY <1>0, <1>7, DirectoryCleared DEF ClearGenerations, ClearPending, Empty
  <2>2. QED
    BY <1>7, <2>1 DEF ClearGenerations, ClearPending, End
<1>8. QED
  BY <1>1, <1>2, <1>3, <1>4, <1>5, <1>6, <1>7 DEF Next, Step

\* What a plan has for a host is what its two steps there delete.
LEMMA PlannedAt ==
    ASSUME NEW d \in Deleters, NEW x \in Planned(d)
    PROVE  /\ x[1] \in PlanHosts(d)
           /\ x \in PayloadsAt(d, x[1]) \cup ImagesAt(d, x[1])
<1>1. PICK h \in PlanHosts(d) : x \in ImagesAt(d, h) \cup PayloadsAt(d, h)
  BY DEF Planned
<1>2. x[1] = h
  BY <1>1 DEF ImagesAt, PayloadsAt
<1>3. QED
  BY <1>1, <1>2

LEMMA SamePlan ==
    ASSUME NEW d \in Deleters, records'[d] = records[d],
           retained'[d] = retained[d], cluster'[d] = cluster[d]
    PROVE  Planned(d)' = Planned(d)
<1>1. Doomed(d)' = Doomed(d)
  BY DEF Doomed
<1>2. \A c : Contacted(d, c)' = Contacted(d, c)
  BY DEF Contacted
<1>3. PlanHosts(d)' = PlanHosts(d)
  BY <1>1, <1>2 DEF PlanHosts
<1>4. \A h : ImagesAt(d, h)' = ImagesAt(d, h) /\ PayloadsAt(d, h)' = PayloadsAt(d, h)
  BY <1>1, <1>2 DEF ImagesAt, PayloadsAt
<1>5. QED
  BY <1>3, <1>4 DEF Planned

\* A deletion that does not move stays through with what it was through with.
LEMMA SameThrough ==
    ASSUME NEW d \in Deleters, phase'[d] = phase[d], todo'[d] = todo[d],
           images'[d] = images[d], records'[d] = records[d],
           retained'[d] = retained[d], cluster'[d] = cluster[d]
    PROVE  \A x : Through(d, x)' <=> Through(d, x)
<1>1. Planned(d)' = Planned(d)
  BY SamePlan
<1>2. QED
  BY <1>1 DEF Through

\* A step that adds nothing to what is held, drops no descriptor and gets no
\* deletion through with more than it deletes.
LEMMA AccountKept ==
    ASSUME AccountInv, held' \subseteq held, left' = left,
           \A c \in Captures : Live(c) => Live(c)',
           \A d \in Deleters : \A x \in held' : Through(d, x)' =>
               Through(d, x) /\ seen'[d] = seen[d]
    PROVE  AccountInv'
<1> SUFFICES ASSUME NEW x \in held', x \notin left'
             PROVE  \E c \in Captures : Accounts(c, x)'
  BY DEF AccountInv
<1>1. PICK c \in Captures : Accounts(c, x)
  BY DEF AccountInv
<1>2. Live(c)' /\ (x \in Held(c))'
  BY <1>1 DEF Accounts, Held
<1>3. \A d \in Deleters : Through(d, x)' => c \notin seen'[d]
  BY <1>1 DEF Accounts
<1>4. Accounts(c, x)'
  BY <1>2, <1>3 DEF Accounts
<1>5. QED
  BY <1>4

\* The same for a step of deletion d that leaves captures alone.
LEMMA AccountDeletion ==
    ASSUME TypeOK, AccountInv, NEW d \in Deleters, held' \subseteq held,
           UNCHANGED <<state, left>>,
           \A e \in Deleters \ {d} :
               /\ phase'[e] = phase[e] /\ todo'[e] = todo[e] /\ images'[e] = images[e]
               /\ records'[e] = records[e] /\ retained'[e] = retained[e]
               /\ cluster'[e] = cluster[e] /\ seen'[e] = seen[e],
           \A x \in held' : Through(d, x)' => Through(d, x) /\ seen'[d] = seen[d]
    PROVE  AccountInv'
<1>1. \A e \in Deleters : \A x \in held' : Through(e, x)' =>
          Through(e, x) /\ seen'[e] = seen[e]
  BY SameThrough
<1>2. \A c \in Captures : Live(c) => Live(c)'
  BY DEF Live, Committed
<1>3. QED
  BY <1>1, <1>2, AccountKept

LEMMA AccountStep ==
    TypeOK /\ ImageInv /\ RecordInv /\ AccountInv /\ [Next]_vars => AccountInv'
<1> SUFFICES ASSUME TypeOK, ImageInv, RecordInv, AccountInv, [Next]_vars
             PROVE  AccountInv'
  OBVIOUS
<1> USE DEF captures, plan
<1>0. StoresTypeOK
  BY DEF TypeOK
<1>1. CASE UNCHANGED vars
  <2>1. \A e \in Deleters : \A x : Through(e, x)' <=> Through(e, x)
    BY <1>1, SameThrough DEF vars
  <2>2. QED
    BY <1>1, <2>1, AccountKept DEF vars, Live, Committed
<1>2. ASSUME NEW c \in Captures, StartCapture(c) PROVE AccountInv'
  <2>1. \A e \in Deleters : \A x : Through(e, x)' <=> Through(e, x)
    BY <1>2, SameThrough DEF StartCapture
  <2>2. \A e \in Captures : Live(e) => Live(e)'
    BY <1>0, <1>2, DescriptorMoved DEF StartCapture, Undertake, Live, Committed, Directories
  <2>3. Live(c)' /\ \A d \in Deleters : c \notin seen'[d]
    BY <1>0, <1>2, DescriptorMoved DEF StartCapture, Undertake, Live, RecordInv
  <2>4. ASSUME NEW x \in held', x \notin left' PROVE \E e \in Captures : Accounts(e, x)'
    <3>1. CASE x \in Held(c)
      BY <2>3, <3>1 DEF Accounts, Held
    <3>2. CASE x \in held
      <4>1. PICK e \in Captures : Accounts(e, x)
        BY <1>2, <2>4, <3>2 DEF StartCapture, AccountInv
      <4>2. Accounts(e, x)'
        BY <1>2, <2>1, <2>2, <4>1 DEF StartCapture, Accounts, Held
      <4>3. QED
        BY <4>2
    <3>3. QED
      BY <1>2, <2>4, <3>1, <3>2 DEF StartCapture
  <2>5. QED
    BY <2>4 DEF AccountInv
<1>3. ASSUME NEW c \in Captures, WriteDescriptor(c) \/ Promote(c) PROVE AccountInv'
  <2>1. \A e \in Deleters : \A x : Through(e, x)' <=> Through(e, x)
    BY <1>3, SameThrough DEF WriteDescriptor, Promote
  <2>2. \A e \in Captures : Live(e) => Live(e)'
    BY <1>0, <1>3, DescriptorMoved
       DEF WriteDescriptor, Promote, Commit, Retain, Live, Committed, Directories
  <2>3. QED
    BY <1>3, <2>1, <2>2, AccountKept DEF WriteDescriptor, Promote
<1>4. ASSUME NEW c \in Captures, Prune(c) PROVE AccountInv'
  <2>1. \A e \in Captures \ {c} : state'[e] = state[e]
    BY <1>0, <1>4, DescriptorMoved DEF Prune, Discard
  <2>2. \A e \in Deleters : \A x : Through(e, x)' <=> Through(e, x)
    BY <1>4, SameThrough DEF Prune
  <2>3. ASSUME NEW x \in held', x \notin left' PROVE \E e \in Captures : Accounts(e, x)'
    <3>1. PICK e \in Captures : Accounts(e, x)
      BY <1>4, <2>3 DEF Prune, AccountInv
    <3>2. e # c
      BY <1>4, <2>3, <3>1 DEF Accounts, Prune
    <3>3. Live(e)'
      BY <2>1, <3>1, <3>2 DEF Accounts, Live, Committed
    <3>4. Accounts(e, x)'
      BY <1>4, <2>2, <3>1, <3>3 DEF Prune, Accounts, Held
    <3>5. QED
      BY <3>4
  <2>4. QED
    BY <2>3 DEF AccountInv
<1>5. ASSUME NEW d \in Deleters, Begin(d) \/ TargetRecords(d) \/ RetainedReferences(d)
      PROVE  AccountInv'
  <2>1. phase'[d] \notin Executing
    BY <1>5 DEF Begin, TargetRecords, RetainedReferences, AfterReading, TypeOK, Executing
  <2>2. ~\E x : Through(d, x)'
    BY <2>1 DEF Through
  <2>3. QED
    BY <1>5, <2>2, ReadsAlone, AccountDeletion DEF Begin, TargetRecords, RetainedReferences, TypeOK
<1>6. ASSUME NEW d \in Deleters, End(d), UNCHANGED <<state, left>>, held' \subseteq held
      PROVE  AccountInv'
  <2>1. ~\E x : Through(d, x)'
    BY <1>6 DEF End, Through, TypeOK, Executing
  <2>2. QED
    BY <1>6, <2>1, AccountDeletion DEF End, TypeOK
<1>7. ASSUME NEW d \in Deleters, Confirm(d), ~End(d) PROVE AccountInv'
  <2>1. Planned(d)' = Planned(d) /\ todo'[d] = PlanHosts(d)
    BY <1>7, SamePlan DEF Confirm, TypeOK
  <2>2. ~\E x : Through(d, x)'
    BY <2>1, PlannedAt DEF Through
  <2>3. QED
    BY <1>7, <2>2, AccountDeletion DEF Confirm, TypeOK
<1>8. ASSUME NEW d \in Deleters, DeleteOnHost(d) PROVE AccountInv'
  <2>1. PICK h \in todo[d] : /\ held' = held \ PayloadsAt(d, h)
                             /\ todo' = [todo EXCEPT ![d] = @ \ {h}]
                             /\ images' = [images EXCEPT ![d] = ImagesAt(d, h)]
    BY <1>8 DEF DeleteOnHost
  <2>2. Planned(d)' = Planned(d)
    BY <1>8, SamePlan DEF DeleteOnHost
  <2>3. ASSUME NEW x \in held', Through(d, x)' PROVE Through(d, x)
    <3>1. x \in Planned(d) /\ x[1] \notin todo[d] \ {h} /\ x \notin ImagesAt(d, h)
      BY <2>1, <2>2, <2>3 DEF Through, TypeOK
    <3>2. x[1] # h
      BY <2>1, <3>1, PlannedAt
    <3>3. QED
      BY <1>8, <3>1, <3>2 DEF Through, DeleteOnHost, ImageInv, Executing
  <2>4. QED
    BY <1>8, <2>1, <2>3, AccountDeletion DEF DeleteOnHost, TypeOK
<1>9. ASSUME NEW d \in Deleters, RemoveImages(d) PROVE AccountInv'
  <2>1. Planned(d)' = Planned(d)
    BY <1>9, SamePlan DEF RemoveImages
  <2>2. \A x \in held' : x \notin images'[d] => x \notin images[d]
    BY <1>9 DEF RemoveImages, TypeOK
  <2>3. \A x \in held' : Through(d, x)' => Through(d, x)
    BY <1>9, <2>1, <2>2 DEF Through, RemoveImages, Executing
  <2>4. QED
    BY <1>9, <2>3, AccountDeletion DEF RemoveImages, TypeOK
\* Clearing a directory: deletion d is through with all of its plan.
<1>10. ASSUME NEW d \in Deleters, NEW directory, Empty(d, directory),
              phase[d] \in Executing, todo[d] = {}, images[d] = {}, held' = held,
              \A e \in Deleters : \A x : Through(e, x)' =>
                  Through(e, x) /\ seen'[e] = seen[e]
       PROVE  AccountInv'
  <2> DEFINE dropped == In(target[d], directory)
  <2>1. /\ \A c \in Captures \ dropped : state'[c] = state[c]
        /\ left' = left \cup Unplanned(d, dropped)
    BY <1>0, <1>10, DirectoryCleared DEF Empty
  <2>2. ASSUME NEW x \in held', x \notin left' PROVE \E c \in Captures : Accounts(c, x)'
    <3>1. PICK c \in Captures : Accounts(c, x)
      BY <1>10, <2>1, <2>2 DEF AccountInv
    <3>2. x \in Planned(d) => Through(d, x)
      BY <1>10 DEF Through
    <3>3. x \in Hosts \X Assets
      BY <1>10, <2>2 DEF TypeOK
    <3>4. c \notin dropped
      BY <2>1, <2>2, <3>1, <3>2, <3>3 DEF Accounts, Unplanned
    <3>5. Live(c)'
      BY <2>1, <3>1, <3>4 DEF Accounts, Live, Committed
    <3>6. Accounts(c, x)'
      BY <1>10, <3>1, <3>5 DEF Accounts, Held
    <3>7. QED
      BY <3>6
  <2>3. QED
    BY <2>2 DEF AccountInv
<1>12. ASSUME NEW d \in Deleters, ClearGenerations(d) PROVE AccountInv'
  <2>1. Planned(d)' = Planned(d)
    BY <1>12, SamePlan DEF ClearGenerations
  <2>2. \A x : Through(d, x)' => Through(d, x)
    BY <1>12, <2>1 DEF ClearGenerations, Through, Executing
  <2>3. \A e \in Deleters \ {d} : \A x : Through(e, x)' <=> Through(e, x)
    BY <1>12, SameThrough DEF ClearGenerations, TypeOK
  <2>4. images[d] = {}
    BY <1>12 DEF ClearGenerations, ImageInv
  <2>5. QED
    BY <1>10, <1>12, <2>2, <2>3, <2>4 DEF ClearGenerations, Executing
<1>13. ASSUME NEW d \in Deleters, ClearPending(d) PROVE AccountInv'
  <2>1. ~\E x : Through(d, x)'
    BY <1>13 DEF ClearPending, End, Through, TypeOK, Executing
  <2>2. \A e \in Deleters \ {d} : \A x : Through(e, x)' => Through(e, x) /\ seen'[e] = seen[e]
    BY <1>13, SameThrough DEF ClearPending, End, TypeOK
  <2>3. images[d] = {} /\ todo[d] = {}
    BY <1>13 DEF ClearPending, ImageInv
  <2>4. QED
    BY <1>10, <1>13, <2>1, <2>2, <2>3 DEF ClearPending, Executing
<1>11. ASSUME NEW d \in Deleters, Fail(d) \/ (Confirm(d) /\ End(d)) PROVE AccountInv'
  BY <1>6, <1>11 DEF Fail, Confirm
<1>14. QED
  BY <1>1, <1>2, <1>3, <1>4, <1>5, <1>7, <1>8, <1>9, <1>11, <1>12, <1>13 DEF Next, Step

\* NoOrphan holds: a deletion, failed or complete, leaves nothing without a
\* descriptor but what its plan never had.
THEOREM NoOrphanAlways == Spec => []NoOrphan
<1>1. Init => TypeOK /\ ImageInv /\ RecordInv /\ AccountInv
  <2>1. Init => RecordInv /\ AccountInv
    BY DEF Init, RecordInv, AccountInv
  <2>2. QED
    BY <2>1, TypeInit, ScanInit
<1>2. TypeOK /\ ImageInv /\ RecordInv /\ AccountInv /\ [Next]_vars
        => (TypeOK /\ ImageInv /\ RecordInv /\ AccountInv)'
  BY TypeStep, ImageStep, RecordStep, AccountStep
<1>3. AccountInv => NoOrphan
  BY DEF AccountInv, NoOrphan, Accounts, Live
<1>4. QED
  BY <1>1, <1>2, <1>3, PTL DEF Spec
-----------------------------------------------------------------------------
(* The scopes composed: what a deletion does beside the registry is a step   *)
(* of the local one.                                                         *)

\* The part of PublishedTypeOK that is not of Deletion.
RemoteTypeOK ==
    /\ registry \subseteq Places /\ adrift \subseteq Places
    /\ tagged \subseteq Publications
    /\ tag \in [Stores -> Publications \cup {None}]
    /\ \A s \in Stores : tag[s] # None => tag[s] \in tagged /\ StoreOf[tag[s]] = s
    /\ scope \in [Deleters -> Scopes]
    /\ stage \in [Deleters -> Stages \cup {"none"}]
    /\ \A d \in Deleters : stage[d] # "none" => phase[d] = "hosts" /\ scope[d] # "local"
    /\ listed \in [Deleters -> SUBSET Places]

LEMMA PublishedTypeSplit == PublishedTypeOK <=> TypeOK /\ RemoteTypeOK
  BY DEF PublishedTypeOK, RemoteTypeOK

LEMMA PublicationTyped ==
    ASSUME NEW q \in Publications
    PROVE  q \in Captures /\ q # None /\ RemoteOf[q] \subseteq Places /\ StoreOf[q] \in Stores
<1>1. q \in Captures /\ q # None
  BY PublicationAssumption DEF PublicationAssumption
<1>2. QED
  BY <1>1, AssetsTyped DEF Places

\* The end of a published deletion is, to the local one, a deletion that stops
\* before its first host.
LEMMA LocalStep == PublishedTypeOK /\ [PublishedNext]_allVars => [Next]_vars
<1> SUFFICES ASSUME PublishedTypeOK, [PublishedNext]_allVars PROVE [Next]_vars
  OBVIOUS
<1>1. CASE UNCHANGED allVars
  BY <1>1 DEF allVars
<1>2. ASSUME NEW c \in Captures, RunCapture(c) \/ PromoteAny(c) \/ PruneAny(c) PROVE Next
  BY <1>2 DEF RunCapture, PromoteAny, PruneAny, Next
<1>3. ASSUME NEW q \in Publications,
             StartPublication(q) \/ WritePublication(q) \/ PushDescriptor(q)
      PROVE  [Next]_vars
  BY <1>3, PublicationTyped DEF StartPublication, WritePublication, PushDescriptor, Next
<1>4. ASSUME NEW d \in Deleters, Delete(d) PROVE [Next]_vars
  <2>1. CASE Render(d) \/ ConfirmAny(d) \/ FailAny(d) \/ RemoveStoreLast(d) \/ DeleteLocally(d)
    BY <2>1 DEF Render, ConfirmAny, FailAny, RemoveStoreLast, DeleteLocally, Next, Step
  <2>2. CASE DeleteCapsuleTags(d) \/ DeletePublishedPayloads(d)
    BY <2>2 DEF DeleteCapsuleTags, DeletePublishedPayloads
  <2>3. CASE DeleteDescriptorTag(d)
    <3>1. phase[d] = "hosts"
      BY <2>3 DEF DeleteDescriptorTag, PublishedTypeOK
    <3>2. UNCHANGED vars \/ (End(d) /\ UNCHANGED <<captures, held, unbound, begun>>)
      BY <2>3 DEF DeleteDescriptorTag
    <3>3. UNCHANGED vars \/ Fail(d)
      BY <3>1, <3>2 DEF Fail
    <3>4. QED
      BY <3>3 DEF Next, Step
  <2>4. QED
    BY <1>4, <2>1, <2>2, <2>3 DEF Delete
<1>5. QED
  BY <1>1, <1>2, <1>3, <1>4 DEF PublishedNext

LEMMA RemoteTypeStep ==
    TypeOK /\ RemoteTypeOK /\ [PublishedNext]_allVars => RemoteTypeOK'
<1> SUFFICES ASSUME TypeOK, RemoteTypeOK, [PublishedNext]_allVars PROVE RemoteTypeOK'
  OBVIOUS
<1> USE DEF RemoteTypeOK, remoteVars, captures, plan
<1>1. CASE UNCHANGED allVars
  BY <1>1 DEF allVars, vars
<1>2. ASSUME NEW c \in Captures, RunCapture(c) PROVE RemoteTypeOK'
  BY <1>2 DEF RunCapture, StartCapture, WriteDescriptor
<1>3. ASSUME NEW c \in Captures, PromoteAny(c) \/ PruneAny(c) PROVE RemoteTypeOK'
  BY <1>3, AssetsTyped DEF PromoteAny, PruneAny, Promote, Prune, Places
<1>4. ASSUME NEW q \in Publications, StartPublication(q) \/ WritePublication(q)
      PROVE  RemoteTypeOK'
  BY <1>4, PublicationTyped
     DEF StartPublication, WritePublication, StartCapture, WriteDescriptor
<1>5. ASSUME NEW q \in Publications, PushDescriptor(q) PROVE RemoteTypeOK'
  BY <1>5, PublicationTyped DEF PushDescriptor, vars
<1>6. ASSUME NEW d \in Deleters, Render(d) PROVE RemoteTypeOK'
  <2>1. phase[d] # "hosts" /\ \A e \in Deleters \ {d} : phase'[e] = phase[e]
    BY <1>6 DEF Render, Begin, TargetRecords, RetainedReferences, TypeOK
  <2>2. QED
    BY <1>6, <2>1 DEF Render
\* A deletion that moves, and is done with the registry.
<1>7. ASSUME NEW d \in Deleters, Leave(d), UNCHANGED <<registry, tagged>>,
             tag' \in [Stores -> Publications \cup {None}],
             \A s \in Stores : tag'[s] \in {tag[s], None}, adrift' \subseteq Places,
             \A e \in Deleters \ {d} : phase'[e] = phase[e]
      PROVE  RemoteTypeOK'
  BY <1>7 DEF Leave, Scopes
<1>8. ASSUME NEW d \in Deleters, ConfirmAny(d) PROVE RemoteTypeOK'
  <2>1. \A e \in Deleters \ {d} : phase'[e] = phase[e]
    BY <1>8 DEF ConfirmAny, Confirm, End, TypeOK
  <2>2. CASE Leave(d)
    BY <1>7, <1>8, <2>1, <2>2 DEF ConfirmAny
  <2>3. CASE ~Leave(d)
    <3>1. Listed(d) \subseteq Places
      BY AssetsTyped DEF Listed, Places, TypeOK
    <3>2. QED
      BY <1>8, <2>1, <2>3, <3>1 DEF ConfirmAny, Stages
  <2>4. QED
    BY <2>2, <2>3
<1>9. ASSUME NEW d \in Deleters, DeleteCapsuleTags(d) \/ DeletePublishedPayloads(d)
      PROVE  RemoteTypeOK'
  BY <1>9 DEF DeleteCapsuleTags, DeletePublishedPayloads, vars, Stages
<1>10. ASSUME NEW d \in Deleters, DeleteDescriptorTag(d) PROVE RemoteTypeOK'
  <2>1. /\ tag' \in [Stores -> Publications \cup {None}]
        /\ \A s \in Stores : tag'[s] \in {tag[s], None}
    BY <1>10 DEF DeleteDescriptorTag
  <2>2. CASE scope[d] = "both" /\ UNCHANGED vars
    BY <1>10, <2>1, <2>2 DEF DeleteDescriptorTag, vars
  <2>3. CASE End(d) /\ Leave(d)
    BY <1>7, <1>10, <2>1, <2>3 DEF DeleteDescriptorTag, End, TypeOK
  <2>4. QED
    BY <1>10, <2>2, <2>3 DEF DeleteDescriptorTag
<1>11. ASSUME NEW d \in Deleters, DeleteLocally(d) PROVE RemoteTypeOK'
  <2>1. \A e \in Deleters \ {d} : phase'[e] = phase[e]
    BY <1>11 DEF DeleteLocally, DeleteOnHost, RemoveImages, TypeOK
  <2>2. QED
    BY <1>11, <2>1 DEF DeleteLocally
<1>12. ASSUME NEW d \in Deleters, FailAny(d) PROVE RemoteTypeOK'
  BY <1>7, <1>12 DEF FailAny, Fail, End, TypeOK
<1>13. ASSUME NEW d \in Deleters, RemoveStoreLast(d) PROVE RemoteTypeOK'
  <2>1. adrift' \subseteq Places
    BY <1>13, PublicationTyped DEF RemoveStoreLast
  <2>2. CASE ClearGenerations(d) /\ UNCHANGED <<scope, stage, listed>>
    <3>1. stage[d] = "none" /\ \A e \in Deleters \ {d} : phase'[e] = phase[e]
      BY <1>13, <2>2 DEF RemoveStoreLast, ClearGenerations, TypeOK
    <3>2. QED
      BY <1>13, <2>1, <2>2, <3>1 DEF RemoveStoreLast
  <2>3. CASE ClearPending(d) /\ Leave(d)
    BY <1>7, <1>13, <2>1, <2>3 DEF RemoveStoreLast, ClearPending, End, TypeOK
  <2>4. QED
    BY <1>13, <2>2, <2>3 DEF RemoveStoreLast
<1>14. QED
  BY <1>1, <1>2, <1>3, <1>4, <1>5, <1>6, <1>8, <1>9, <1>10, <1>11, <1>12, <1>13
     DEF PublishedNext, Delete

LEMMA PublishedTypeInit == PublishedInit => PublishedTypeOK
  BY TypeInit DEF PublishedInit, PublishedTypeOK, Scopes

LEMMA PublishedTypeStep ==
    PublishedTypeOK /\ [PublishedNext]_allVars => PublishedTypeOK'
<1>1. (TypeOK /\ RemoteTypeOK)' => PublishedTypeOK'
  BY DEF PublishedTypeOK, RemoteTypeOK
<1>2. QED
  BY <1>1, TypeStep, LocalStep, RemoteTypeStep, PublishedTypeSplit

\* PublishedTypeOK holds: a recipe's tag names a publication of its own store,
\* and only a deletion that executes has to do with the registry.
THEOREM PublishedTypeCorrect == PublishedSpec => []PublishedTypeOK
<1>1. QED
  BY PublishedTypeInit, PublishedTypeStep, PTL DEF PublishedSpec

\* A deletion of any scope implements the local one, so that what holds of
\* Deletion holds beside the registry.
THEOREM ScopesImplementLocal == PublishedSpec => Spec
<1>1. PublishedInit => Init
  BY DEF PublishedInit
<1>2. QED
  BY <1>1, LocalStep, PublishedTypeCorrect, PTL DEF PublishedSpec, Spec

\* SharedKept and NoOrphan hold of deletions of all scopes, beside publications.
THEOREM ScopesKeepShared == PublishedSpec => [](SharedKept /\ NoOrphan)
<1>1. QED
  BY ScopesImplementLocal, SharedKeptAlways, NoOrphanAlways, PTL
-----------------------------------------------------------------------------
(* What is taken from the registry. *)

\* What a deletion has yet to take is of its plan, and is none once it is
\* through with the registry.
ListInv ==
    \A d \in Deleters : /\ listed[d] \subseteq Listed(d)
                        /\ stage[d] # "capsules" => listed[d] = {}

LEMMA SameListed ==
    ASSUME NEW d \in Deleters, records'[d] = records[d], retained'[d] = retained[d]
    PROVE  Listed(d)' = Listed(d)
  BY DEF Listed

LEMMA ListStep ==
    TypeOK /\ RemoteTypeOK /\ ListInv /\ [PublishedNext]_allVars => ListInv'
<1> SUFFICES ASSUME TypeOK, RemoteTypeOK, ListInv, [PublishedNext]_allVars PROVE ListInv'
  OBVIOUS
<1> USE DEF ListInv, remoteVars, captures, plan
\* Captures, publications, hosts.
<1>1. ASSUME UNCHANGED <<stage, listed, records, retained>> PROVE ListInv'
  BY <1>1, SameListed
<1>2. CASE UNCHANGED allVars
  BY <1>1, <1>2 DEF allVars, vars
<1>3. ASSUME NEW c \in Captures, RunCapture(c) \/ PromoteAny(c) \/ PruneAny(c) PROVE ListInv'
  BY <1>1, <1>3
     DEF RunCapture, PromoteAny, PruneAny, StartCapture, WriteDescriptor, Promote, Prune
<1>4. ASSUME NEW q \in Publications,
             StartPublication(q) \/ WritePublication(q) \/ PushDescriptor(q)
      PROVE  ListInv'
  BY <1>1, <1>4
     DEF StartPublication, WritePublication, PushDescriptor, StartCapture, WriteDescriptor, vars
<1>5. ASSUME NEW d \in Deleters, DeleteLocally(d) PROVE ListInv'
  BY <1>1, <1>5 DEF DeleteLocally, DeleteOnHost, RemoveImages
\* A deletion that moves leaves the others alone.
<1>6. ASSUME NEW d \in Deleters,
             \A e \in Deleters \ {d} :
                 /\ records'[e] = records[e] /\ retained'[e] = retained[e]
                 /\ stage'[e] = stage[e] /\ listed'[e] = listed[e],
             listed'[d] \subseteq Listed(d)', stage'[d] # "capsules" => listed'[d] = {}
      PROVE  ListInv'
  <2>1. \A e \in Deleters \ {d} : Listed(e)' = Listed(e)
    BY <1>6, SameListed
  <2>2. QED
    BY <1>6, <2>1
<1>7. ASSUME NEW d \in Deleters, Render(d) PROVE ListInv'
  <2>1. stage[d] = "none"
    BY <1>7 DEF Render, Begin, TargetRecords, RetainedReferences, RemoteTypeOK
  <2>2. listed'[d] = {}
    BY <1>7, <2>1 DEF Render
  <2>3. \A e \in Deleters \ {d} : records'[e] = records[e] /\ retained'[e] = retained[e]
    <3>1. CASE TargetRecords(d)
      BY <3>1, ReadsAlone DEF TargetRecords
    <3>2. CASE Begin(d) \/ RetainedReferences(d)
      BY <3>2 DEF Begin, RetainedReferences, TypeOK
    <3>3. QED
      BY <1>7, <3>1, <3>2 DEF Render
  <2>4. QED
    BY <1>6, <1>7, <2>2, <2>3 DEF Render
<1>8. ASSUME NEW d \in Deleters, Leave(d),
             \A e \in Deleters \ {d} : records'[e] = records[e] /\ retained'[e] = retained[e]
      PROVE  ListInv'
  BY <1>6, <1>8 DEF Leave, RemoteTypeOK
<1>9. ASSUME NEW d \in Deleters, ConfirmAny(d) PROVE ListInv'
  <2>1. \A e \in Deleters \ {d} : records'[e] = records[e] /\ retained'[e] = retained[e]
    BY <1>9 DEF ConfirmAny, Confirm, End, TypeOK
  <2>2. CASE Leave(d)
    BY <1>8, <2>1, <2>2
  <2>3. CASE ~Leave(d)
    <3>1. phase'[d] = "hosts" /\ listed' = [listed EXCEPT ![d] = Listed(d)]
          /\ stage' = [stage EXCEPT ![d] = "capsules"]
      BY <1>9, <2>3 DEF ConfirmAny
    <3>2. records' = records /\ retained' = retained
      BY <1>9, <3>1 DEF ConfirmAny, Confirm, End, TypeOK
    <3>3. listed'[d] = Listed(d)' /\ stage'[d] = "capsules"
      BY <3>1, <3>2, SameListed DEF RemoteTypeOK
    <3>4. QED
      BY <1>6, <2>1, <3>1, <3>3 DEF RemoteTypeOK
  <2>4. QED
    BY <2>2, <2>3
<1>10. ASSUME NEW d \in Deleters, DeleteCapsuleTags(d) \/ DeletePublishedPayloads(d)
       PROVE  ListInv'
  <2>1. Listed(d)' = Listed(d)
    BY <1>10, SameListed DEF DeleteCapsuleTags, DeletePublishedPayloads, vars
  <2>2. /\ listed'[d] \subseteq listed[d] /\ (stage'[d] # "capsules" => listed'[d] = {})
        /\ \A e \in Deleters \ {d} : stage'[e] = stage[e] /\ listed'[e] = listed[e]
    BY <1>10 DEF DeleteCapsuleTags, DeletePublishedPayloads, RemoteTypeOK
  <2>3. QED
    BY <1>6, <1>10, <2>1, <2>2 DEF DeleteCapsuleTags, DeletePublishedPayloads, vars
<1>11. ASSUME NEW d \in Deleters, DeleteDescriptorTag(d) PROVE ListInv'
  <2>1. CASE scope[d] = "both" /\ UNCHANGED vars
    <3>1. listed[d] = {} /\ listed' = listed /\ stage' = [stage EXCEPT ![d] = "none"]
      BY <1>11, <2>1 DEF DeleteDescriptorTag, vars
    <3>2. QED
      BY <1>6, <2>1, <3>1 DEF vars, RemoteTypeOK
  <2>2. CASE End(d) /\ Leave(d)
    BY <1>8, <2>2 DEF End, TypeOK
  <2>3. QED
    BY <1>11, <2>1, <2>2 DEF DeleteDescriptorTag
<1>12. ASSUME NEW d \in Deleters, FailAny(d) \/ RemoveStoreLast(d) PROVE ListInv'
  <2>1. CASE ClearGenerations(d) /\ UNCHANGED <<scope, stage, listed>>
    BY <1>1, <2>1 DEF ClearGenerations
  <2>2. CASE (Fail(d) \/ ClearPending(d)) /\ Leave(d)
    BY <1>8, <2>2 DEF Fail, ClearPending, End, TypeOK
  <2>3. QED
    BY <1>12, <2>1, <2>2 DEF FailAny, RemoveStoreLast
<1>13. QED
  BY <1>2, <1>3, <1>4, <1>5, <1>7, <1>9, <1>10, <1>11, <1>12
     DEF PublishedNext, Delete

\* What is under way to be published, or is and is protected, is whole.
WholeInv ==
    \A q \in Publications \cap Protected : Live(q) => RemoteOf[q] \subseteq registry

LEMMA SparedPublished ==
    ASSUME TypeOK, RemoteTypeOK, ScanInv, ListInv, NEW d \in Deleters,
           NEW q \in Publications \cap Protected, Live(q)
    PROVE  RemoteOf[q] \cap listed[d] = {}
<1>1. CASE listed[d] = {}
  BY <1>1
<1>2. CASE listed[d] # {}
  <2>1. phase[d] = "hosts"
    BY <1>2 DEF ListInv, RemoteTypeOK
  <2>2. Committed(q) /\ StoreOf[q] # target[d]
    BY <2>1 DEF ScanInv, CaptureInv, TargetInv, Live, Protected, Executing
  <2>3. DigestsOf(q) \subseteq retained[d]
    BY <2>1, <2>2, PublicationTyped DEF ScanInv, RetainInv, Reading, Executing, Protected
  <2>4. \A x \in RemoteOf[q] : DigestOf[x[2]] \in retained[d]
    BY <2>3, PublicationTyped, CaptureAssumption DEF DigestsOf, CaptureAssumption
  <2>5. \A x \in listed[d] : DigestOf[x[2]] \notin retained[d]
    BY DEF ListInv, Listed
  <2>6. QED
    BY <2>4, <2>5
<1>3. QED
  BY <1>1, <1>2

LEMMA WholeStep ==
    /\ TypeOK /\ RemoteTypeOK /\ ScanInv /\ ListInv /\ WholeInv
    /\ [PublishedNext]_allVars
    => WholeInv'
<1> SUFFICES ASSUME TypeOK, RemoteTypeOK, ScanInv, ListInv, WholeInv,
                    [PublishedNext]_allVars
             PROVE  WholeInv'
  OBVIOUS
<1> USE DEF remoteVars, captures, plan
\* No publication begins, and nothing that is protected is taken.
<1>0. StoresTypeOK
  BY DEF TypeOK
<1>1. ASSUME \A q \in Publications : Live(q)' => Live(q),
             unbound \subseteq unbound',
             \A q \in Publications \cap Protected : Live(q) =>
                 RemoteOf[q] \cap registry \subseteq registry'
      PROVE  WholeInv'
  BY <1>1 DEF WholeInv, Protected
<1>2. CASE UNCHANGED allVars
  BY <1>1, <1>2 DEF allVars, vars, Live, Committed
<1>3. ASSUME NEW c \in Captures, RunCapture(c) PROVE WholeInv'
  <2>1. \A q \in Publications : Live(q)' => Live(q)
    BY <1>0, <1>3, PublicationTyped, DescriptorMoved
       DEF RunCapture, StartCapture, WriteDescriptor, Undertake, Commit, Live, Committed, Directories
  <2>2. QED
    BY <1>1, <1>3, <2>1 DEF RunCapture, StartCapture, WriteDescriptor
<1>4. ASSUME NEW c \in Captures, PromoteAny(c) \/ PruneAny(c) PROVE WholeInv'
  <2>1. \A q \in Publications : Live(q)' => Live(q)
    BY <1>0, <1>4, PublicationTyped, DescriptorMoved
       DEF PromoteAny, PruneAny, Promote, Prune, Retain, Discard, Live, Committed, Directories
  <2>2. QED
    BY <1>1, <1>4, <2>1 DEF PromoteAny, PruneAny, Promote, Prune
<1>5. ASSUME NEW q \in Publications, StartPublication(q) PROVE WholeInv'
  <2>1. \A p \in Publications \ {q} : Live(p)' => Live(p)
    BY <1>0, <1>5, PublicationTyped, DescriptorMoved
       DEF StartPublication, StartCapture, Undertake, Live, Committed
  <2>2. unbound \subseteq unbound' /\ registry' = registry \cup RemoteOf[q]
    BY <1>5 DEF StartPublication, StartCapture
  <2>3. QED
    BY <2>1, <2>2 DEF WholeInv, Protected
<1>6. ASSUME NEW q \in Publications, WritePublication(q) \/ PushDescriptor(q) PROVE WholeInv'
  <2>1. \A p \in Publications : Live(p)' => Live(p)
    BY <1>0, <1>6, PublicationTyped, DescriptorMoved
       DEF WritePublication, PushDescriptor, WriteDescriptor, Commit, Live, Committed, vars
  <2>2. QED
    BY <1>1, <1>6, <2>1 DEF WritePublication, PushDescriptor, WriteDescriptor, vars
<1>7. ASSUME NEW d \in Deleters, Delete(d) PROVE WholeInv'
  <2>1. unbound \subseteq unbound'
    BY <1>7 DEF Delete, Render, ConfirmAny, DeleteCapsuleTags, DeletePublishedPayloads,
                DeleteDescriptorTag, DeleteLocally, FailAny, RemoveStoreLast, Begin,
                TargetRecords, RetainedReferences, Confirm, DeleteOnHost, RemoveImages,
                Fail, ClearGenerations, ClearPending, vars
  <2>2. registry \ listed[d] \subseteq registry'
    BY <1>7 DEF Delete, Render, ConfirmAny, DeleteCapsuleTags, DeletePublishedPayloads,
                DeleteDescriptorTag, DeleteLocally, FailAny, RemoveStoreLast, ListedImages
  <2>3. state' = state \/ \E directory : ClearDirectory(target[d], directory)
    BY <1>7 DEF Delete, Render, ConfirmAny, DeleteCapsuleTags, DeletePublishedPayloads,
                DeleteDescriptorTag, DeleteLocally, FailAny, RemoveStoreLast, Begin,
                TargetRecords, RetainedReferences, Confirm, DeleteOnHost, RemoveImages,
                Fail, ClearGenerations, ClearPending, Empty, vars
  <2>4. \A q \in Publications : Live(q)' => Live(q)
    BY <1>0, <2>3, PublicationTyped, DirectoryCleared DEF Live, Committed, Directories
  <2>5. QED
    BY <1>1, <2>1, <2>2, <2>4, SparedPublished
<1>8. QED
  BY <1>2, <1>3, <1>4, <1>5, <1>6, <1>7 DEF PublishedNext

\* PullableIsWhole holds: the publications of other stores keep what they name.
THEOREM PullableIsWholeAlways == PublishedSpec => []PullableIsWhole
<1>1. PublishedInit => PublishedTypeOK /\ ScanInv /\ ListInv /\ WholeInv
  <2>1. PublishedInit => ListInv /\ WholeInv
    BY PublicationTyped
       DEF PublishedInit, Init, ListInv, WholeInv, Live, Committed, Directories, Protected
  <2>2. QED
    BY <2>1, PublishedTypeInit, ScanInit DEF PublishedInit
<1>2. /\ PublishedTypeOK /\ ScanInv /\ ListInv /\ WholeInv
      /\ [PublishedNext]_allVars
      => (PublishedTypeOK /\ ScanInv /\ ListInv /\ WholeInv)'
  BY PublishedTypeSplit, PublishedTypeStep, LocalStep, ScanStep, ListStep, WholeStep
<1>3. WholeInv => PullableIsWhole
  BY PublicationTyped DEF WholeInv, PullableIsWhole, Protected, Live
<1>4. QED
  BY <1>1, <1>2, <1>3, PTL DEF PublishedSpec
-----------------------------------------------------------------------------
(* PublishedIsListed: as NoOrphan, for the registry.                         *)

\* Deletion d has taken x from the registry, as its plan says.
Cleared(d, x) ==
    /\ phase[d] \in Executing /\ scope[d] # "local"
    /\ x \in Listed(d) /\ x \notin listed[d]

\* q accounts for x, and no deletion that has taken x will drop it.
Names(q, x) ==
    /\ Live(q) /\ x \in RemoteOf[q]
    /\ \A d \in Deleters : Cleared(d, x) => q \notin seen[d]

NameInv == \A x \in registry \ adrift : \E q \in Publications : Names(q, x)

LEMMA SameCleared ==
    ASSUME NEW d \in Deleters, phase'[d] = phase[d], scope'[d] = scope[d],
           listed'[d] = listed[d], records'[d] = records[d], retained'[d] = retained[d]
    PROVE  \A x : Cleared(d, x)' <=> Cleared(d, x)
<1>1. Listed(d)' = Listed(d)
  BY SameListed
<1>2. QED
  BY <1>1 DEF Cleared

\* A step that adds nothing to the registry, drops no descriptor and lets no
\* deletion clear more than it takes.
LEMMA NameKept ==
    ASSUME NameInv, registry' \subseteq registry, adrift \subseteq adrift',
           \A q \in Publications : Live(q) => Live(q)',
           \A d \in Deleters : \A x \in registry' : Cleared(d, x)' =>
               Cleared(d, x) /\ seen'[d] = seen[d]
    PROVE  NameInv'
<1> SUFFICES ASSUME NEW x \in registry', x \notin adrift'
             PROVE  \E q \in Publications : Names(q, x)'
  BY DEF NameInv
<1>1. PICK q \in Publications : Names(q, x)
  BY DEF NameInv
<1>2. Live(q)' /\ x \in RemoteOf[q]
  BY <1>1 DEF Names
<1>3. \A d \in Deleters : Cleared(d, x)' => q \notin seen'[d]
  BY <1>1 DEF Names
<1>4. QED
  BY <1>2, <1>3 DEF Names

\* The same for a step of deletion d that leaves captures alone.
LEMMA NameDeletion ==
    ASSUME NameInv, NEW d \in Deleters, registry' \subseteq registry,
           UNCHANGED <<state, adrift>>,
           \A e \in Deleters \ {d} :
               /\ phase'[e] = phase[e] /\ scope'[e] = scope[e] /\ listed'[e] = listed[e]
               /\ records'[e] = records[e] /\ retained'[e] = retained[e]
               /\ seen'[e] = seen[e],
           \A x \in registry' : Cleared(d, x)' => Cleared(d, x) /\ seen'[d] = seen[d]
    PROVE  NameInv'
<1>1. \A e \in Deleters : \A x \in registry' : Cleared(e, x)' =>
          Cleared(e, x) /\ seen'[e] = seen[e]
  BY SameCleared
<1>2. \A q \in Publications : Live(q) => Live(q)'
  BY DEF Live, Committed
<1>3. QED
  BY <1>1, <1>2, NameKept

LEMMA NameStep ==
    /\ TypeOK /\ RemoteTypeOK /\ RecordInv /\ ListInv /\ NameInv
    /\ [PublishedNext]_allVars
    => NameInv'
<1> SUFFICES ASSUME TypeOK, RemoteTypeOK, RecordInv, ListInv, NameInv,
                    [PublishedNext]_allVars
             PROVE  NameInv'
  OBVIOUS
<1> USE DEF remoteVars, captures, plan
<1>0. StoresTypeOK
  BY DEF TypeOK
\* The deletions stay where they are.
<1>1. ASSUME UNCHANGED <<phase, scope, listed, seen, records, retained>>
      PROVE  \A e \in Deleters : \A x : Cleared(e, x)' <=> Cleared(e, x)
  BY <1>1, SameCleared
<1>2. CASE UNCHANGED allVars
  BY <1>1, <1>2, NameKept DEF allVars, vars, Live, Committed
<1>3. ASSUME NEW c \in Captures, RunCapture(c) PROVE NameInv'
  <2>1. \A q \in Publications : Live(q) => Live(q)'
    BY <1>0, <1>3, PublicationTyped, DescriptorMoved
       DEF RunCapture, StartCapture, WriteDescriptor, Undertake, Commit, Live, Committed, Directories
  <2>2. \A e \in Deleters : \A x : Cleared(e, x)' <=> Cleared(e, x)
    BY <1>1, <1>3 DEF RunCapture, StartCapture, WriteDescriptor
  <2>3. QED
    BY <1>3, <2>1, <2>2, NameKept DEF RunCapture, StartCapture, WriteDescriptor
<1>4. ASSUME NEW c \in Captures, PromoteAny(c) PROVE NameInv'
  <2>1. \A q \in Publications : Live(q) => Live(q)'
    BY <1>0, <1>4, PublicationTyped, DescriptorMoved
       DEF PromoteAny, Promote, Retain, Live, Committed, Directories
  <2>2. \A e \in Deleters : \A x : Cleared(e, x)' <=> Cleared(e, x)
    BY <1>1, <1>4 DEF PromoteAny, Promote
  <2>3. QED
    BY <1>4, <2>1, <2>2, NameKept DEF PromoteAny, Promote
<1>18. ASSUME NEW c \in Captures, PruneAny(c) PROVE NameInv'
  <2>1. registry' = registry /\ RemoteOf[c] \subseteq adrift'
    BY <1>18 DEF PruneAny
  <2>2. \A e \in Deleters : \A x : Cleared(e, x)' <=> Cleared(e, x)
    BY <1>1, <1>18 DEF PruneAny, Prune
  <2>3. \A x \in Captures \ {c} : state'[x] = state[x]
    BY <1>0, <1>18, DescriptorMoved DEF PruneAny, Prune, Discard
  <2>4. ASSUME NEW x \in registry', x \notin adrift'
        PROVE  \E q \in Publications : Names(q, x)'
    <3>1. PICK q \in Publications : Names(q, x)
      BY <1>18, <2>1, <2>4 DEF NameInv, PruneAny
    <3>2. q # c
      BY <2>1, <2>4, <3>1 DEF Names
    <3>3. Live(q)' /\ x \in RemoteOf[q]
      BY <2>3, <3>1, <3>2, PublicationTyped DEF Names, Live, Committed
    <3>4. \A e \in Deleters : Cleared(e, x)' => q \notin seen'[e]
      BY <1>18, <2>2, <3>1 DEF Names, PruneAny, Prune
    <3>5. QED
      BY <3>3, <3>4 DEF Names
  <2>5. QED
    BY <2>4 DEF NameInv
<1>5. ASSUME NEW q \in Publications, StartPublication(q) PROVE NameInv'
  <2>1. /\ registry' = registry \cup RemoteOf[q] /\ adrift' = adrift
        /\ UNCHANGED <<phase, scope, listed, seen, records, retained>>
    BY <1>5 DEF StartPublication, StartCapture
  <2>2. \A e \in Deleters : \A x : Cleared(e, x)' <=> Cleared(e, x)
    BY <1>1, <2>1
  <2>3. \A p \in Publications : Live(p) => Live(p)'
    BY <1>0, <1>5, PublicationTyped, DescriptorMoved
       DEF StartPublication, StartCapture, Undertake, Live, Committed, Directories
  <2>4. Live(q)' /\ \A e \in Deleters : q \notin seen'[e]
    BY <1>0, <1>5, <2>1, PublicationTyped, DescriptorMoved
       DEF StartPublication, StartCapture, Undertake, RecordInv, Live
  <2>5. ASSUME NEW x \in registry', x \notin adrift'
        PROVE  \E p \in Publications : Names(p, x)'
    <3>1. CASE x \in RemoteOf[q]
      BY <2>4, <3>1 DEF Names
    <3>2. CASE x \in registry
      <4>1. PICK p \in Publications : Names(p, x)
        BY <2>1, <2>5, <3>2 DEF NameInv
      <4>2. Names(p, x)'
        BY <2>1, <2>2, <2>3, <4>1 DEF Names
      <4>3. QED
        BY <4>2
    <3>3. QED
      BY <2>1, <2>5, <3>1, <3>2
  <2>6. QED
    BY <2>5 DEF NameInv
<1>6. ASSUME NEW q \in Publications, WritePublication(q) \/ PushDescriptor(q) PROVE NameInv'
  <2>1. \A p \in Publications : Live(p) => Live(p)'
    BY <1>0, <1>6, PublicationTyped, DescriptorMoved
       DEF WritePublication, PushDescriptor, WriteDescriptor, Commit, Live, Committed, Directories,
           vars
  <2>2. UNCHANGED <<phase, scope, listed, seen, records, retained, registry, adrift>>
    BY <1>6 DEF WritePublication, PushDescriptor, WriteDescriptor, vars
  <2>3. QED
    BY <1>1, <2>1, <2>2, NameKept
<1>7. ASSUME NEW d \in Deleters, Render(d) PROVE NameInv'
  <2>1. phase'[d] \notin Executing
    BY <1>7 DEF Render, Begin, TargetRecords, RetainedReferences, AfterReading, TypeOK, Executing
  <2>2. ~\E x : Cleared(d, x)'
    BY <2>1 DEF Cleared
  <2>3. QED
    BY <1>7, <2>2, ReadsAlone, NameDeletion
       DEF Render, Begin, TargetRecords, RetainedReferences, TypeOK
\* A deletion that ends has cleared nothing.
<1>8. ASSUME NEW d \in Deleters, End(d), Leave(d) PROVE ~\E x : Cleared(d, x)'
  BY <1>8 DEF End, Cleared, TypeOK, Executing
<1>9. ASSUME NEW d \in Deleters, End(d), Leave(d), UNCHANGED <<state, adrift, registry>>
      PROVE  NameInv'
  BY <1>8, <1>9, NameDeletion DEF End, Leave, TypeOK, RemoteTypeOK
<1>10. ASSUME NEW d \in Deleters, ConfirmAny(d), ~End(d) PROVE NameInv'
  <2>1. UNCHANGED <<seen, records, retained, state, registry, adrift>>
    BY <1>10 DEF ConfirmAny, Confirm
  <2>2. ~\E x : Cleared(d, x)'
    <3>1. CASE Leave(d)
      BY <3>1 DEF Leave, Cleared, RemoteTypeOK
    <3>2. CASE ~Leave(d)
      BY <1>10, <2>1, <3>2, SameListed DEF ConfirmAny, Cleared, RemoteTypeOK
    <3>3. QED
      BY <3>1, <3>2
  <2>3. QED
    BY <1>10, <2>1, <2>2, NameDeletion
       DEF ConfirmAny, Confirm, Leave, TypeOK, RemoteTypeOK
<1>11. ASSUME NEW d \in Deleters, DeleteCapsuleTags(d) \/ DeletePublishedPayloads(d)
       PROVE  NameInv'
  <2>1. /\ registry' = registry \ (listed[d] \ listed'[d])
        /\ UNCHANGED vars /\ scope' = scope /\ adrift' = adrift
        /\ \A e \in Deleters \ {d} : listed'[e] = listed[e]
    BY <1>11 DEF DeleteCapsuleTags, DeletePublishedPayloads, ListedImages, RemoteTypeOK
  <2>2. Listed(d)' = Listed(d)
    BY <2>1, SameListed DEF vars
  <2>3. \A x \in registry' : Cleared(d, x)' => Cleared(d, x)
    BY <2>1, <2>2 DEF Cleared, vars
  <2>4. QED
    BY <2>1, <2>3, NameDeletion DEF vars
<1>12. ASSUME NEW d \in Deleters, DeleteDescriptorTag(d) PROVE NameInv'
  <2>1. CASE UNCHANGED <<vars, scope, listed>>
    BY <1>1, <1>12, <2>1, NameKept DEF DeleteDescriptorTag, vars, Live, Committed
  <2>2. CASE End(d) /\ Leave(d)
    BY <1>9, <1>12, <2>2 DEF DeleteDescriptorTag, vars
  <2>3. QED
    BY <1>12, <2>1, <2>2 DEF DeleteDescriptorTag
<1>13. ASSUME NEW d \in Deleters, DeleteLocally(d) PROVE NameInv'
  <2>1. UNCHANGED <<state, seen, records, retained, registry, adrift, scope, listed>>
    BY <1>13 DEF DeleteLocally, DeleteOnHost, RemoveImages
  <2>2. phase[d] \in Executing /\ \A e \in Deleters \ {d} : phase'[e] = phase[e]
    BY <1>13 DEF DeleteLocally, DeleteOnHost, RemoveImages, Executing, TypeOK
  <2>3. \A x : Cleared(d, x)' => Cleared(d, x)
    BY <2>1, <2>2, SameListed DEF Cleared
  <2>4. QED
    BY <2>1, <2>2, <2>3, NameDeletion
<1>14. ASSUME NEW d \in Deleters, FailAny(d) PROVE NameInv'
  BY <1>9, <1>14 DEF FailAny, Fail
<1>15. ASSUME NEW d \in Deleters, RemoveStoreLast(d) PROVE NameInv'
  <2> DEFINE lost == {y \in Publications : Committed(y) /\ state'[y] = "gone"}
  <2>1. /\ adrift' = adrift \cup UNION {{x \in RemoteOf[q] :
               ~(q \in seen[d] /\ scope[d] = "both" /\ x \in Listed(d))} : q \in lost}
        /\ registry' = registry
    BY <1>15 DEF RemoveStoreLast
  <2>2. \A q \in Publications : Live(q) => Live(q)' \/ q \in lost
    BY <1>0, <1>15, PublicationTyped, DirectoryCleared
       DEF RemoveStoreLast, ClearGenerations, ClearPending, Empty, Live, Committed, Directories, In
  <2>5. \A e \in Deleters \ {d} : \A x : Cleared(e, x)' =>
            Cleared(e, x) /\ seen'[e] = seen[e]
    <3>1. \A e \in Deleters \ {d} :
              /\ phase'[e] = phase[e] /\ scope'[e] = scope[e] /\ listed'[e] = listed[e]
              /\ records'[e] = records[e] /\ retained'[e] = retained[e]
              /\ seen'[e] = seen[e]
      BY <1>15 DEF RemoveStoreLast, ClearGenerations, ClearPending, End, Leave, TypeOK,
                   RemoteTypeOK
    <3>2. QED
      BY <3>1, SameCleared
  <2>6. \A x : Cleared(d, x)' => Cleared(d, x) /\ seen'[d] = seen[d]
    <3>1. CASE ClearGenerations(d) /\ UNCHANGED <<scope, stage, listed>>
      <4>1. Listed(d)' = Listed(d)
        BY <3>1, SameListed DEF ClearGenerations
      <4>2. QED
        BY <3>1, <4>1 DEF ClearGenerations, Cleared, Executing
    <3>2. CASE ClearPending(d) /\ Leave(d)
      BY <1>8, <3>2 DEF ClearPending
    <3>3. QED
      BY <1>15, <3>1, <3>2 DEF RemoveStoreLast
  <2>3. ASSUME NEW x \in registry', x \notin adrift'
        PROVE  \E q \in Publications : Names(q, x)'
    <3>1. PICK q \in Publications : Names(q, x)
      BY <2>1, <2>3 DEF NameInv
    <3>2. ASSUME q \in lost PROVE FALSE
      <4>1. q \in seen[d] /\ scope[d] = "both" /\ x \in Listed(d)
        BY <2>1, <2>3, <3>1, <3>2 DEF Names
      <4>2. phase[d] \in Executing /\ listed[d] = {}
        BY <1>15 DEF RemoveStoreLast, ClearGenerations, ClearPending, Executing, ListInv
      <4>3. Cleared(d, x)
        BY <4>1, <4>2 DEF Cleared
      <4>4. QED
        BY <3>1, <4>1, <4>3 DEF Names
    <3>3. Live(q)' /\ x \in RemoteOf[q]
      BY <2>2, <3>1, <3>2 DEF Names
    <3>4. \A e \in Deleters : Cleared(e, x)' => q \notin seen'[e]
      BY <2>5, <2>6, <3>1 DEF Names
    <3>5. QED
      BY <3>3, <3>4 DEF Names
  <2>4. QED
    BY <2>3 DEF NameInv
<1>16. ASSUME NEW d \in Deleters, ConfirmAny(d), End(d) PROVE NameInv'
  <2>1. Leave(d)
    BY <1>16 DEF ConfirmAny, End, TypeOK
  <2>2. QED
    BY <1>9, <1>16, <2>1 DEF ConfirmAny, Confirm
<1>17. QED
  BY <1>2, <1>3, <1>4, <1>5, <1>6, <1>7, <1>10, <1>11, <1>12, <1>13, <1>14, <1>15, <1>16, <1>18
     DEF PublishedNext, Delete

\* PublishedIsListed holds: a deletion, failed or complete, leaves nothing
\* published without a descriptor but what its plan never had.
THEOREM PublishedIsListedAlways == PublishedSpec => []PublishedIsListed
<1>1. PublishedInit => PublishedTypeOK /\ RecordInv /\ ListInv /\ NameInv
  <2>1. PublishedInit => RecordInv /\ ListInv /\ NameInv
    BY DEF PublishedInit, Init, RecordInv, ListInv, NameInv
  <2>2. QED
    BY <2>1, PublishedTypeInit
<1>2. /\ PublishedTypeOK /\ RecordInv /\ ListInv /\ NameInv
      /\ [PublishedNext]_allVars
      => (PublishedTypeOK /\ RecordInv /\ ListInv /\ NameInv)'
  BY PublishedTypeSplit, PublishedTypeStep, LocalStep, RecordStep, ListStep, NameStep
<1>3. NameInv => PublishedIsListed
  BY DEF NameInv, PublishedIsListed, Names, Live
<1>4. QED
  BY <1>1, <1>2, <1>3, PTL DEF PublishedSpec
=============================================================================
