------------------------ MODULE ArtifactStoreProofs ------------------------
(***************************************************************************)
(* Proofs about ArtifactStore for every set of processes, every set of     *)
(* captures, every retention limit, every clock and any number of crashes. *)
(***************************************************************************)
EXTENDS ArtifactStore, FiniteSetTheorems, TLAPS

\* A promotion knows its capture, and a temporary entry its owner.
Owned ==
    \A p \in Procs :
        /\ op[p] = "promote" => cap[p] \in Captures
        /\ pc[p] \in PromotionStates => op[p] = "promote"
        /\ pc[p] \in {"temp", "importing"} => p \in litter

TypeInv == TypeOK /\ Owned

LEMMA TypeInvInit == Init => TypeInv
<1> SUFFICES ASSUME Init PROVE TypeInv
  OBVIOUS
<1>1. Owned
  BY StoreAssumption DEF StoreAssumption, Init, Owned, PromotionStates
<1>2. Empty
  BY DEF Init, Empty
<1>3. TypeOK
  <2>1. root \in BOOLEAN /\ imported \in BOOLEAN /\ unlinked \in BOOLEAN
    BY Zenon DEF Init
  <2>2. pc \in [Procs -> {"idle"}] /\ crashes \in Nat
    BY DEF Init
  <2>3. victims \in [Procs -> SUBSET Captures] /\ step \in [Procs -> 1..5]
    BY DEF Init
  <2>4. QED
    BY <1>2, <2>1, <2>2, <2>3 DEF Init, TypeOK
<1>4. QED
  BY <1>1, <1>3 DEF TypeInv

\* Each operation keeps the types, and leaves entries only in a directory.
LEMMA TypeInvStep == TypeInv /\ [Next]_vars => TypeInv'
<1> SUFFICES ASSUME TypeInv, [Next]_vars PROVE TypeInv'
  OBVIOUS
<1> USE StoreAssumption
    DEF StoreAssumption, TypeInv, TypeOK, Owned, PromotionStates, Critical, Ended, Empty, Goto,
        Release, store, local
<1>1. CASE UNCHANGED vars
  BY <1>1 DEF vars
<1>2. ASSUME NEW p \in Procs, NEW c \in Captures, NEW now \in Clock,
             Capture(p, c, now)
      PROVE  TypeInv'
  BY <1>2 DEF Capture
<1>3. ASSUME NEW p \in Procs, StartRemove(p) PROVE TypeInv'
  BY <1>3 DEF StartRemove
<1>4. ASSUME NEW p \in Procs, StartImport(p) PROVE TypeInv'
  BY <1>4 DEF StartImport
<1>5. ASSUME NEW p \in Procs, MakeRoot(p) PROVE TypeInv'
  BY <1>5 DEF MakeRoot
<1>6. ASSUME NEW p \in Procs, OpenLock(p) PROVE TypeInv'
  BY <1>6 DEF OpenLock
<1>7. ASSUME NEW p \in Procs, ChmodLock(p) PROVE TypeInv'
  BY <1>7 DEF ChmodLock
<1>8. ASSUME NEW p \in Procs, Acquire(p) PROVE TypeInv'
  BY <1>8 DEF Acquire
<1>9. ASSUME NEW p \in Procs, Rename(p) PROVE TypeInv'
  <2>1. cap[p] \in Captures
    BY <1>9 DEF Rename
  <2>2. CASE pending[cap[p]] = 0 \/ gens[cap[p]] # 0
    BY <1>9, <2>1, <2>2 DEF Rename
  <2>3. CASE pending[cap[p]] # 0 /\ gens[cap[p]] = 0
    <3>1. gens' \in [Captures -> Nat] /\ pending' \in [Captures -> Nat]
      BY <1>9, <2>1, <2>3 DEF Rename
    <3>2. root'
      BY <1>9, <2>1, <2>3 DEF Rename
    <3>3. pc' = [pc EXCEPT ![p] = "renamed"]
      BY <1>9, <2>1, <2>3 DEF Rename
    <3>4. Owned'
      BY <1>9, <2>1, <2>3, <3>3 DEF Rename
    <3>5. QED
      BY <1>9, <2>1, <2>3, <3>1, <3>2, <3>3, <3>4 DEF Rename
  <2>4. QED
    BY <2>1, <2>2, <2>3
<1>10. ASSUME NEW p \in Procs, NEW now \in Clock, Stamp(p, now) PROVE TypeInv'
  BY <1>10 DEF Stamp
<1>11. ASSUME NEW p \in Procs, WriteTemp(p) PROVE TypeInv'
  BY <1>11 DEF WriteTemp
<1>12. ASSUME NEW p \in Procs, Activate(p) PROVE TypeInv'
  BY <1>12 DEF Activate
<1>13. ASSUME NEW p \in Procs, ScanGenerations(p) PROVE TypeInv'
  BY <1>13 DEF ScanGenerations, Surplus, Generations
<1>14. ASSUME NEW p \in Procs, PruneStep(p) PROVE TypeInv'
  BY <1>14 DEF PruneStep
<1>15. ASSUME NEW p \in Procs, ClearMember(p) PROVE TypeInv'
  <2>1. CASE step[p] = 5
    BY <1>15, <2>1 DEF ClearMember
  <2>2. CASE step[p] <= 4
    <3>1. imported' \in BOOLEAN
      BY <1>15, <2>2, Zenon DEF ClearMember
    <3>2. imported' => imported
      BY <1>15, <2>2 DEF ClearMember
    <3>3. gens' \in [Captures -> Nat] /\ pending' \in [Captures -> Nat]
      BY <1>15, <2>2 DEF ClearMember
    <3>4. current' \in Captures \cup {NoCapture}
      BY <1>15, <2>2 DEF ClearMember
    <3>5. Empty => Empty'
      BY <1>15, <2>2, <3>2 DEF ClearMember
    <3>6. step' \in [Procs -> 1..5]
      BY <1>15, <2>2 DEF ClearMember
    <3>7. QED
      BY <1>15, <2>2, <3>1, <3>3, <3>4, <3>5, <3>6 DEF ClearMember
  <2>3. QED
    BY <1>15, <2>1, <2>2 DEF ClearMember
<1>16. ASSUME NEW p \in Procs, UnlinkLock(p) PROVE TypeInv'
  BY <1>16 DEF UnlinkLock
<1>17. ASSUME NEW p \in Procs, RemoveRoot(p) PROVE TypeInv'
  BY <1>17 DEF RemoveRoot
<1>18. ASSUME NEW p \in Procs, FinishImport(p) PROVE TypeInv'
  BY <1>18 DEF FinishImport
<1>19. ASSUME NEW p \in Procs, Crash(p) PROVE TypeInv'
  BY <1>19 DEF Crash
<1>20. QED
  BY <1>1, <1>2, <1>3, <1>4, <1>5, <1>6, <1>7, <1>8, <1>9, <1>10, <1>11, <1>12,
     <1>13, <1>14, <1>15, <1>16, <1>17, <1>18, <1>19
  DEF Next, Start, Run

LEMMA TypeInvAlways == Spec => []TypeInv
  BY TypeInvInit, TypeInvStep, PTL DEF Spec

\* The store's variables keep their types, and a removed root has no entries.
THEOREM TypeCorrect == Spec => []TypeOK
  BY TypeInvAlways, PTL DEF TypeInv
-----------------------------------------------------------------------------
(* Mutual exclusion.  A process in the critical section holds the flock of *)
(* the inode it opened, and until some removal unlinks .lock every open    *)
(* inode is the one .lock names, so the holders of distinct inodes that    *)
(* flock would let in together cannot exist.                               *)

LockInv ==
    /\ \A p \in Procs : p \in locked <=> InCritical(p)
    /\ \A p \in Procs : fd[p] # NoProc =>
          pc[p] \in {"opened", "waiting"} \cup Critical
    /\ \A p \in Procs : pc[p] \in {"opened", "waiting"} \cup Critical =>
          fd[p] # NoProc
    /\ \A p, q \in locked : fd[p] = fd[q] => p = q
    /\ ~unlinked => \A p \in Procs : fd[p] # NoProc => fd[p] = lockFile

LEMMA LockInvInit == Init => LockInv
  BY StoreAssumption DEF Init, LockInv, InCritical, Critical, PromotionStates

LEMMA LockInvStep == TypeInv /\ LockInv /\ [Next]_vars => LockInv'
<1> SUFFICES ASSUME TypeInv, LockInv, [Next]_vars PROVE LockInv'
  OBVIOUS
<1> USE StoreAssumption
    DEF StoreAssumption, TypeInv, TypeOK, Owned, LockInv, InCritical,
        PromotionStates, Critical, Ended, Goto, Release, store, local
<1>1. CASE UNCHANGED vars
  BY <1>1 DEF vars
<1>2. ASSUME NEW p \in Procs, NEW c \in Captures, NEW now \in Clock,
             Capture(p, c, now)
      PROVE  LockInv'
  BY <1>2 DEF Capture
<1>3. ASSUME NEW p \in Procs, StartRemove(p) PROVE LockInv'
  BY <1>3 DEF StartRemove
<1>4. ASSUME NEW p \in Procs, StartImport(p) PROVE LockInv'
  BY <1>4 DEF StartImport
<1>5. ASSUME NEW p \in Procs, MakeRoot(p) PROVE LockInv'
  BY <1>5 DEF MakeRoot
<1>6. ASSUME NEW p \in Procs, OpenLock(p) PROVE LockInv'
  <2>1. CASE ~root
    BY <1>6, <2>1 DEF OpenLock
  <2>2. CASE root
    <3>1. fd' = [fd EXCEPT ![p] = lockFile'] /\ lockFile' # NoProc
      BY <1>6, <2>2 DEF OpenLock
    <3>2. pc' = [pc EXCEPT ![p] = "opened"] /\ UNCHANGED <<locked, unlinked>>
      BY <1>6, <2>2 DEF OpenLock
    <3>3. p \notin locked
      BY <1>6 DEF OpenLock
    <3>4. ~unlinked => \A q \in Procs : fd'[q] # NoProc => fd'[q] = lockFile'
      BY <1>6, <2>2, <3>1 DEF OpenLock
    <3>5. QED
      BY <3>1, <3>2, <3>3, <3>4
  <2>3. QED
    BY <2>1, <2>2
<1>7. ASSUME NEW p \in Procs, ChmodLock(p) PROVE LockInv'
  BY <1>7 DEF ChmodLock
<1>8. ASSUME NEW p \in Procs, Acquire(p) PROVE LockInv'
  BY <1>8 DEF Acquire, LockFree
<1>9. ASSUME NEW p \in Procs, Rename(p) PROVE LockInv'
  BY <1>9 DEF Rename
<1>10. ASSUME NEW p \in Procs, NEW now \in Clock, Stamp(p, now) PROVE LockInv'
  BY <1>10 DEF Stamp
<1>11. ASSUME NEW p \in Procs, WriteTemp(p) PROVE LockInv'
  BY <1>11 DEF WriteTemp
<1>12. ASSUME NEW p \in Procs, Activate(p) PROVE LockInv'
  BY <1>12 DEF Activate
<1>13. ASSUME NEW p \in Procs, ScanGenerations(p) PROVE LockInv'
  BY <1>13 DEF ScanGenerations
<1>14. ASSUME NEW p \in Procs, PruneStep(p) PROVE LockInv'
  BY <1>14 DEF PruneStep
<1>15. ASSUME NEW p \in Procs, ClearMember(p) PROVE LockInv'
  <2>1. UNCHANGED <<pc, fd, locked>> \/ Release(p, "unlocked")
    BY <1>15 DEF ClearMember
  <2>2. pc[p] = "clearing" /\ UNCHANGED <<lockFile, unlinked>>
    BY <1>15 DEF ClearMember
  <2>3. QED
    BY <2>1, <2>2
<1>16. ASSUME NEW p \in Procs, UnlinkLock(p) PROVE LockInv'
  <2>1. ~unlinked' => ~unlinked /\ lockFile' = lockFile
    BY <1>16, Zenon DEF UnlinkLock
  <2>2. pc[p] = "unlocked" /\ pc' = [pc EXCEPT ![p] = "bare"]
    BY <1>16 DEF UnlinkLock
  <2>3. UNCHANGED <<fd, locked>>
    BY <1>16 DEF UnlinkLock
  <2>4. QED
    BY <2>1, <2>2, <2>3
<1>17. ASSUME NEW p \in Procs, RemoveRoot(p) PROVE LockInv'
  BY <1>17 DEF RemoveRoot
<1>18. ASSUME NEW p \in Procs, FinishImport(p) PROVE LockInv'
  BY <1>18 DEF FinishImport
<1>19. ASSUME NEW p \in Procs, Crash(p) PROVE LockInv'
  BY <1>19 DEF Crash
<1>20. QED
  BY <1>1, <1>2, <1>3, <1>4, <1>5, <1>6, <1>7, <1>8, <1>9, <1>10, <1>11, <1>12,
     <1>13, <1>14, <1>15, <1>16, <1>17, <1>18, <1>19
  DEF Next, Start, Run

LEMMA LockInvAlways == Spec => []LockInv
  BY TypeInvAlways, LockInvInit, LockInvStep, PTL DEF Spec

LEMMA ExclusionFromLock == LockInv => SerializedUntilUnlink
  BY DEF LockInv, SerializedUntilUnlink, InCritical

\* The docstring's "serialized per recipe fingerprint", for any number of
\* promotions, removals and crashes, until a removal unlinks .lock.
THEOREM SerializedAlways == Spec => []SerializedUntilUnlink
  BY LockInvAlways, ExclusionFromLock, PTL
-----------------------------------------------------------------------------
(* The current descriptor.                                                 *)

BeforeActivation(p) ==
    pc[p] \in {"captured", "rooted", "opened", "waiting", "locked", "renamed",
               "stamped", "temp"}

\* Every capture is promoted by one process, and becomes current at Activate.
CaptureInv ==
    /\ \A p, q \in Procs : cap[p] = cap[q] /\ cap[p] # NoCapture => p = q
    /\ \A p \in Procs : pc[p] = "idle" => cap[p] = NoCapture
    /\ \A p \in Procs :
          pc[p] \in {"idle", "captured", "rooted", "opened", "waiting"} => step[p] = 1
    /\ \A c \in activated : \E q \in Procs : cap[q] = c
    /\ \A p \in Procs : op[p] = "promote" /\ BeforeActivation(p) =>
          cap[p] \notin activated
    /\ current # NoCapture => current \in activated

\* p's generation is newer than every other one.
Youngest(p) ==
    /\ gens[cap[p]] # 0
    /\ \A d \in Captures : d # cap[p] => gens[d] < gens[cap[p]]

Ordered ==
    /\ \A p \in Procs :
          /\ pc[p] \in {"stamped", "temp"} => Youngest(p)
          /\ pc[p] \in {"activated", "pruning"} => current = cap[p]
          /\ pc[p] = "clearing" /\ step[p] > 1 => current = NoCapture
          /\ Keep > 0 /\ pc[p] \in {"activated", "pruning"} => Youngest(p)
          /\ Keep > 0 /\ pc[p] = "pruning" => cap[p] \notin victims[p]
    /\ Keep > 0 /\ current # NoCapture =>
          /\ gens[current] # 0
          /\ \A c \in activated : gens[c] <= gens[current]

OrderInv == ~unlinked => Ordered

LEMMA CaptureInvInit == Init => CaptureInv
  BY DEF Init, CaptureInv

LEMMA CaptureInvStep == TypeInv /\ CaptureInv /\ [Next]_vars => CaptureInv'
<1> SUFFICES ASSUME TypeInv, CaptureInv, [Next]_vars PROVE CaptureInv'
  OBVIOUS
<1> USE StoreAssumption
    DEF StoreAssumption, TypeInv, TypeOK, Owned, CaptureInv, BeforeActivation,
        PromotionStates, Critical, Ended, Goto, Release, store, local
<1>1. CASE UNCHANGED vars
  BY <1>1 DEF vars
<1>2. ASSUME NEW p \in Procs, NEW c \in Captures, NEW now \in Clock,
             Capture(p, c, now)
      PROVE  CaptureInv'
  <2>1. cap' = [cap EXCEPT ![p] = c] /\ \A q \in Procs : cap[q] # c
    BY <1>2 DEF Capture
  <2>2. cap[p] = NoCapture
    BY <1>2 DEF Capture
  <2>3. c \notin activated
    BY <2>1
  <2>4. UNCHANGED <<activated, current, step>>
    BY <1>2 DEF Capture
  <2>5. pc' = [pc EXCEPT ![p] = "captured"] /\ op' = [op EXCEPT ![p] = "promote"]
    BY <1>2 DEF Capture
  <2>6. \A d \in activated : \E q \in Procs \ {p} : cap[q] = d
    BY <2>2
  <2>7. \A q \in Procs : cap'[q] = IF q = p THEN c ELSE cap[q]
    BY <2>1
  <2>8. \A q, r \in Procs : cap'[q] = cap'[r] /\ cap'[q] # NoCapture => q = r
    BY <2>1, <2>7
  <2>9. \A d \in activated' : \E q \in Procs : cap'[q] = d
    BY <2>4, <2>6, <2>7
  <2>10. \A q \in Procs :
            op'[q] = "promote" /\ BeforeActivation(q)' => cap'[q] \notin activated'
    BY <2>3, <2>4, <2>5, <2>7
  <2>11. \A q \in Procs : pc'[q] = "idle" => cap'[q] = NoCapture
    BY <2>5, <2>7
  <2>12. QED
    BY <1>2, <2>4, <2>5, <2>8, <2>9, <2>10, <2>11 DEF Capture
<1>3. ASSUME NEW p \in Procs, StartRemove(p) PROVE CaptureInv'
  BY <1>3 DEF StartRemove
<1>4. ASSUME NEW p \in Procs, StartImport(p) PROVE CaptureInv'
  BY <1>4 DEF StartImport
<1>5. ASSUME NEW p \in Procs, MakeRoot(p) PROVE CaptureInv'
  BY <1>5 DEF MakeRoot
<1>6. ASSUME NEW p \in Procs, OpenLock(p) PROVE CaptureInv'
  BY <1>6 DEF OpenLock
<1>7. ASSUME NEW p \in Procs, ChmodLock(p) PROVE CaptureInv'
  BY <1>7 DEF ChmodLock
<1>8. ASSUME NEW p \in Procs, Acquire(p) PROVE CaptureInv'
  BY <1>8 DEF Acquire
<1>9. ASSUME NEW p \in Procs, Rename(p) PROVE CaptureInv'
  BY <1>9 DEF Rename
<1>10. ASSUME NEW p \in Procs, NEW now \in Clock, Stamp(p, now) PROVE CaptureInv'
  BY <1>10 DEF Stamp
<1>11. ASSUME NEW p \in Procs, WriteTemp(p) PROVE CaptureInv'
  BY <1>11 DEF WriteTemp
<1>12. ASSUME NEW p \in Procs, Activate(p) PROVE CaptureInv'
  BY <1>12 DEF Activate
<1>13. ASSUME NEW p \in Procs, ScanGenerations(p) PROVE CaptureInv'
  BY <1>13 DEF ScanGenerations
<1>14. ASSUME NEW p \in Procs, PruneStep(p) PROVE CaptureInv'
  BY <1>14 DEF PruneStep
<1>15. ASSUME NEW p \in Procs, ClearMember(p) PROVE CaptureInv'
  <2>1. /\ pc[p] = "clearing" /\ UNCHANGED <<op, cap, activated>>
        /\ current' \in {current, NoCapture}
        /\ \A q \in Procs \ {p} : step'[q] = step[q]
    BY <1>15 DEF ClearMember
  <2>2. UNCHANGED pc \/ pc' = [pc EXCEPT ![p] = "unlocked"]
    BY <1>15 DEF ClearMember
  <2>3. QED
    BY <2>1, <2>2
<1>16. ASSUME NEW p \in Procs, UnlinkLock(p) PROVE CaptureInv'
  BY <1>16 DEF UnlinkLock
<1>17. ASSUME NEW p \in Procs, RemoveRoot(p) PROVE CaptureInv'
  BY <1>17 DEF RemoveRoot
<1>18. ASSUME NEW p \in Procs, FinishImport(p) PROVE CaptureInv'
  BY <1>18 DEF FinishImport
<1>19. ASSUME NEW p \in Procs, Crash(p) PROVE CaptureInv'
  BY <1>19 DEF Crash
<1>20. QED
  BY <1>1, <1>2, <1>3, <1>4, <1>5, <1>6, <1>7, <1>8, <1>9, <1>10, <1>11, <1>12,
     <1>13, <1>14, <1>15, <1>16, <1>17, <1>18, <1>19
  DEF Next, Start, Run

\* The lock file, once unlinked, is never held to be intact again.
LEMMA UnlinkedStays == TypeInv /\ [Next]_vars /\ ~unlinked' => ~unlinked
  BY Zenon
  DEF Next, Start, Run, vars, store, local, Release, Goto, Capture, StartRemove,
      StartImport, MakeRoot, OpenLock, ChmodLock, Acquire, Rename, Stamp, WriteTemp,
      Activate, ScanGenerations, PruneStep, ClearMember, UnlinkLock, RemoveRoot,
      FinishImport, Crash

LEMMA OrderInvInit == Init => OrderInv
  BY StoreAssumption DEF StoreAssumption, Init, OrderInv, Ordered

LEMMA OrderInvStep ==
    TypeInv /\ LockInv /\ CaptureInv /\ OrderInv /\ [Next]_vars => OrderInv'
<1> SUFFICES ASSUME TypeInv, LockInv, CaptureInv, Ordered, [Next]_vars,
                    ~unlinked
             PROVE  Ordered'
  BY UnlinkedStays DEF OrderInv
<1>a. \A p, q \in Procs : InCritical(p) /\ InCritical(q) => p = q
  BY ExclusionFromLock DEF SerializedUntilUnlink
<1> USE StoreAssumption
    DEF StoreAssumption, TypeInv, TypeOK, Owned, Ordered, Youngest, Goto, Release,
        store, local
<1>b. ASSUME NEW p \in Procs, NEW label, Goto(p, label),
             label \notin {"stamped", "temp", "activated", "pruning", "clearing"},
             UNCHANGED <<gens, current, cap, victims, step, activated>>
      PROVE  Ordered'
  BY <1>b
<1>1. CASE UNCHANGED vars
  BY <1>1 DEF vars
<1>2. ASSUME NEW p \in Procs, NEW c \in Captures, NEW now \in Clock,
             Capture(p, c, now)
      PROVE  Ordered'
  BY <1>2 DEF Capture
<1>3. ASSUME NEW p \in Procs, StartRemove(p) PROVE Ordered'
  BY <1>3, <1>b DEF StartRemove
<1>4. ASSUME NEW p \in Procs, StartImport(p) PROVE Ordered'
  BY <1>4, <1>b DEF StartImport
<1>5. ASSUME NEW p \in Procs, MakeRoot(p) PROVE Ordered'
  BY <1>5, <1>b DEF MakeRoot
<1>6. ASSUME NEW p \in Procs, OpenLock(p) PROVE Ordered'
  BY <1>6, <1>b DEF OpenLock
<1>7. ASSUME NEW p \in Procs, ChmodLock(p) PROVE Ordered'
  BY <1>7, <1>b DEF ChmodLock
<1>8. ASSUME NEW p \in Procs, Acquire(p) PROVE Ordered'
  <2>1. pc[p] = "waiting" /\ step[p] = 1
    BY <1>8 DEF Acquire, CaptureInv
  <2>2. \/ pc' = [pc EXCEPT ![p] = "locked"]
        \/ pc' = [pc EXCEPT ![p] = "clearing"]
    BY <1>8 DEF Acquire
  <2>3. UNCHANGED <<gens, current, cap, victims, step, activated>>
    BY <1>8 DEF Acquire
  <2>4. QED
    BY <2>1, <2>2, <2>3
<1>c. ASSUME NEW p \in Procs, pc[p] \in Critical
      PROVE  \A q \in Procs : q # p => pc[q] \notin Critical
  BY <1>a, <1>c DEF InCritical
<1>d. ASSUME NEW p \in Procs, pc[p] \in {"locked", "renamed", "stamped", "temp"}
      PROVE  cap[p] \in Captures \ activated
  BY <1>d DEF CaptureInv, BeforeActivation, PromotionStates
<1>9. ASSUME NEW p \in Procs, Rename(p) PROVE Ordered'
  <2>1. pc[p] = "locked" /\ UNCHANGED <<current, cap, victims, step, activated>>
    BY <1>9 DEF Rename
  <2>2. CASE pending[cap[p]] = 0 \/ gens[cap[p]] # 0
    BY <1>9, <2>1, <2>2, <1>b DEF Rename
  <2>3. CASE pending[cap[p]] # 0 /\ gens[cap[p]] = 0
    <3>1. /\ pc' = [pc EXCEPT ![p] = "renamed"]
          /\ gens' = [gens EXCEPT ![cap[p]] = pending[cap[p]]]
      BY <1>9, <2>3 DEF Rename
    <3>2. \A q \in Procs : q # p => pc[q] \notin Critical
      BY <2>1, <1>c DEF Critical, PromotionStates
    <3>3. cap[p] \in Captures \ activated
      BY <2>1, <1>d
    <3>4. QED
      BY <2>1, <2>3, <3>1, <3>2, <3>3 DEF Critical, PromotionStates, CaptureInv
  <2>4. QED
    BY <2>2, <2>3
<1>10. ASSUME NEW p \in Procs, NEW now \in Clock, Stamp(p, now) PROVE Ordered'
  <2>1. pc[p] = "renamed" /\ UNCHANGED <<current, cap, victims, step, activated>>
    BY <1>10 DEF Stamp
  <2>2. CASE gens[cap[p]] = 0
    BY <1>10, <2>1, <2>2, <1>b DEF Stamp
  <2>3. CASE gens[cap[p]] # 0
    <3>1. pc' = [pc EXCEPT ![p] = "stamped"]
      BY <1>10, <2>3 DEF Stamp
    <3>2. PICK t \in Times : /\ gens' = [gens EXCEPT ![cap[p]] = t]
                             /\ \A c \in Captures : t > gens[c]
      BY <1>10, <2>3 DEF Stamp, NextActivation
    <3>3. \A q \in Procs : q # p => pc[q] \notin Critical
      BY <2>1, <1>c DEF Critical, PromotionStates
    <3>4. cap[p] \in Captures \ activated /\ t \in Nat \ {0}
      BY <2>1, <1>d
    <3>5. Youngest(p)'
      BY <2>1, <3>2, <3>4
    <3>6. QED
      BY <2>1, <3>1, <3>2, <3>3, <3>4, <3>5 DEF Critical, PromotionStates, CaptureInv
  <2>4. QED
    BY <2>2, <2>3
<1>11. ASSUME NEW p \in Procs, WriteTemp(p) PROVE Ordered'
  BY <1>11 DEF WriteTemp
<1>12. ASSUME NEW p \in Procs, Activate(p) PROVE Ordered'
  <2>1. /\ pc[p] = "temp" /\ pc' = [pc EXCEPT ![p] = "activated"]
        /\ current' = cap[p] /\ activated' = activated \cup {cap[p]}
        /\ UNCHANGED <<gens, cap, victims, step>>
    BY <1>12 DEF Activate
  <2>2. \A q \in Procs : q # p => pc[q] \notin Critical
    BY <2>1, <1>c DEF Critical, PromotionStates
  <2>3. Youngest(p) /\ cap[p] \in Captures
    BY <2>1, <1>d
  <2>4. \A c \in activated' : gens[c] <= gens[cap[p]]
    BY <2>1, <2>3
  <2>5. QED
    BY <2>1, <2>2, <2>3, <2>4 DEF Critical, PromotionStates
<1>13. ASSUME NEW p \in Procs, ScanGenerations(p) PROVE Ordered'
  <2>1. /\ pc[p] = "activated" /\ pc' = [pc EXCEPT ![p] = "pruning"]
        /\ victims' = [victims EXCEPT ![p] = Surplus]
        /\ UNCHANGED <<gens, cap, current, activated, step>>
    BY <1>13 DEF ScanGenerations
  <2>2. ASSUME Keep > 0 PROVE cap[p] \notin Surplus
    <3>1. Youngest(p) /\ cap[p] \in Captures
      BY <2>1, <2>2 DEF PromotionStates
    <3>2. ASSUME NEW d \in Captures PROVE ~Newer(d, cap[p])
      <4>1. gens[d] \in Nat /\ gens[cap[p]] \in Nat /\ d \in Nat /\ cap[p] \in Nat
        BY <3>1
      <4>2. CASE d = cap[p]
        BY <4>1, <4>2 DEF Newer
      <4>3. CASE d # cap[p]
        <5>1. gens[d] < gens[cap[p]]
          BY <3>1, <4>3
        <5>2. QED
          BY <4>1, <5>1 DEF Newer
      <4>4. QED
        BY <4>2, <4>3
    <3>3. {d \in Generations : Newer(d, cap[p])} = {}
      BY <3>2 DEF Generations
    <3>4. Cardinality({d \in Generations : Newer(d, cap[p])}) = 0
      BY <3>3, FS_EmptySet
    <3>5. ~(Cardinality({d \in Generations : Newer(d, cap[p])}) >= Keep)
      BY <3>4, <2>2
    <3>6. QED
      BY <3>5, Zenon DEF Surplus
  <2>3. QED
    BY <2>1, <2>2
<1>14. ASSUME NEW p \in Procs, PruneStep(p) PROVE Ordered'
  <2>1. pc[p] = "pruning" /\ UNCHANGED <<current, cap, activated, step>>
    BY <1>14 DEF PruneStep
  <2>2. CASE UNCHANGED <<gens, victims>>
    <3>1. Goto(p, "done")
      BY <1>14, <2>2, <2>1 DEF PruneStep
    <3>2. QED
      BY <2>1, <2>2, <3>1, <1>b
  <2>3. CASE ~UNCHANGED <<gens, victims>>
    <3>1. PICK c \in victims[p] : /\ gens' = [gens EXCEPT ![c] = 0]
                                  /\ victims' = [victims EXCEPT ![p] = @ \ {c}]
                                  /\ UNCHANGED pc
      BY <1>14, <2>3 DEF PruneStep
    <3>2. \A q \in Procs : q # p => pc[q] \notin Critical
      BY <2>1, <1>c DEF Critical, PromotionStates
    <3>3. current = cap[p] /\ c \in Captures /\ cap[p] \in Captures
      BY <2>1, <3>1 DEF PromotionStates
    <3>4. ASSUME Keep > 0
          PROVE  Youngest(p)' /\ \A d \in activated : gens'[d] <= gens'[cap[p]]
      <4>1. c # cap[p] /\ Youngest(p)
        BY <2>1, <3>1, <3>4
      <4>2. Youngest(p)'
        BY <2>1, <3>1, <3>3, <4>1
      <4>3. \A d \in activated : gens[d] <= gens[cap[p]]
        BY <3>3, <3>4
      <4>4. QED
        BY <3>1, <3>3, <4>1, <4>2, <4>3
    <3>5. QED
      BY <2>1, <3>1, <3>2, <3>3, <3>4 DEF Critical, PromotionStates
  <2>4. QED
    BY <2>2, <2>3
<1>15. ASSUME NEW p \in Procs, ClearMember(p) PROVE Ordered'
  <2>1. pc[p] = "clearing" /\ UNCHANGED <<cap, activated, victims>>
    BY <1>15 DEF ClearMember
  <2>2. \A q \in Procs : q # p => pc[q] \notin Critical
    BY <2>1, <1>c DEF Critical, PromotionStates
  <2>3. CASE step[p] = 5
    BY <1>15, <2>1, <2>3, <1>b DEF ClearMember
  <2>4. CASE step[p] <= 4
    <3>1. current' = NoCapture /\ UNCHANGED pc
      BY <1>15, <2>1, <2>4 DEF ClearMember, Members
    <3>2. QED
      BY <2>1, <2>2, <3>1 DEF Critical, PromotionStates
  <2>5. QED
    BY <1>15, <2>3, <2>4 DEF ClearMember
<1>16. ASSUME NEW p \in Procs, UnlinkLock(p) PROVE Ordered'
  BY <1>16, <1>b DEF UnlinkLock
<1>17. ASSUME NEW p \in Procs, RemoveRoot(p) PROVE Ordered'
  BY <1>17, <1>b DEF RemoveRoot
<1>18. ASSUME NEW p \in Procs, FinishImport(p) PROVE Ordered'
  BY <1>18, <1>b DEF FinishImport
<1>19. ASSUME NEW p \in Procs, Crash(p) PROVE Ordered'
  BY <1>19, <1>b DEF Crash
<1>20. QED
  BY <1>1, <1>2, <1>3, <1>4, <1>5, <1>6, <1>7, <1>8, <1>9, <1>10, <1>11, <1>12,
     <1>13, <1>14, <1>15, <1>16, <1>17, <1>18, <1>19
  DEF Next, Start, Run

\* current.json names the newest activated descriptor and that generation is
\* retained, whatever the clock reads, whoever crashes, and however many
\* promotions and prunings interleave, until a removal unlinks .lock.
THEOREM CurrentIsNewestAlways == Spec => []CurrentIsNewest
<1>1. OrderInv => CurrentIsNewest
  BY DEF OrderInv, Ordered, CurrentIsNewest
<1>2. Spec => []CaptureInv
  BY TypeInvAlways, CaptureInvInit, CaptureInvStep, PTL DEF Spec
<1>3. Spec => []OrderInv
  BY TypeInvAlways, LockInvAlways, <1>2, OrderInvInit, OrderInvStep, PTL DEF Spec
<1>4. QED
  BY <1>1, <1>3, PTL
-----------------------------------------------------------------------------
(* Pruning.  The surplus is decided once and unlinked file by file, so what *)
(* makes each unlink legitimate is that Keep generations which are newer   *)
(* and no victims are still there.                                         *)

\* The generations newer than c that p is not going to prune.
Spared(p, c) == {d \in Generations \ victims[p] : Newer(d, c)}

SparedInv ==
    ~unlinked =>
        \A p \in Procs : pc[p] = "pruning" =>
            \A c \in victims[p] : Cardinality(Spared(p, c)) >= Keep

PruneInv == IsFiniteSet(Generations) /\ SparedInv

\* Newer is a strict linear order: no two generations have one name.
LEMMA NewerIsLinear ==
    ASSUME TypeInv, NEW c \in Captures, NEW d \in Captures, NEW e \in Captures
    PROVE  /\ ~Newer(c, c)
           /\ c # d => (Newer(c, d) <=> ~Newer(d, c))
           /\ Newer(c, d) /\ Newer(d, e) => Newer(c, e)
<1>1. /\ c \in Nat /\ d \in Nat /\ e \in Nat
      /\ gens[c] \in Nat /\ gens[d] \in Nat /\ gens[e] \in Nat
  BY StoreAssumption DEF StoreAssumption, TypeInv, TypeOK
<1>2. QED
  BY <1>1 DEF Newer

\* A nonempty set of finitely ranked members has one of lowest rank.
LEMMA LowestRank ==
    ASSUME NEW S, S # {}, NEW rank, \A s \in S : rank[s] \in Nat
    PROVE  \E s \in S : \A t \in S : rank[s] <= rank[t]
<1> DEFINE T == {rank[s] : s \in S}
<1>1. T \subseteq Nat /\ T # {}
  OBVIOUS
<1>2. PICK n \in T : \A m \in T : <<m, n>> \notin OpToRel(<, Nat)
  <2> HIDE DEF T
  <2>1. QED
    BY <1>1, WFMin, NatLessThanWellFounded, Zenon
<1>3. \A m \in T : ~(m < n)
  BY <1>1, <1>2, Zenon DEF OpToRel
<1>4. \A m \in T : n <= m
  <2> HIDE DEF T
  <2>1. QED
    BY <1>1, <1>3
<1>5. QED
  BY <1>4

\* The surplus is older than Keep generations that are no surplus.
LEMMA SurplusLeavesKeep ==
    ASSUME TypeInv, IsFiniteSet(Generations), NEW c \in Surplus
    PROVE  Cardinality({d \in Generations \ Surplus : Newer(d, c)}) >= Keep
<1> DEFINE Above(d) == {e \in Generations : Newer(e, d)}
           rank == [d \in Captures |-> Cardinality(Above(d))]
<1>1. Generations \subseteq Captures /\ Surplus \subseteq Generations
  BY DEF Generations, Surplus
<1>2. \A d \in Captures :
          /\ IsFiniteSet(Above(d)) /\ rank[d] = Cardinality(Above(d)) /\ rank[d] \in Nat
          /\ d \in Surplus <=> d \in Generations /\ rank[d] >= Keep
  <2>1. ASSUME NEW d \in Captures
        PROVE  IsFiniteSet(Above(d)) /\ Cardinality(Above(d)) \in Nat
    BY FS_Subset, FS_CardinalityType
  <2>2. QED
    BY <2>1 DEF Surplus
<1>3. PICK w \in Surplus : \A d \in Surplus : rank[w] <= rank[d]
  <2>1. \A s \in Surplus : rank[s] \in Nat
    BY <1>1, <1>2
  <2> HIDE DEF rank
  <2>2. QED
    BY <2>1, LowestRank
<1>4. w \in Captures /\ c \in Captures
  BY <1>1
\* What is newer than w has fewer above it, and so is no surplus.
<1>5. ASSUME NEW d \in Above(w) PROVE d \notin Surplus
  <2>1. d \in Captures /\ Newer(d, w)
    BY <1>1
  <2>2. Above(d) \subseteq Above(w) \ {d}
    BY <1>1, <1>4, <2>1, NewerIsLinear
  <2>3. rank[d] < rank[w]
    <3> DEFINE A == Above(w)
               B == Above(d)
    <3>1. IsFiniteSet(A) /\ d \in A /\ B \in SUBSET (A \ {d})
      BY <1>2, <1>4, <2>2
    <3>2. Cardinality(A) \in Nat /\ Cardinality(B) \in Nat
      BY <1>2, <1>4, <2>1
    <3>3. rank[d] = Cardinality(B) /\ rank[w] = Cardinality(A)
      BY <1>2, <1>4, <2>1
    <3> HIDE DEF A, B, rank
    <3>4. IsFiniteSet(A \ {d}) /\ Cardinality(A \ {d}) = Cardinality(A) - 1
      BY <3>1, FS_RemoveElement
    <3>5. Cardinality(B) <= Cardinality(A \ {d})
      BY <3>1, <3>4, FS_Subset
    <3>6. QED
      BY <3>2, <3>3, <3>4, <3>5
  <2>4. QED
    <3> HIDE DEF rank, Above
    <3>1. QED
      BY <1>2, <1>3, <1>4, <2>1, <2>3
<1>6. c = w \/ Newer(w, c)
  <2>1. CASE Newer(c, w)
    BY <1>1, <1>5, <2>1
  <2>2. CASE ~Newer(c, w)
    BY <1>4, <2>2, NewerIsLinear
  <2>3. QED
    BY <2>1, <2>2
<1>7. Above(w) \subseteq {d \in Generations \ Surplus : Newer(d, c)}
  BY <1>1, <1>4, <1>5, <1>6, NewerIsLinear
<1>8. IsFiniteSet({d \in Generations \ Surplus : Newer(d, c)})
  BY FS_Subset
<1>9. Cardinality(Above(w)) >= Keep /\ Cardinality(Above(w)) \in Nat
  BY <1>2, <1>4
<1>10. QED
  <2> DEFINE A == Above(w)
             B == {d \in Generations \ Surplus : Newer(d, c)}
  <2>1. A \in SUBSET B /\ IsFiniteSet(B) /\ Cardinality(A) >= Keep
    BY <1>7, <1>8, <1>9
  <2> HIDE DEF A, B
  <2>2. Cardinality(A) <= Cardinality(B) /\ Cardinality(A) \in Nat
        /\ Cardinality(B) \in Nat
    BY <2>1, FS_Subset, FS_CardinalityType
  <2>3. Cardinality(B) >= Keep
    BY <2>1, <2>2, StoreAssumption DEF StoreAssumption
  <2>4. QED
    BY <2>3 DEF B

LEMMA PruneInvInit == Init => PruneInv
<1> SUFFICES ASSUME Init PROVE PruneInv
  OBVIOUS
<1>1. Generations = {}
  BY DEF Init, Generations
<1>2. SparedInv
  BY DEF Init, SparedInv
<1>3. QED
  BY <1>1, <1>2, FS_EmptySet DEF PruneInv

\* A step changes generations/ only under the lock, one file at a time or all.
LEMMA GenerationsChange ==
    ASSUME TypeInv, [Next]_vars, ~UNCHANGED gens
    PROVE  /\ \E p \in Procs : InCritical(p)
           /\ \/ \E c \in Captures, n \in Nat : gens' = [gens EXCEPT ![c] = n]
              \/ gens' = [c \in Captures |-> 0]
<1> USE StoreAssumption
    DEF StoreAssumption, TypeInv, TypeOK, Owned, InCritical, Critical,
        PromotionStates, store, local
<1>1. ASSUME NEW p \in Procs, Rename(p)
      PROVE  InCritical(p) /\ \E c \in Captures, n \in Nat : gens' = [gens EXCEPT ![c] = n]
  BY <1>1 DEF Rename
<1>2. ASSUME NEW p \in Procs, NEW now \in Clock, Stamp(p, now)
      PROVE  InCritical(p) /\ \E c \in Captures, n \in Nat : gens' = [gens EXCEPT ![c] = n]
  BY <1>2 DEF Stamp
<1>3. ASSUME NEW p \in Procs, PruneStep(p)
      PROVE  InCritical(p) /\ \E c \in Captures, n \in Nat : gens' = [gens EXCEPT ![c] = n]
  BY <1>3 DEF PruneStep
<1>4. ASSUME NEW p \in Procs, ClearMember(p)
      PROVE  InCritical(p) /\ gens' = [c \in Captures |-> 0]
  <2>1. InCritical(p)
    BY <1>4 DEF ClearMember
  <2>2. gens' = [c \in Captures |-> 0]
    BY <1>4, Zenon DEF ClearMember
  <2>3. QED
    BY <2>1, <2>2
<1>5. \E p \in Procs :
        Rename(p) \/ (\E now \in Clock : Stamp(p, now)) \/ PruneStep(p) \/ ClearMember(p)
  BY Zenon
  DEF Next, Start, Run, vars, store, Capture, StartRemove, StartImport, MakeRoot,
      OpenLock, ChmodLock, Acquire, WriteTemp, Activate, ScanGenerations, UnlinkLock,
      RemoveRoot, FinishImport, Crash
<1>6. QED
  BY <1>1, <1>2, <1>3, <1>4, <1>5, Zenon

LEMMA GenerationsStayFinite ==
    ASSUME TypeInv, [Next]_vars, IsFiniteSet(Generations)
    PROVE  IsFiniteSet(Generations')
<1>1. CASE UNCHANGED gens
  BY <1>1 DEF Generations
<1>2. CASE \E c \in Captures, n \in Nat : gens' = [gens EXCEPT ![c] = n]
  <2>1. PICK c \in Captures, n \in Nat : gens' = [gens EXCEPT ![c] = n]
    BY <1>2
  <2>2. Generations' \subseteq Generations \cup {c}
    BY <2>1 DEF Generations, TypeInv, TypeOK
  <2>3. QED
    BY <2>2, FS_AddElement, FS_Subset
<1>3. CASE gens' = [c \in Captures |-> 0]
  <2>1. Generations' = {}
    BY <1>3 DEF Generations
  <2>2. QED
    BY <2>1, FS_EmptySet
<1>4. QED
  BY <1>1, <1>2, <1>3, GenerationsChange

LEMMA ScanBeginsPruning ==
    ASSUME TypeInv, [Next]_vars, NEW p \in Procs, pc[p] # "pruning", pc'[p] = "pruning"
    PROVE  ScanGenerations(p)
<1> USE DEF TypeInv, TypeOK, Goto, Release
<1>1. PICK q \in Procs : Start(q) \/ Run(q) \/ Crash(q)
  BY DEF Next, vars, local
<1>2. CASE Start(q)
  BY <1>2 DEF Start, Capture, StartRemove, StartImport
<1>3. CASE Crash(q)
  BY <1>3 DEF Crash
<1>4. CASE Run(q)
  <2>1. ASSUME MakeRoot(q) \/ OpenLock(q) \/ ChmodLock(q) \/ Acquire(q) PROVE FALSE
    BY <2>1 DEF MakeRoot, OpenLock, ChmodLock, Acquire
  <2>2. ASSUME Rename(q) PROVE FALSE
    BY <2>2 DEF Rename
  <2>3. ASSUME NEW now \in Clock, Stamp(q, now) PROVE FALSE
    BY <2>3 DEF Stamp
  <2>4. ASSUME WriteTemp(q) \/ Activate(q) PROVE FALSE
    BY <2>4 DEF WriteTemp, Activate
  <2>5. ASSUME PruneStep(q) PROVE FALSE
    BY <2>5 DEF PruneStep
  <2>6. ASSUME ClearMember(q) PROVE FALSE
    BY <2>6 DEF ClearMember
  <2>7. ASSUME UnlinkLock(q) \/ RemoveRoot(q) \/ FinishImport(q) PROVE FALSE
    BY <2>7 DEF UnlinkLock, RemoveRoot, FinishImport
  <2>8. CASE ScanGenerations(q)
    BY <2>8 DEF ScanGenerations
  <2>9. QED
    BY <1>4, <2>1, <2>2, <2>3, <2>4, <2>5, <2>6, <2>7, <2>8 DEF Run
<1>5. QED
  BY <1>1, <1>2, <1>3, <1>4

LEMMA SparedInvStep ==
    TypeInv /\ LockInv /\ PruneInv /\ [Next]_vars => SparedInv'
<1> SUFFICES ASSUME TypeInv, LockInv, PruneInv, [Next]_vars,
                    ~unlinked, ~unlinked',
                    NEW p \in Procs, pc'[p] = "pruning", NEW c \in victims'[p]
             PROVE  Cardinality(Spared(p, c)') >= Keep
  BY UnlinkedStays DEF SparedInv
<1> USE DEF TypeInv, TypeOK
<1>1. CASE pc[p] = "pruning" /\ UNCHANGED <<gens, victims>>
  <2>1. Spared(p, c)' = Spared(p, c)
    BY <1>1 DEF Spared, Generations, Newer
  <2>2. QED
    BY <1>1, <2>1 DEF PruneInv, SparedInv
<1>2. CASE pc[p] = "pruning" /\ ~UNCHANGED <<gens, victims>>
  <2>1. \A q \in Procs : q # p => ~InCritical(q)
    BY <1>2, ExclusionFromLock
    DEF SerializedUntilUnlink, InCritical, Critical, PromotionStates
  <2>2. PruneStep(p)
    <3>1. PICK q \in Procs :
            Rename(q) \/ (\E now \in Clock : Stamp(q, now)) \/ ScanGenerations(q)
              \/ PruneStep(q) \/ ClearMember(q)
      BY <1>2, Zenon
      DEF Next, Start, Run, vars, store, local, Capture, StartRemove, StartImport,
          MakeRoot, OpenLock, ChmodLock, Acquire, WriteTemp, Activate, UnlinkLock,
          RemoveRoot, FinishImport, Crash
    <3>2. InCritical(q)
      BY <3>1
      DEF Rename, Stamp, ScanGenerations, PruneStep, ClearMember, InCritical,
          Critical, PromotionStates
    <3>3. QED
      BY <1>2, <2>1, <3>1, <3>2 DEF Rename, Stamp, ScanGenerations, ClearMember
  <2>3. PICK v \in victims[p] : /\ gens' = [gens EXCEPT ![v] = 0]
                                /\ victims' = [victims EXCEPT ![p] = @ \ {v}]
    BY <1>2, <2>2 DEF PruneStep
  \* What is unlinked was no spared generation of any victim.
  <2>4. c \in victims[p] /\ c # v /\ victims[p] \subseteq Captures
    BY <2>3
  <2>5. \A d \in Captures : d # v => gens'[d] = gens[d]
    BY <2>3, <2>4
  <2>6. Generations' = Generations \ {v} /\ victims'[p] = victims[p] \ {v}
    BY <2>3, <2>4, <2>5 DEF Generations
  <2>7. \A d \in Captures : d # v => (Newer(d, c)' <=> Newer(d, c))
    BY <2>4, <2>5 DEF Newer
  <2>8. Spared(p, c)' = Spared(p, c)
    BY <2>4, <2>6, <2>7 DEF Spared, Generations
  <2>9. QED
    BY <1>2, <2>4, <2>8 DEF PruneInv, SparedInv
<1>3. CASE pc[p] # "pruning"
  <2>1. ScanGenerations(p)
    BY <1>3, ScanBeginsPruning
  <2>2. victims'[p] = Surplus /\ UNCHANGED gens
    BY <2>1 DEF ScanGenerations, store
  <2>3. Spared(p, c)' = {d \in Generations \ Surplus : Newer(d, c)}
    BY <2>2 DEF Spared, Generations, Newer
  <2>4. QED
    BY <2>2, <2>3, SurplusLeavesKeep DEF PruneInv
<1>4. QED
  BY <1>1, <1>2, <1>3

LEMMA PruneInvStep == TypeInv /\ LockInv /\ PruneInv /\ [Next]_vars => PruneInv'
  BY SparedInvStep, GenerationsStayFinite DEF PruneInv

LEMMA PruneInvAlways == Spec => []PruneInv
  BY TypeInvAlways, LockInvAlways, PruneInvInit, PruneInvStep, PTL DEF Spec
-----------------------------------------------------------------------------
(* The refinement.  Every step of a process is one step of GenerationLog   *)
(* or leaves generations/, their order and current.json alone.             *)

\* Two sets of pairs over S are equal when they have the same pairs.
LEMMA PairSets ==
    ASSUME NEW S, NEW A \in SUBSET (S \X S), NEW B \in SUBSET (S \X S),
           \A c, d \in S : <<c, d>> \in A <=> <<c, d>> \in B
    PROVE  A = B
  OBVIOUS

LEMMA ByAgePairs ==
    /\ ByAge \in SUBSET (Generations \X Generations)
    /\ \A c, d \in Generations : <<c, d>> \in ByAge <=> Newer(c, d)
  BY DEF ByAge

InLine == Log!LinearOrder(ByAge, Generations)

LEMMA ByAgeIsLinear == TypeInv => InLine
<1> SUFFICES ASSUME TypeInv PROVE InLine
  OBVIOUS
<1>1. \A c \in Generations : c \in Captures
  BY DEF Generations
<1>2. ASSUME NEW c \in Generations, NEW d \in Generations
      PROVE  <<c, d>> \in ByAge <=> c # d /\ <<d, c>> \notin ByAge
  BY <1>1, ByAgePairs, NewerIsLinear
<1>3. ASSUME NEW c \in Generations, NEW d \in Generations, NEW e \in Generations
      PROVE  <<c, d>> \in ByAge /\ <<d, e>> \in ByAge => <<c, e>> \in ByAge
  BY <1>1, ByAgePairs, NewerIsLinear
<1>4. QED
  BY <1>2, <1>3, ByAgePairs DEF InLine, Log!LinearOrder

LEMMA LogCardinality == \A S : Log!Cardinality(S) = Cardinality(S)
  BY Zenon DEF Log!Cardinality, Cardinality

LEMMA LogInit == Init => Log!Init
  BY DEF Init, Log!Init, ByAge, Generations

\* A rename into generations/ retains the capture where its mtime puts it.
LEMMA RenameRetains ==
    ASSUME TypeInv, TypeInv', NEW c \in Captures, NEW n \in Nat \ {0}, gens[c] = 0,
           gens' = [gens EXCEPT ![c] = n], UNCHANGED current
    PROVE  Log!Retain(c)
<1>1. Log!LinearOrder(ByAge', Generations')
  <2>1. TypeInv' => InLine'
    BY ByAgeIsLinear, PTL
  <2>2. QED
    BY <2>1 DEF InLine
<1> USE DEF TypeInv, TypeOK
<1>2. c \notin Generations /\ Generations' = Generations \cup {c}
  BY DEF Generations
<1>3. \A d, e \in Generations : Newer(d, e)' <=> Newer(d, e)
  BY <1>2 DEF Newer, Generations
<1>4. ByAge' \cap (Generations \X Generations) = ByAge
  <2>1. \A d, e \in Generations' : <<d, e>> \in ByAge' <=> Newer(d, e)'
    BY DEF ByAge
  <2>2. \A d, e \in Generations :
            <<d, e>> \in ByAge' \cap (Generations \X Generations) <=> <<d, e>> \in ByAge
    BY <1>2, <1>3, <2>1, ByAgePairs
  <2>3. QED
    BY <2>2, ByAgePairs, PairSets
<1>5. QED
  BY <1>2, <1>1, <1>4 DEF Log!Retain

\* The stamp makes the capture the newest generation.
LEMMA StampPromotes ==
    ASSUME TypeInv, NEW c \in Captures, c # current, gens[c] # 0,
           NEW n \in Nat, \A d \in Captures : n > gens[d],
           gens' = [gens EXCEPT ![c] = n], UNCHANGED current
    PROVE  Log!Promote(c)
<1> USE DEF TypeInv, TypeOK
<1>1. Generations' = Generations /\ c \in Generations /\ Generations \subseteq Captures
  BY DEF Generations
<1>2. \A d, e \in Captures : d # c /\ e # c => (Newer(d, e)' <=> Newer(d, e))
  BY DEF Newer
<1>3. \A d \in Captures : d # c => Newer(c, d)' /\ ~Newer(d, c)'
  BY DEF Newer
<1>4. ~Newer(c, c)'
  BY StoreAssumption DEF StoreAssumption, Newer
<1> DEFINE Rest == Generations \ {c}
           Stamped == (ByAge \cap (Rest \X Rest)) \cup ({c} \X Rest)
<1>5. ByAge' = Stamped
  <2>1. \A d, e \in Generations : <<d, e>> \in ByAge' <=> Newer(d, e)'
    BY <1>1 DEF ByAge
  <2>2. \A d, e \in Generations : <<d, e>> \in ByAge' <=> <<d, e>> \in Stamped
    BY <1>1, <1>2, <1>3, <1>4, <2>1, ByAgePairs
  <2>3. Stamped \in SUBSET (Generations \X Generations)
        /\ ByAge' \in SUBSET (Generations \X Generations)
    BY <1>1, ByAgePairs DEF ByAge
  <2> DEFINE aged == ByAge'
  <2> HIDE DEF Stamped, aged
  <2>4. aged = Stamped
    <3>1. aged \in SUBSET (Generations \X Generations)
      BY <2>3, Zenon DEF aged
    <3>2. \A d, e \in Generations : <<d, e>> \in aged <=> <<d, e>> \in Stamped
      BY <2>2, Zenon DEF aged
    <3>3. Stamped \in SUBSET (Generations \X Generations)
      BY <2>3, Zenon
    <3>4. QED
      BY <3>1, <3>2, <3>3, PairSets, ZenonT(60)
  <2>5. QED
    BY <2>4 DEF aged
<1>6. QED
  BY <1>1, <1>5 DEF Log!Promote, Log!Among

\* An unlink takes one generation out of the order.
LEMMA UnlinkTrims ==
    ASSUME TypeInv, NEW c \in Generations,
           Cardinality({d \in Generations : Newer(d, c)}) >= Keep,
           c # current \/ Keep = 0,
           gens' = [gens EXCEPT ![c] = 0], UNCHANGED current
    PROVE  Log!Trim(c)
<1> USE DEF TypeInv, TypeOK
<1> DEFINE Rest == Generations \ {c}
<1>1. Generations' = Rest /\ Generations \subseteq Captures
  BY DEF Generations
<1>2. \A d, e \in Rest : Newer(d, e)' <=> Newer(d, e)
  BY <1>1 DEF Newer
<1>3. ByAge' = ByAge \cap (Rest \X Rest)
  <2>1. \A d, e \in Rest : <<d, e>> \in ByAge' <=> Newer(d, e)'
    BY <1>1 DEF ByAge
  <2>2. \A d, e \in Rest : <<d, e>> \in ByAge' <=> <<d, e>> \in ByAge \cap (Rest \X Rest)
    BY <1>2, <2>1, ByAgePairs
  <2>3. ByAge' \in SUBSET (Rest \X Rest)
    BY <1>1 DEF ByAge
  <2>4. QED
    BY <2>2, <2>3, PairSets
<1>4. {d \in Generations : <<d, c>> \in ByAge} = {d \in Generations : Newer(d, c)}
  BY ByAgePairs
<1>5. QED
  BY <1>1, <1>3, <1>4, LogCardinality DEF Log!Trim, Log!Among

LEMMA ClearEmpties ==
    ASSUME gens' = [c \in Captures |-> 0], current = NoCapture, UNCHANGED current
    PROVE  Log!Clear
<1>1. Generations' = {}
  BY DEF Generations
<1>2. ByAge' = {}
  BY <1>1 DEF ByAge
<1>3. QED
  BY <1>1, <1>2 DEF Log!Clear

StoreInv == TypeInv /\ LockInv /\ CaptureInv /\ OrderInv /\ PruneInv

LEMMA StoreInvAlways == Spec => []StoreInv
<1>1. Spec => []CaptureInv
  BY TypeInvAlways, CaptureInvInit, CaptureInvStep, PTL DEF Spec
<1>2. Spec => []OrderInv
  BY TypeInvAlways, LockInvAlways, <1>1, OrderInvInit, OrderInvStep, PTL DEF Spec
<1>3. QED
  BY TypeInvAlways, LockInvAlways, PruneInvAlways, <1>1, <1>2, PTL DEF StoreInv

\* What readers see changes in four actions of promote_generation and in the
\* clearing of the store, and each time as the log allows.
LEMMA LogKeeps ==
    ASSUME StoreInv, StoreInv', ~unlinked, ~unlinked', NEW p \in Procs,
           Rename(p) \/ (\E now \in Clock : Stamp(p, now)) \/ Activate(p)
             \/ PruneStep(p) \/ ClearMember(p)
    PROVE  Log!Keeping \/ UNCHANGED <<gens, current>>
<1>a. TypeInv /\ TypeInv' /\ CaptureInv /\ Ordered /\ SparedInv
  BY DEF StoreInv, OrderInv, PruneInv
<1>b. \A c \in Captures : Log!Retain(c) => Log!Keeping
  BY DEF Log!Keeping
<1>c. \A c \in Generations : Log!Promote(c) \/ Log!Switch(c) \/ Log!Trim(c) => Log!Keeping
  BY DEF Log!Keeping
<1>1. CASE Rename(p)
  <2>1. CASE UNCHANGED gens
    BY <1>1, <2>1 DEF Rename
  <2>2. CASE ~UNCHANGED gens
    <3>1. /\ cap[p] \in Captures /\ pending[cap[p]] \in Nat \ {0} /\ gens[cap[p]] = 0
          /\ gens' = [gens EXCEPT ![cap[p]] = pending[cap[p]]] /\ UNCHANGED current
      BY <1>1, <1>a, <2>2 DEF Rename, TypeInv, TypeOK, Owned, PromotionStates
    <3>2. QED
      BY <1>a, <1>b, <3>1, RenameRetains
  <2>3. QED
    BY <2>1, <2>2
<1>2. CASE \E now \in Clock : Stamp(p, now)
  <2>1. CASE UNCHANGED gens
    BY <1>2, <2>1 DEF Stamp
  <2>2. CASE ~UNCHANGED gens
    <3>1. pc[p] = "renamed" /\ UNCHANGED current /\ gens[cap[p]] # 0
      BY <1>2, <2>2 DEF Stamp
    <3>2. PICK t \in Times : /\ gens' = [gens EXCEPT ![cap[p]] = t]
                             /\ \A c \in Captures : t > gens[c]
      BY <1>2, <2>2 DEF Stamp, NextActivation
    <3>3. cap[p] \in Captures /\ cap[p] \notin activated
      BY <1>a, <3>1
      DEF TypeInv, Owned, CaptureInv, BeforeActivation, PromotionStates
    <3>4. cap[p] # current
      BY <1>a, <3>3, StoreAssumption DEF CaptureInv, StoreAssumption
    <3>5. t \in Nat /\ cap[p] \in Generations
      BY <3>1, <3>3, StoreAssumption DEF StoreAssumption, Generations
    <3>6. QED
      BY <1>a, <1>c, <3>1, <3>2, <3>3, <3>4, <3>5, StampPromotes
  <2>3. QED
    BY <2>1, <2>2
<1>3. CASE Activate(p)
  <2>1. pc[p] = "temp" /\ current' = cap[p] /\ UNCHANGED gens
    BY <1>3 DEF Activate
  <2>2. cap[p] \in Captures /\ Youngest(p)
    BY <1>a, <2>1 DEF TypeInv, Owned, PromotionStates, Ordered
  <2>3. cap[p] \in Generations /\ Generations' = Generations /\ ByAge' = ByAge
    BY <2>1, <2>2 DEF Youngest, Generations, ByAge, Newer
  <2>4. \A d \in Generations \ {cap[p]} : Newer(cap[p], d)
    BY <1>a, <2>2 DEF Youngest, Generations, Newer, TypeInv, TypeOK
  <2>5. Log!Switch(cap[p])
    BY <2>1, <2>3, <2>4, ByAgePairs DEF Log!Switch
  <2>6. QED
    BY <1>c, <2>3, <2>5
<1>4. CASE PruneStep(p)
  <2>1. CASE UNCHANGED gens
    BY <1>4, <2>1 DEF PruneStep
  <2>2. CASE ~UNCHANGED gens
    <3>1. pc[p] = "pruning" /\ UNCHANGED current
      BY <1>4 DEF PruneStep
    <3>2. PICK c \in victims[p] : gens[c] # 0 /\ gens' = [gens EXCEPT ![c] = 0]
      BY <1>4, <2>2 DEF PruneStep
    <3>3. c \in Generations
      BY <1>a, <3>2 DEF TypeInv, TypeOK, Generations
    <3>4. c # current \/ Keep = 0
      BY <1>a, <3>1, StoreAssumption DEF Ordered, StoreAssumption
    <3>5. Cardinality({d \in Generations : Newer(d, c)}) >= Keep
      <4> DEFINE All == {d \in Generations : Newer(d, c)}
      <4>1. Spared(p, c) \subseteq All /\ IsFiniteSet(All)
        BY FS_Subset DEF Spared, StoreInv, PruneInv
      <4>2. Cardinality(Spared(p, c)) >= Keep
        BY <1>a, <3>1 DEF SparedInv
      <4> HIDE DEF All
      <4>3. /\ Cardinality(Spared(p, c)) <= Cardinality(All)
            /\ Cardinality(Spared(p, c)) \in Nat /\ Cardinality(All) \in Nat
        BY <4>1, FS_Subset, FS_CardinalityType
      <4>4. Cardinality(All) >= Keep
        BY <4>2, <4>3, StoreAssumption DEF StoreAssumption
      <4>5. QED
        BY <4>4 DEF All
    <3>6. QED
      BY <1>a, <1>c, <3>1, <3>2, <3>3, <3>4, <3>5, UnlinkTrims
  <2>3. QED
    BY <2>1, <2>2
<1>5. CASE ClearMember(p)
  <2>1. CASE step[p] = 5 \/ step[p] = 2 \/ step[p] = 4
    BY <1>5, <2>1 DEF ClearMember, Members
  <2>2. CASE step[p] = 1
    <3>1. current' = NoCapture /\ UNCHANGED gens
      BY <1>5, <2>2 DEF ClearMember, Members
    <3>2. Log!Forget
      BY <3>1 DEF Log!Forget, Generations, ByAge, Newer
    <3>3. QED
      BY <3>2 DEF Log!Keeping
  <2>3. CASE step[p] = 3
    <3>1. gens' = [c \in Captures |-> 0] /\ UNCHANGED current /\ current = NoCapture
      BY <1>5, <1>a, <2>3 DEF ClearMember, Members, Ordered
    <3>2. QED
      BY <3>1, ClearEmpties DEF Log!Keeping
  <2>4. QED
    BY <1>a, <2>1, <2>2, <2>3 DEF TypeInv, TypeOK
<1>6. QED
  BY <1>1, <1>2, <1>3, <1>4, <1>5

LEMMA LogStep == StoreInv /\ StoreInv' /\ [Next]_vars => [Log!Next]_(Log!vars)
<1> SUFFICES ASSUME StoreInv, StoreInv', [Next]_vars
             PROVE  Log!Next \/ UNCHANGED Log!vars
  OBVIOUS
<1>1. unlinked \in BOOLEAN /\ unlinked' \in BOOLEAN
  BY DEF StoreInv, TypeInv, TypeOK
<1>2. ASSUME UNCHANGED <<gens, current, unlinked>> PROVE UNCHANGED Log!vars
  BY <1>2 DEF Log!vars, Generations, ByAge, Newer
<1>3. CASE unlinked
  <2>1. unlinked'
    BY <1>3, UnlinkedStays DEF StoreInv
  <2>2. QED
    BY <1>3, <2>1 DEF Log!Next
<1>4. CASE ~unlinked /\ unlinked'
  <2>1. UNCHANGED <<gens, current>>
    BY <1>4, <1>1, Zenon
    DEF Next, Start, Run, vars, store, local, Capture, StartRemove, StartImport,
        MakeRoot, OpenLock, ChmodLock, Acquire, Rename, Stamp, WriteTemp, Activate,
        ScanGenerations, PruneStep, ClearMember, UnlinkLock, RemoveRoot, FinishImport,
        Crash
  <2>2. Log!Lose
    BY <1>4, <2>1 DEF Log!Lose, Generations, ByAge, Newer
  <2>3. QED
    BY <2>2 DEF Log!Next
<1>5. CASE ~unlinked /\ ~unlinked'
  <2>1. CASE UNCHANGED <<gens, current>>
    BY <1>1, <1>2, <1>5, <2>1
  <2>2. CASE ~UNCHANGED <<gens, current>>
    <3>1. \E p \in Procs :
            Rename(p) \/ (\E now \in Clock : Stamp(p, now)) \/ Activate(p)
              \/ PruneStep(p) \/ ClearMember(p)
      BY <2>2, Zenon
      DEF Next, Start, Run, vars, store, local, Capture, StartRemove, StartImport,
          MakeRoot, OpenLock, ChmodLock, Acquire, WriteTemp, ScanGenerations,
          UnlinkLock, RemoveRoot, FinishImport, Crash
    <3>2. Log!Keeping
      BY <1>5, <2>2, <3>1, LogKeeps
    <3>3. QED
      BY <1>5, <3>2 DEF Log!Next
  <2>3. QED
    BY <2>1, <2>2
<1>6. QED
  BY <1>3, <1>4, <1>5

\* Whatever promotions, removals, imports and crashes interleave, and for every
\* retention limit and clock, readers see a log whose newest entry alone becomes
\* current and from which only what Keep newer ones outlive is trimmed.
THEOREM StoreImplementsLog == Spec => ImplementsLog
  BY StoreInvAlways, LogInit, LogStep, PTL DEF Spec, ImplementsLog, Log!Spec
-----------------------------------------------------------------------------
(* The same store as one of DescriptorStores.                              *)

\* A descriptor is in one place, a capture of the store has its promotion, and
\* a removal unlinks .lock after it has been through both directories.
PlaceInv ==
    /\ \A c \in Captures : gens[c] # 0 => pending[c] = 0
    /\ \A c \in Captures : gens[c] # 0 \/ pending[c] # 0 => \E p \in Procs : cap[p] = c
    /\ \A p \in Procs : pc[p] = "unlocked" => step[p] = 5
    /\ unlinked => \E p \in Procs : step[p] = 5

LEMMA PlaceInvInit == Init => PlaceInv
  BY DEF Init, PlaceInv

LEMMA PlaceInvStep == TypeInv /\ CaptureInv /\ PlaceInv /\ [Next]_vars => PlaceInv'
<1> SUFFICES ASSUME TypeInv, CaptureInv, PlaceInv, [Next]_vars PROVE PlaceInv'
  OBVIOUS
<1> USE DEF TypeInv, TypeOK, Owned, PlaceInv, Goto, Release, store, local
\* Most operations move no descriptor and finish no removal.
<1>1. ASSUME UNCHANGED <<gens, pending, cap, step, unlinked>>,
             \A p \in Procs : pc'[p] = "unlocked" => pc[p] = "unlocked"
      PROVE  PlaceInv'
  BY <1>1
<1>2. CASE UNCHANGED vars
  BY <1>1, <1>2 DEF vars
<1>3. ASSUME NEW p \in Procs, NEW c \in Captures, NEW now \in Clock, Capture(p, c, now)
      PROVE  PlaceInv'
  <2>1. /\ pending' = [pending EXCEPT ![c] = now] /\ cap' = [cap EXCEPT ![p] = c]
        /\ pc' = [pc EXCEPT ![p] = "captured"] /\ UNCHANGED <<gens, step, unlinked>>
    BY <1>3 DEF Capture
  <2>2. gens[c] = 0 /\ cap[p] = NoCapture
    BY <1>3 DEF Capture, CaptureInv
  <2>3. \A d \in Captures, q \in Procs : cap[q] = d => cap'[q] = d
    BY <2>1, <2>2, StoreAssumption DEF StoreAssumption
  <2>4. cap'[p] = c
    BY <2>1
  <2>5. \A d \in Captures : gens'[d] # 0 \/ pending'[d] # 0 => \E q \in Procs : cap'[q] = d
    BY <2>1, <2>3, <2>4
  <2>6. QED
    BY <2>1, <2>2, <2>5
<1>4. ASSUME NEW p \in Procs, Rename(p) PROVE PlaceInv'
  <2>1. cap[p] \in Captures
    BY <1>4 DEF Rename, PromotionStates
  <2>2. CASE UNCHANGED <<gens, pending>>
    BY <1>1, <1>4, <2>2 DEF Rename
  <2>3. CASE gens' = [gens EXCEPT ![cap[p]] = pending[cap[p]]]
             /\ pending' = [pending EXCEPT ![cap[p]] = 0]
    BY <1>4, <2>1, <2>3 DEF Rename
  <2>4. QED
    BY <1>4, <2>2, <2>3 DEF Rename
<1>5. ASSUME NEW p \in Procs, NEW now \in Clock, Stamp(p, now) PROVE PlaceInv'
  <2>1. cap[p] \in Captures
    BY <1>5 DEF Stamp, PromotionStates
  <2>2. \A c \in Captures : gens'[c] # 0 => gens[c] # 0
    BY <1>5, <2>1 DEF Stamp
  <2>3. UNCHANGED <<pending, cap, step, unlinked>>
        /\ \A q \in Procs : pc'[q] = "unlocked" => pc[q] = "unlocked"
    BY <1>5 DEF Stamp
  <2>4. QED
    BY <2>2, <2>3
<1>6. ASSUME NEW p \in Procs, PruneStep(p) PROVE PlaceInv'
  <2>1. \A c \in Captures : gens'[c] # 0 => gens[c] # 0
    BY <1>6 DEF PruneStep
  <2>2. UNCHANGED <<pending, cap, step, unlinked>>
        /\ \A q \in Procs : pc'[q] = "unlocked" => pc[q] = "unlocked"
    BY <1>6 DEF PruneStep
  <2>3. QED
    BY <2>1, <2>2
<1>7. ASSUME NEW p \in Procs, ClearMember(p) PROVE PlaceInv'
  <2>1. CASE step[p] = 5
    BY <1>7, <2>1 DEF ClearMember
  <2>2. CASE step[p] <= 4
    <3>1. \A c \in Captures : gens'[c] \in {0, gens[c]} /\ pending'[c] \in {0, pending[c]}
      BY <1>7, <2>2 DEF ClearMember
    <3>2. UNCHANGED <<pc, cap, unlinked>> /\ step' = [step EXCEPT ![p] = @ + 1]
      BY <1>7, <2>2 DEF ClearMember
    <3>3. \A q \in Procs : step[q] = 5 => step'[q] = 5
      BY <2>2, <3>2
    <3>4. QED
      BY <3>1, <3>2, <3>3
  <2>3. QED
    BY <1>7, <2>1, <2>2 DEF ClearMember
<1>8. ASSUME NEW p \in Procs, UnlinkLock(p) PROVE PlaceInv'
  <2>1. pc[p] = "unlocked" /\ pc' = [pc EXCEPT ![p] = "bare"]
        /\ UNCHANGED <<gens, pending, cap, step>>
    BY <1>8 DEF UnlinkLock
  <2>2. QED
    BY <2>1
<1>9. ASSUME NEW p \in Procs,
             StartRemove(p) \/ StartImport(p) \/ MakeRoot(p) \/ OpenLock(p) \/ ChmodLock(p)
               \/ Acquire(p) \/ WriteTemp(p) \/ Activate(p) \/ ScanGenerations(p)
               \/ RemoveRoot(p) \/ FinishImport(p) \/ Crash(p)
      PROVE  PlaceInv'
  <2>1. UNCHANGED <<gens, pending, cap, step, unlinked>>
    BY <1>9, Zenon
    DEF StartRemove, StartImport, MakeRoot, OpenLock, ChmodLock, Acquire, WriteTemp, Activate,
        ScanGenerations, RemoveRoot, FinishImport, Crash
  <2>2. \A q \in Procs : pc'[q] = "unlocked" => pc[q] = "unlocked"
    BY <1>9
    DEF StartRemove, StartImport, MakeRoot, OpenLock, ChmodLock, Acquire, WriteTemp, Activate,
        ScanGenerations, RemoveRoot, FinishImport, Crash
  <2>3. QED
    BY <1>1, <2>1, <2>2
<1>10. QED
  BY <1>2, <1>3, <1>4, <1>5, <1>6, <1>7, <1>8, <1>9 DEF Next, Start, Run

LEMMA DescriptorsCardinality == \A S : Descriptors!Cardinality(S) = Cardinality(S)
  BY Zenon DEF Descriptors!Cardinality, Cardinality

LEMMA InGenerations == Descriptors!In("store", "generations") = Generations
  BY DEF Descriptors!In, Places, Where, Generations

LEMMA DescriptorsInit == Init => Descriptors!StoresInit
<1> SUFFICES ASSUME Init PROVE Descriptors!StoresInit
  OBVIOUS
<1>1. \A c \in Captures : Where(c) = "capturing"
  BY StoreAssumption DEF StoreAssumption, Init, Where
<1>2. Places \in [Captures -> {"none", "capturing"}]
  BY <1>1 DEF Places
<1>3. Cleared = {}
  BY DEF Init, Cleared
<1>4. QED
  BY <1>2, <1>3 DEF Descriptors!StoresInit

\* A step that has one descriptor change place.
LEMMA PlaceMoved ==
    ASSUME NEW c \in Captures, \A d \in Captures \ {c} : Where(d)' = Where(d),
           UNCHANGED step, NEW from, NEW to, Where(c) = from, Where(c)' = to
    PROVE  Descriptors!MoveDescriptor(c, from, to)
<1>1. Places[c] = from
  BY DEF Places
<1>2. Places' = [Places EXCEPT ![c] = to]
  BY DEF Places
<1>3. Cleared' = Cleared
  BY DEF Cleared
<1>4. QED
  BY <1>1, <1>2, <1>3 DEF Descriptors!MoveDescriptor

LEMMA SamePlaces ==
    ASSUME UNCHANGED <<step, cap>>,
           \A c \in Captures : /\ gens'[c] # 0 <=> gens[c] # 0
                               /\ pending'[c] # 0 <=> pending[c] # 0
    PROVE  Places' = Places /\ Cleared' = Cleared
<1>1. \A c \in Captures : Where(c)' = Where(c)
  BY DEF Where
<1>2. QED
  BY <1>1 DEF Places, Cleared

\* A removal that clears one directory.
LEMMA PlacesCleared ==
    ASSUME PlaceInv, NEW p \in Procs, ClearMember(p), step[p] \in {3, 4}, TypeInv
    PROVE  \E directory \in {"generations", "pending"} :
               Descriptors!ClearDirectory("store", directory)
<1> USE DEF TypeInv, TypeOK
<1>1. cap' = cap /\ step' = [step EXCEPT ![p] = @ + 1]
  BY DEF ClearMember
<1> DEFINE Dropped(directory) == Descriptors!In("store", directory)
<1>2. \A directory : Dropped(directory) = {c \in Captures : Where(c) = directory}
  BY DEF Descriptors!In, Places
<1>3. CASE step[p] = 3
  <2>1. gens' = [c \in Captures |-> 0] /\ pending' = pending
    BY <1>3 DEF ClearMember, Members
  <2>2. \A c \in Captures : Where(c)' = IF Where(c) = "generations" THEN "gone" ELSE Where(c)
    BY <1>1, <2>1 DEF Where, PlaceInv
  <2>3. Places' = [c \in Captures |-> IF c \in Dropped("generations") THEN "gone" ELSE Places[c]]
    BY <1>2, <2>2 DEF Places
  <2>4. Cleared' = Cleared
    BY <1>1, <1>3 DEF Cleared
  <2>5. QED
    BY <2>3, <2>4 DEF Descriptors!ClearDirectory
<1>4. CASE step[p] = 4
  <2>1. pending' = [c \in Captures |-> 0] /\ gens' = gens
    BY <1>4 DEF ClearMember, Members
  <2>2. \A c \in Captures : Where(c)' = IF Where(c) = "pending" THEN "gone" ELSE Where(c)
    BY <1>1, <2>1 DEF Where, PlaceInv
  <2>3. Places' = [c \in Captures |-> IF c \in Dropped("pending") THEN "gone" ELSE Places[c]]
    BY <1>2, <2>2 DEF Places
  <2>4. Cleared' = Cleared \cup {"store"}
    <3>1. step'[p] = 5
      BY <1>1, <1>4
    <3>2. QED
      BY <3>1 DEF Cleared
  <2>5. QED
    BY <2>3, <2>4 DEF Descriptors!ClearDirectory
<1>5. QED
  BY <1>3, <1>4

\* The generation a promotion unlinks is one of more than Keep.
LEMMA PruningHasSurplus ==
    ASSUME StoreInv, ~unlinked, NEW p \in Procs, pc[p] = "pruning", NEW c \in victims[p],
           c \in Generations
    PROVE  Cardinality(Generations) > Keep
<1>1. c \in Captures /\ ~Newer(c, c)
  BY NewerIsLinear DEF StoreInv, Generations
<1>2. Spared(p, c) \subseteq Generations \ {c}
  BY <1>1 DEF Spared
<1>3. IsFiniteSet(Generations) /\ Cardinality(Spared(p, c)) >= Keep
  BY DEF StoreInv, PruneInv, SparedInv
<1>4. IsFiniteSet(Generations \ {c})
      /\ Cardinality(Generations \ {c}) = Cardinality(Generations) - 1
  BY <1>3, FS_RemoveElement
<1>5. /\ Cardinality(Spared(p, c)) <= Cardinality(Generations \ {c})
      /\ Cardinality(Spared(p, c)) \in Nat /\ Cardinality(Generations \ {c}) \in Nat
      /\ Cardinality(Generations) \in Nat
  BY <1>2, <1>3, <1>4, FS_Subset, FS_CardinalityType
<1>6. QED
  BY <1>3, <1>4, <1>5, StoreAssumption DEF StoreAssumption

LEMMA DescriptorsStep ==
    StoreInv /\ PlaceInv /\ [Next]_vars => [Descriptors!StoresNext]_<<Places, Cleared>>
<1> SUFFICES ASSUME StoreInv, PlaceInv, [Next]_vars
             PROVE  Descriptors!StoresNext \/ UNCHANGED <<Places, Cleared>>
  OBVIOUS
<1>a. TypeInv /\ CaptureInv
  BY DEF StoreInv
<1>b. \A c \in Captures :
        Descriptors!Commit(c) \/ Descriptors!Retain(c) \/ Descriptors!Discard(c)
          => Descriptors!StoresNext
  BY DEF Descriptors!StoresNext
<1> USE DEF TypeInv, TypeOK, Owned
<1>1. ASSUME UNCHANGED <<gens, pending, cap, step>> PROVE UNCHANGED <<Places, Cleared>>
  BY <1>1, SamePlaces
<1>2. ASSUME NEW p \in Procs, NEW c \in Captures, NEW now \in Clock, Capture(p, c, now)
      PROVE  Descriptors!StoresNext
  <2>1. /\ pending' = [pending EXCEPT ![c] = now] /\ cap' = [cap EXCEPT ![p] = c]
        /\ UNCHANGED <<gens, step>> /\ \A q \in Procs : cap[q] # c
    BY <1>2 DEF Capture
  <2>2. gens[c] = 0 /\ pending[c] = 0 /\ cap[p] = NoCapture
    BY <1>2, <1>a, <2>1 DEF Capture, PlaceInv, CaptureInv
  <2>3. Where(c) = "capturing"
    BY <2>1, <2>2 DEF Where
  <2>4. Where(c)' = "pending"
    BY <1>a, <2>1, <2>2, StoreAssumption DEF Where, StoreAssumption
  <2>5. \A d \in Captures \ {c} : (\E q \in Procs : cap'[q] = d) <=> (\E q \in Procs : cap[q] = d)
    BY <1>a, <2>1, <2>2, StoreAssumption DEF StoreAssumption
  <2>6. \A d \in Captures \ {c} : Where(d)' = Where(d)
    BY <1>a, <2>1, <2>5 DEF Where
  <2>7. Descriptors!Commit(c)
    BY <2>1, <2>3, <2>4, <2>6, PlaceMoved DEF Descriptors!Commit
  <2>8. QED
    BY <1>b, <2>7
<1>3. ASSUME NEW p \in Procs, Rename(p)
      PROVE  Descriptors!StoresNext \/ UNCHANGED <<Places, Cleared>>
  <2>1. PICK c \in Captures : c = cap[p]
    BY <1>3, <1>a DEF Rename, PromotionStates
  <2>2. CASE UNCHANGED <<gens, pending>>
    BY <1>1, <1>3, <2>2 DEF Rename
  <2>3. CASE /\ pending[c] # 0 /\ gens[c] = 0
             /\ gens' = [gens EXCEPT ![c] = pending[c]]
             /\ pending' = [pending EXCEPT ![c] = 0]
    <3>1. UNCHANGED <<cap, step>>
      BY <1>3 DEF Rename
    <3>2. Where(c) = "pending" /\ Where(c)' = "generations"
      BY <1>a, <2>1, <2>3 DEF Where
    <3>3. \A d \in Captures \ {c} : Where(d)' = Where(d)
      BY <1>a, <2>3, <3>1 DEF Where
    <3>4. Descriptors!Retain(c)
      BY <2>1, <3>1, <3>2, <3>3, PlaceMoved DEF Descriptors!Retain
    <3>5. QED
      BY <1>b, <2>1, <3>4
  <2>4. QED
    BY <1>3, <2>1, <2>2, <2>3 DEF Rename
<1>4. ASSUME NEW p \in Procs, NEW now \in Clock, Stamp(p, now)
      PROVE  UNCHANGED <<Places, Cleared>>
  <2>1. cap[p] \in Captures
    BY <1>4, <1>a DEF Stamp, PromotionStates
  <2>2. \A c \in Captures : gens'[c] # 0 <=> gens[c] # 0
    BY <1>4, <1>a, <2>1, StoreAssumption DEF Stamp, StoreAssumption
  <2>3. UNCHANGED <<pending, cap, step>>
    BY <1>4 DEF Stamp
  <2>4. QED
    BY <2>2, <2>3, SamePlaces
<1>5. ASSUME NEW p \in Procs, PruneStep(p)
      PROVE  Descriptors!StoresNext \/ UNCHANGED <<Places, Cleared>>
  <2>1. UNCHANGED <<pending, cap, step>> /\ pc[p] = "pruning"
    BY <1>5 DEF PruneStep
  <2>2. CASE UNCHANGED gens
    BY <1>1, <2>1, <2>2
  <2>3. CASE ~UNCHANGED gens
    <3>1. PICK c \in victims[p] : gens[c] # 0 /\ gens' = [gens EXCEPT ![c] = 0]
      BY <1>5, <2>3 DEF PruneStep
    <3>2. c \in Captures /\ c \in Generations
      BY <1>a, <3>1 DEF Generations
    <3>3. Where(c) = "generations" /\ Where(c)' = "gone"
      BY <1>a, <2>1, <3>1, <3>2 DEF Where, PlaceInv
    <3>4. \A d \in Captures \ {c} : Where(d)' = Where(d)
      BY <1>a, <2>1, <3>1 DEF Where
    <3>5. Descriptors!MoveDescriptor(c, "generations", "gone")
      BY <2>1, <3>2, <3>3, <3>4, PlaceMoved
    <3>6. \/ Descriptors!Cardinality(Descriptors!In("store", "generations")) > Keep
          \/ "store" \in Cleared
      <4>1. CASE unlinked
        BY <4>1 DEF PlaceInv, Cleared
      <4>2. CASE ~unlinked
        BY <2>1, <3>1, <3>2, <4>2, PruningHasSurplus, InGenerations, DescriptorsCardinality
      <4>3. QED
        BY <4>1, <4>2
    <3>7. Descriptors!Discard(c)
      BY <3>2, <3>5, <3>6 DEF Descriptors!Discard
    <3>8. QED
      BY <1>b, <3>2, <3>7
  <2>4. QED
    BY <2>2, <2>3
<1>6. ASSUME NEW p \in Procs, ClearMember(p)
      PROVE  Descriptors!StoresNext \/ UNCHANGED <<Places, Cleared>>
  <2>1. CASE step[p] \in {3, 4}
    BY <1>6, <1>a, <2>1, PlacesCleared DEF Descriptors!StoresNext, Descriptors!Directories
  <2>2. CASE step[p] = 5
    BY <1>1, <1>6, <2>2 DEF ClearMember
  <2>3. CASE step[p] \in {1, 2}
    <3>1. UNCHANGED <<gens, pending, cap>> /\ step' = [step EXCEPT ![p] = @ + 1]
      BY <1>6, <2>3 DEF ClearMember, Members
    <3>2. \A q \in Procs : step'[q] = 5 <=> step[q] = 5
      BY <1>a, <2>3, <3>1
    <3>3. Cleared' = Cleared
      BY <3>2 DEF Cleared
    <3>4. \A c \in Captures : Where(c)' = Where(c)
      BY <3>1 DEF Where
    <3>5. QED
      BY <3>3, <3>4 DEF Places
  <2>4. QED
    BY <1>a, <2>1, <2>2, <2>3
<1>7. CASE ~(\E p \in Procs :
                \/ \E c \in Captures, now \in Clock : Capture(p, c, now)
                \/ Rename(p) \/ (\E now \in Clock : Stamp(p, now)) \/ PruneStep(p)
                \/ ClearMember(p))
  <2>1. UNCHANGED <<gens, pending, cap, step>>
    BY <1>7, Zenon
    DEF Next, Start, Run, vars, store, local, StartRemove, StartImport, MakeRoot, OpenLock,
        ChmodLock, Acquire, WriteTemp, Activate, ScanGenerations, UnlinkLock, RemoveRoot,
        FinishImport, Crash
  <2>2. QED
    BY <1>1, <2>1
<1>8. QED
  BY <1>2, <1>3, <1>4, <1>5, <1>6, <1>7

\* The store of ArtifactStore, with its lock, its inodes, its crashes and its
\* lock-free imports, is a store of DescriptorStores for every set of processes
\* and captures and every limit: so Deletion, which takes the steps of that
\* module alone, has no store that the code does not.
THEOREM StoreImplementsDescriptors == Spec => ImplementsStores
<1>1. Spec => []PlaceInv
  <2>1. StoreInv => TypeInv /\ CaptureInv
    BY DEF StoreInv
  <2>2. QED
    BY <2>1, StoreInvAlways, PlaceInvInit, PlaceInvStep, PTL DEF Spec
<1>2. QED
  BY <1>1, StoreInvAlways, DescriptorsInit, DescriptorsStep, PTL
  DEF Spec, ImplementsStores, Descriptors!StoresSpec
-----------------------------------------------------------------------------
(* The safety half of EveryOperationEnds.                                  *)

\* A waiter is kept out by a process that is alive inside the lock, and by no other.
WaiterHasHolder ==
    \A p \in Procs : pc[p] = "waiting" /\ ~LockFree(p) =>
        \E q \in Procs : InCritical(q) /\ fd[q] = fd[p]

\* Errors and crashes give the lock back, as leaving it does.
THEOREM WaiterHasHolderAlways == Spec => []WaiterHasHolder
<1>1. TypeInv /\ LockInv => WaiterHasHolder
  BY DEF TypeInv, TypeOK, LockInv, LockFree, WaiterHasHolder
<1>2. QED
  BY <1>1, TypeInvAlways, LockInvAlways, PTL

\* How far an operation is from its end ...
OperationLeft ==
    [idle |-> 11, captured |-> 10, rooted |-> 9, opened |-> 8, waiting |-> 7,
     locked |-> 6, renamed |-> 5, stamped |-> 4, temp |-> 3, activated |-> 2, pruning |-> 1,
     clearing |-> 6, unlocked |-> 5, bare |-> 4, importing |-> 1,
     done |-> 0, crashed |-> 0]

\* ... and in the two places where it takes several steps: it has a member less to clear,
\* or a victim less to unlink.
Advances(p) ==
    \/ OperationLeft[pc'[p]] < OperationLeft[pc[p]]
    \/ pc'[p] = pc[p] /\ step[p] < step'[p] /\ step'[p] <= 5
    \/ pc'[p] = pc[p] /\ victims'[p] \subseteq victims[p] /\ victims'[p] # victims[p]

Forward ==
    \A p \in Procs : \/ Advances(p)
                     \/ UNCHANGED <<pc[p], step[p], victims[p], fd[p], cap[p], op[p]>>

OperationsAdvance == [][Forward]_vars

\* The states of one operation, in the order its program has.
LEMMA OperationForward ==
    ASSUME TypeInv, NEW p \in Procs, NEW from, NEW to, pc[p] = from, pc'[p] = to,
           \/ from = "idle" /\ to \in {"captured", "importing", "done"}
           \/ from = "captured" /\ to = "rooted"
           \/ from = "rooted" /\ to \in {"opened", "done"}
           \/ from = "opened" /\ to \in {"waiting", "done"}
           \/ from = "waiting" /\ to \in {"locked", "clearing"}
           \/ from = "locked" /\ to \in {"renamed", "done"}
           \/ from = "renamed" /\ to \in {"stamped", "done"}
           \/ from = "stamped" /\ to = "temp"
           \/ from = "temp" /\ to = "activated"
           \/ from = "activated" /\ to = "pruning"
           \/ from \in {"pruning", "importing", "bare"} /\ to = "done"
           \/ from = "clearing" /\ to = "unlocked"
           \/ from = "unlocked" /\ to = "bare"
           \/ from \notin {"idle"} \cup Ended /\ to = "crashed"
    PROVE  Advances(p)
<1>1. pc[p] \in {"idle", "captured", "rooted", "opened", "waiting", "unlocked", "bare",
                 "importing"} \cup Critical \cup Ended
  BY DEF TypeInv, TypeOK
<1>2. OperationLeft[to] < OperationLeft[from]
  BY <1>1 DEF OperationLeft, Critical, PromotionStates, Ended
<1>3. QED
  BY <1>2 DEF Advances

\* Whatever p does, it goes on, and what the others have in hand is as it was.
LEMMA OperationStep ==
    ASSUME TypeInv, NEW p \in Procs, Start(p) \/ Run(p) \/ Crash(p)
    PROVE  /\ Advances(p)
           /\ \A q \in Procs \ {p} :
                 UNCHANGED <<pc[q], step[q], victims[q], fd[q], cap[q], op[q]>>
<1> DEFINE Alone == \A q \in Procs \ {p} :
                       UNCHANGED <<pc[q], step[q], victims[q], fd[q], cap[q], op[q]>>
<1>0. /\ pc \in [Procs -> {"idle", "captured", "rooted", "opened", "waiting", "unlocked", "bare",
                           "importing"} \cup Critical \cup Ended]
      /\ step \in [Procs -> 1..5] /\ victims \in [Procs -> SUBSET Captures]
      /\ fd \in [Procs -> Procs \cup {NoProc}] /\ cap \in [Procs -> Captures \cup {NoCapture}]
      /\ op \in [Procs -> {"none", "promote", "remove", "import"}]
  BY DEF TypeInv, TypeOK
<1> USE <1>0 DEF Goto, Release, store
<1>1. CASE Start(p)
  <2>1. /\ pc[p] = "idle" /\ \E to \in {"captured", "importing", "done"} : pc' = [pc EXCEPT ![p] = to]
        /\ Alone
    BY <1>1 DEF Start, Capture, StartRemove, StartImport
  <2>2. QED
    BY <2>1, OperationForward
<1>2. CASE MakeRoot(p) \/ OpenLock(p) \/ ChmodLock(p) \/ Acquire(p)
  <2>1. Alone
    BY <1>2 DEF MakeRoot, OpenLock, ChmodLock, Acquire
  <2>2. \/ pc[p] = "captured" /\ pc'[p] = "rooted"
        \/ pc[p] = "rooted" /\ pc'[p] \in {"opened", "done"}
        \/ pc[p] = "opened" /\ pc'[p] \in {"waiting", "done"}
        \/ pc[p] = "waiting" /\ pc'[p] \in {"locked", "clearing"}
    BY <1>2 DEF MakeRoot, OpenLock, ChmodLock, Acquire
  <2>3. QED
    BY <2>1, <2>2, OperationForward
<1>3. CASE Rename(p) \/ (\E now \in Clock : Stamp(p, now)) \/ WriteTemp(p) \/ Activate(p)
  <2>1. Alone
    BY <1>3 DEF Rename, Stamp, WriteTemp, Activate
  <2>2. \/ pc[p] = "locked" /\ pc'[p] \in {"renamed", "done"}
        \/ pc[p] = "renamed" /\ pc'[p] \in {"stamped", "done"}
        \/ pc[p] = "stamped" /\ pc'[p] = "temp"
        \/ pc[p] = "temp" /\ pc'[p] = "activated"
    BY <1>3 DEF Rename, Stamp, WriteTemp, Activate
  <2>3. QED
    BY <2>1, <2>2, OperationForward
<1>4. CASE ScanGenerations(p)
  <2>1. pc[p] = "activated" /\ pc'[p] = "pruning" /\ Alone
    BY <1>4 DEF ScanGenerations
  <2>2. QED
    BY <2>1, OperationForward
<1>5. CASE PruneStep(p)
  <2>1. pc[p] = "pruning" /\ Alone
    BY <1>5 DEF PruneStep
  <2>2. CASE pc'[p] = "done"
    BY <2>1, <2>2, OperationForward
  <2>3. CASE pc'[p] # "done"
    <3>1. PICK c \in victims[p] : pc' = pc /\ victims' = [victims EXCEPT ![p] = @ \ {c}]
      BY <1>5, <2>3 DEF PruneStep
    <3>2. QED
      BY <2>1, <3>1 DEF Advances
  <2>4. QED
    BY <2>2, <2>3
<1>6. CASE ClearMember(p)
  <2>1. pc[p] = "clearing" /\ Alone
    BY <1>6 DEF ClearMember
  <2>2. CASE step[p] = 5
    <3>1. pc'[p] = "unlocked"
      BY <1>6, <2>2 DEF ClearMember
    <3>2. QED
      BY <2>1, <3>1, OperationForward
  <2>3. CASE step[p] # 5
    <3>1. pc' = pc /\ step' = [step EXCEPT ![p] = @ + 1] /\ step[p] <= 4
      BY <1>6, <2>3 DEF ClearMember
    <3>2. QED
      BY <2>1, <3>1 DEF Advances
  <2>4. QED
    BY <2>2, <2>3
<1>7. CASE UnlinkLock(p) \/ RemoveRoot(p) \/ FinishImport(p)
  <2>1. Alone
    BY <1>7 DEF UnlinkLock, RemoveRoot, FinishImport
  <2>2. \/ pc[p] = "unlocked" /\ pc'[p] = "bare"
        \/ pc[p] \in {"bare", "importing"} /\ pc'[p] = "done"
    BY <1>7 DEF UnlinkLock, RemoveRoot, FinishImport
  <2>3. QED
    BY <2>1, <2>2, OperationForward
<1>8. CASE Crash(p)
  <2>1. pc[p] \notin {"idle"} \cup Ended /\ pc'[p] = "crashed" /\ Alone
    BY <1>8 DEF Crash
  <2>2. QED
    BY <2>1, OperationForward
<1>9. QED
  BY <1>1, <1>2, <1>3, <1>4, <1>5, <1>6, <1>7, <1>8 DEF Run

\* Each step of an operation takes it nearer to its end, and takes nothing from the others
\* but the files: with WaiterHasHolder, what EveryOperationEnds still needs is that a
\* process that can go on is scheduled, and that finitely many are started.
THEOREM OperationsAdvanceAlways == Spec => OperationsAdvance
<1>1. TypeInv /\ [Next]_vars => [Forward]_vars
  <2>1. ASSUME TypeInv, Next
        PROVE  Forward
    <3>1. PICK p \in Procs : Start(p) \/ Run(p) \/ Crash(p)
      BY <2>1 DEF Next
    <3>2. QED
      BY <2>1, <3>1, OperationStep DEF Forward
  <2>2. QED
    BY <2>1
<1>2. QED
  BY <1>1, TypeInvAlways, PTL DEF Spec, OperationsAdvance
=============================================================================
