------------------------- MODULE RestoreStagingProofs -------------------------
(***************************************************************************)
(* Proofs about RestoreStaging for any workers, owners and descriptors.     *)
(***************************************************************************)
EXTENDS RestoreStaging, TLAPS

Ready == {"prepare", "activation", "activate", "done"}

\* Staging has an outcome when the controller is first called, and not before.
ProviderInv ==
    /\ pc \in Ready => provider # None
    /\ pc \notin Ready \cup {"failed"} => provider = None

\* A pool looks for the payloads of one descriptor, and keeps nothing else.
PoolInv ==
    /\ expected = NoPayloads \/ \E d \in Native : expected = Payloads[d]
    /\ pc \in Pools =>
          \A w \in Workers : staged[w] # None => staged[w] = expected[w]

OneCapture(payloads) ==
    \E d \in Native : \A w \in Workers :
        payloads[w] # None /\ payloads[w] = Payloads[d][w]

\* The policy of the request has payloads exactly if the outcome is "native".
PolicyInv ==
    /\ pc \in {"select", "read", "capability"} => weights.files = NoPayloads
    /\ provider # "native" => weights.staged = NoneStaged
    /\ provider = "native" => OneCapture(weights.staged)
    /\ provider = "recovery" =>
          /\ mode # "native" /\ weights.mode = "recovery" /\ weights.files = NoPayloads
          /\ mode # "recovery" => weights.source = "absent"

\* The policy of the activation is that of the request, with the mode selected.
ActivationInv ==
    pc \in {"activate", "done"} => activation = [weights EXCEPT !.mode = provider]

IInv == TypeOK /\ ProviderInv /\ PoolInv /\ PolicyInv /\ ActivationInv
-----------------------------------------------------------------------------
LEMMA BlankType ==
    /\ Blank \in Weights
    /\ Blank.files = NoPayloads /\ Blank.staged = NoneStaged
    /\ Blank.source = "absent"
<1>1. NoPayloads \in [Owners -> Digests \cup {None}]
      /\ NoneStaged \in [Workers -> Digests \cup {None}]
  BY DEF NoPayloads, NoneStaged
<1>2. QED
  BY <1>1 DEF Blank, Weights, Modes

LEMMA TypeInit == Init => TypeOK
<1> SUFFICES ASSUME Init PROVE TypeOK
  OBVIOUS
<1>1. weights \in Weights /\ activation \in Weights
  BY BlankType DEF Init
<1>2. expected \in [Owners -> Digests \cup {None}]
      /\ staged \in [Workers -> Digests \cup {None}]
      /\ result \in [Workers -> {"idle", "running", "staged", "failed"}]
      /\ \A w \in Workers : result[w] # "staged"
  BY DEF Init, NoPayloads, NoneStaged
<1>3. QED
  BY <1>1, <1>2 DEF Init, TypeOK, Modes

\* What the updates of a policy change, and what they leave.
LEMMA ModeUpdate ==
  ASSUME NEW p \in Weights, NEW m \in Modes \cup {None}
  PROVE  /\ [p EXCEPT !.mode = m] \in Weights
         /\ [p EXCEPT !.mode = m].mode = m
         /\ [p EXCEPT !.mode = m].files = p.files
         /\ [p EXCEPT !.mode = m].staged = p.staged
         /\ [p EXCEPT !.mode = m].source = p.source
  BY DEF Weights

LEMMA SourceUpdate ==
  ASSUME NEW p \in Weights, NEW s \in {"absent", "blank", "pinned"}
  PROVE  /\ [p EXCEPT !.source = s] \in Weights
         /\ [p EXCEPT !.source = s].files = p.files
         /\ [p EXCEPT !.source = s].staged = p.staged
  BY DEF Weights

\* A fallback leaves a policy that is one.
LEMMA FallbackType ==
  ASSUME TypeOK, Fallback
  PROVE  /\ weights' \in Weights /\ provider' \in {"native", "recovery", None}
         /\ pc' \in {"failed", "prepare"}
<1>1. [Blank EXCEPT !.mode = "recovery"] \in Weights
  <2>1. "recovery" \in Modes \cup {None}
    BY DEF Modes
  <2>2. QED
    BY <2>1, BlankType, ModeUpdate
<1>2. QED
  BY <1>1 DEF TypeOK, Fallback

\* A pool that starts has staged nothing.
LEMMA StartType ==
  ASSUME NEW stage, NEW hopeless, Start(stage, hopeless)
  PROVE  /\ result' \in [Workers -> {"idle", "running", "staged", "failed"}]
         /\ staged' \in [Workers -> Digests \cup {None}]
         /\ \A w \in Workers : result'[w] = "staged" => staged'[w] # None
         /\ pc' = stage
  BY DEF Start, NoneStaged

\* Every step keeps the types.
LEMMA TypeStep == TypeOK /\ [Next]_vars => TypeOK'
<1> SUFFICES ASSUME TypeOK, [Next]_vars PROVE TypeOK'
  OBVIOUS
<1> USE RestoreAssumption DEF TypeOK, pool
<1>1. CASE UNCHANGED vars
  BY <1>1 DEF vars
<1>2. CASE Replace
  BY <1>2 DEF Replace
<1>3. CASE Select
  <2>1. PICK declared \in Modes \cup {None}, default \in {"auto", "recovery"},
             source \in {"absent", "pinned"} :
          SelectFor(declared, IF declared = None THEN default ELSE declared,
                    [Blank EXCEPT !.source = source])
    BY <1>3 DEF Select
  <2>2. [Blank EXCEPT !.source = source] \in Weights
    <3>1. source \in {"absent", "blank", "pinned"} /\ "auto" \in Modes
      BY DEF Modes
    <3>2. QED
      BY <3>1, BlankType, SourceUpdate
  <2>3. mode' \in Modes /\ weights' \in Weights /\ file' \in Descriptors \cup {None}
    <3>1. mode' \in Modes /\ file' \in Descriptors \cup {None}
      BY <2>1 DEF SelectFor, Modes
    <3> DEFINE request == [Blank EXCEPT !.source = source]
    <3>2. PICK m \in Modes \cup {None} : weights' = [request EXCEPT !.mode = m]
      BY <2>1 DEF SelectFor, Modes
    <3>3. weights' \in Weights
      <4>1. request \in Weights
        BY <2>2
      <4> HIDE DEF request
      <4>2. QED
        BY <3>2, <4>1, ModeUpdate
    <3>4. QED
      BY <3>1, <3>3
  <2>4. QED
    BY <1>3, <2>3 DEF Select
<1>4. CASE ReadDescriptor
  BY <1>4 DEF ReadDescriptor
<1>5. CASE Capability
  <2>1. weights' \in Weights /\ provider' \in {"native", "recovery", None}
        /\ pc' \in {"failed", "prepare", "objects"}
    BY <1>5, FallbackType DEF Capability, Weights, Modes
  <2>2. QED
    BY <1>5, <2>1 DEF Capability
<1>6. CASE ReadObjects
  <2>1. expected' \in [Owners -> Digests \cup {None}]
    BY <1>6 DEF ReadObjects, Readable, NoPayloads, RestoreAssumption
  <2>2. CASE Start("node cache", {})
    <3>1. verifier' \in BOOLEAN
          /\ UNCHANGED <<file, replaced, mode, weights, provider, activation>>
      BY <1>6 DEF ReadObjects, VerifierReady, VerifierFails
    <3>2. /\ result' \in [Workers -> {"idle", "running", "staged", "failed"}]
          /\ staged' \in [Workers -> Digests \cup {None}]
          /\ \A w \in Workers : result'[w] = "staged" => staged'[w] # None
          /\ pc' \in Pools
      BY <2>2, StartType DEF Pools
    <3>3. QED
      BY <2>1, <3>1, <3>2
  <2>3. CASE UNCHANGED pool
    BY <1>6, <2>1, <2>3 DEF ReadObjects, VerifierReady, VerifierFails, Pools, Start
  <2>4. QED
    BY <1>6, <2>2, <2>3 DEF ReadObjects, VerifierFails
<1>7. CASE ReadInventory
  <2>1. expected' \in [Owners -> Digests \cup {None}]
    BY <1>7 DEF ReadInventory, Readable, RestoreAssumption
  <2>2. CASE Start("capture host", Workers \ InPlace[file])
    <3>1. verifier' \in BOOLEAN
          /\ UNCHANGED <<file, replaced, mode, weights, provider, activation>>
      BY <1>7 DEF ReadInventory, VerifierReady, VerifierFails
    <3>2. /\ result' \in [Workers -> {"idle", "running", "staged", "failed"}]
          /\ staged' \in [Workers -> Digests \cup {None}]
          /\ \A w \in Workers : result'[w] = "staged" => staged'[w] # None
          /\ pc' \in Pools
      BY <2>2, StartType DEF Pools
    <3>3. QED
      BY <2>1, <3>1, <3>2
  <2>3. CASE UNCHANGED pool
    BY <1>7, <2>1, <2>3 DEF ReadInventory, VerifierReady, VerifierFails, Pools, Start
  <2>4. QED
    BY <1>7, <2>2, <2>3 DEF ReadInventory, VerifierFails
<1>8. CASE ReadProvider
  <2>1. weights' \in Weights
    BY <1>8 DEF ReadProvider, Readable, Weights, RestoreAssumption
  <2>2. QED
    BY <1>8, <2>1 DEF ReadProvider
<1>9. CASE StartDownload
  <2>1. weights' \in Weights /\ provider' \in {"native", "recovery", None}
        /\ pc' \in {"failed", "prepare", "download"}
    BY <1>9, FallbackType DEF StartDownload, Start, VerifierFails
  <2>2. CASE Start("download", {w \in Workers : expected[w] = None})
    <3>1. verifier' \in BOOLEAN
          /\ UNCHANGED <<file, replaced, mode, expected, activation>>
      BY <1>9 DEF StartDownload, VerifierReady, VerifierFails
    <3>2. /\ result' \in [Workers -> {"idle", "running", "staged", "failed"}]
          /\ staged' \in [Workers -> Digests \cup {None}]
          /\ \A w \in Workers : result'[w] = "staged" => staged'[w] # None
          /\ pc' \in Pools
      BY <2>2, StartType DEF Pools
    <3>3. QED
      BY <2>1, <3>1, <3>2
  <2>3. CASE UNCHANGED pool
    BY <1>9, <2>1, <2>3 DEF StartDownload, VerifierReady, VerifierFails, Pools
  <2>4. QED
    BY <1>9, <2>2, <2>3 DEF StartDownload, VerifierFails
<1>10. ASSUME NEW w \in Workers, LookUp(w) PROVE TypeOK'
  BY <1>10 DEF LookUp, RestoreAssumption
<1>11. CASE EndPool
  <2>1. weights' \in Weights /\ provider' \in {"native", "recovery", None}
        /\ pc' \in {"failed", "prepare", "inventory", "provider"}
    BY <1>11, FallbackType DEF EndPool, NextSource, Weights
  <2>2. QED
    BY <1>11, <2>1 DEF EndPool
<1>12. CASE PrepareCapsules
  BY <1>12 DEF PrepareCapsules
<1>13. CASE PrepareActivation
  BY <1>13 DEF PrepareActivation, Weights, Modes
<1>14. CASE Activate
  BY <1>14 DEF Activate
<1>15. QED
  BY <1>1, <1>2, <1>3, <1>4, <1>5, <1>6, <1>7, <1>8, <1>9, <1>10, <1>11, <1>12,
     <1>13, <1>14 DEF Next

\* TypeOK holds of the program counter, the policies and the pool of a restore,
\* for all constants.
THEOREM TypeCorrect == Spec => []TypeOK
<1>1. QED
  BY TypeInit, TypeStep, PTL DEF Spec
-----------------------------------------------------------------------------
Inv == ProviderInv /\ PoolInv /\ PolicyInv /\ ActivationInv

LEMMA IInvInit == Init => IInv
<1> SUFFICES ASSUME Init PROVE IInv
  OBVIOUS
<1>1. TypeOK
  BY TypeInit
<1>2. ProviderInv /\ PoolInv /\ ActivationInv
  BY DEF Init, ProviderInv, PoolInv, ActivationInv, Ready, Pools
<1>3. PolicyInv
  BY BlankType, RestoreAssumption DEF Init, PolicyInv, RestoreAssumption
<1>4. QED
  BY <1>1, <1>2, <1>3 DEF IInv

\* A fallback ends staging without a trace of payloads, or the restore.
LEMMA FallbackStep ==
  ASSUME IInv, Fallback, mode' = mode, pc \in {"capability", "filled"} \cup Pools,
         activation' = activation
  PROVE  ProviderInv' /\ PolicyInv' /\ ActivationInv'
<1>1. CASE mode = "native"
  BY <1>1 DEF IInv, Fallback, ProviderInv, PolicyInv, ActivationInv, Ready, Pools
<1>2. CASE mode # "native"
  <2>1. /\ weights'.mode = "recovery"
        /\ weights'.files = NoPayloads /\ weights'.staged = NoneStaged
        /\ weights'.source = "absent"
    <3>1. "recovery" \in Modes \cup {None}
      BY DEF Modes
    <3>2. weights' = [Blank EXCEPT !.mode = "recovery"]
      BY <1>2 DEF Fallback
    <3>3. QED
      BY <3>1, <3>2, BlankType, ModeUpdate
  <2>2. pc' = "prepare" /\ provider' = "recovery"
    BY <1>2 DEF Fallback
  <2>3. QED
    BY <1>2, <2>1, <2>2, RestoreAssumption
       DEF ProviderInv, PolicyInv, ActivationInv, Ready, NoPayloads, NoneStaged,
           RestoreAssumption
<1>3. QED
  BY <1>1, <1>2

\* A pool that starts on the payloads of one descriptor, or on none.
LEMMA StartStep ==
  ASSUME NEW stage, NEW hopeless, Start(stage, hopeless)
  PROVE  \A w \in Workers : staged'[w] = None
  BY DEF Start, NoneStaged

LEMMA SelectStep == ASSUME IInv, Select PROVE Inv'
<1> USE DEF IInv, Inv
<1>1. PICK declared \in Modes \cup {None}, default \in {"auto", "recovery"},
           source \in {"absent", "pinned"} :
        SelectFor(declared, IF declared = None THEN default ELSE declared,
                  [Blank EXCEPT !.source = source])
  BY DEF Select
<1> DEFINE request == [Blank EXCEPT !.source = source]
<1>2. PICK m \in Modes \cup {None} : weights' = [request EXCEPT !.mode = m]
  BY <1>1 DEF SelectFor, Modes
<1>3. request \in Weights /\ request.files = NoPayloads /\ request.staged = NoneStaged
  <2>1. source \in {"absent", "blank", "pinned"}
    OBVIOUS
  <2>2. QED
    BY <2>1, BlankType, SourceUpdate
<1> HIDE DEF request
<1>4. weights'.files = NoPayloads /\ weights'.staged = NoneStaged
  BY <1>2, <1>3, ModeUpdate
<1>5. PolicyInv'
  BY <1>4, RestoreAssumption
     DEF Select, PolicyInv, ProviderInv, Ready, RestoreAssumption
<1>6. QED
  BY <1>5 DEF Select, ProviderInv, PoolInv, ActivationInv, Ready, Pools

LEMMA CapabilityStep == ASSUME IInv, Capability PROVE Inv'
<1> USE DEF IInv, Inv
<1>1. ProviderInv' /\ PolicyInv' /\ ActivationInv'
  <2>1. CASE mode = "recovery"
    <3>1. weights'.mode = "recovery" /\ weights'.files = weights.files
          /\ weights'.staged = weights.staged
      <4>1. "recovery" \in Modes \cup {None} /\ weights \in Weights
        BY DEF TypeOK, Modes
      <4>2. weights' = [weights EXCEPT !.mode = "recovery"]
        BY <2>1 DEF Capability
      <4> HIDE DEF IInv, Inv
      <4>3. QED
        BY <4>1, <4>2, ModeUpdate
    <3>2. /\ pc = "capability" /\ pc' = "prepare" /\ provider' = "recovery"
          /\ provider = None /\ mode' = mode
      BY <2>1 DEF Capability, ProviderInv, Ready
    <3>3. weights.files = NoPayloads /\ weights.staged = NoneStaged
      BY <3>2, RestoreAssumption DEF PolicyInv, RestoreAssumption
    <3>4. PolicyInv'
      BY <2>1, <3>1, <3>2, <3>3 DEF PolicyInv, NoneStaged, NoPayloads
    <3>5. QED
      BY <3>2, <3>4, RestoreAssumption
         DEF ProviderInv, ActivationInv, Ready, RestoreAssumption
  <2>2. CASE Fallback
    BY <2>2, FallbackStep DEF Capability
  <2>3. CASE pc' = "objects" /\ UNCHANGED <<weights, provider>>
    BY <2>3 DEF Capability, ProviderInv, PolicyInv, ActivationInv, Ready
  <2>4. QED
    BY <2>1, <2>2, <2>3 DEF Capability
<1>2. PoolInv'
  BY FallbackType DEF Capability, PoolInv, Pools, pool
<1>3. QED
  BY <1>1, <1>2

LEMMA LookUpStep == ASSUME IInv, NEW w \in Workers, LookUp(w) PROVE Inv'
<1> USE DEF IInv, Inv
<1>1. PoolInv'
  BY DEF LookUp, PoolInv, Accepts, TypeOK
<1>2. QED
  BY <1>1 DEF LookUp, ProviderInv, PolicyInv, ActivationInv, Pools, Ready

LEMMA EndPoolStep == ASSUME IInv, EndPool PROVE Inv'
<1> USE DEF IInv, Inv
<1>1. CASE /\ \A w \in Workers : result[w] = "staged"
           /\ pc' = "prepare" /\ provider' = "native"
           /\ weights' = [weights EXCEPT !.staged = staged]
  <2>1. weights'.staged = staged
    BY <1>1 DEF TypeOK, Weights
  <2>2. PICK d \in Native : expected = Payloads[d]
    <3>1. PICK w \in Workers : TRUE
      BY RestoreAssumption DEF RestoreAssumption
    <3>2. staged[w] # None /\ staged[w] = expected[w]
      BY <1>1 DEF EndPool, PoolInv, TypeOK
    <3>3. w \in Owners
      BY RestoreAssumption DEF RestoreAssumption
    <3>4. expected # NoPayloads
      BY <3>2, <3>3 DEF NoPayloads
    <3>5. QED
      BY <3>4 DEF PoolInv
  <2>3. \A w \in Workers : staged[w] # None /\ staged[w] = Payloads[d][w]
    BY <1>1, <2>2 DEF EndPool, PoolInv, TypeOK
  <2>4. OneCapture(weights.staged)'
    BY <2>1, <2>2, <2>3 DEF OneCapture
  <2>5. PolicyInv'
    BY <1>1, <2>4 DEF PolicyInv
  <2>6. QED
    BY <1>1, <2>5, RestoreAssumption DEF EndPool, ProviderInv, PoolInv, ActivationInv, Ready, Pools, pool, RestoreAssumption
<1>2. CASE pc = "download" /\ Fallback
  BY <1>2, FallbackStep, FallbackType DEF EndPool, PoolInv, Pools, pool
<1>3. CASE pc # "download" /\ pc' = NextSource(pc) /\ UNCHANGED <<weights, provider>>
  BY <1>3 DEF EndPool, NextSource, ProviderInv, PoolInv, PolicyInv, ActivationInv, Ready, Pools, pool
<1>4. QED
  BY <1>1, <1>2, <1>3 DEF EndPool

LEMMA ReplaceStep == ASSUME IInv, Replace PROVE Inv'
<1> USE DEF IInv, Inv
<1>1. QED
  BY DEF Replace, ProviderInv, PoolInv, PolicyInv, ActivationInv, Pools, Ready, pool

LEMMA ReadDescriptorStep == ASSUME IInv, ReadDescriptor PROVE Inv'
<1> USE DEF IInv, Inv
<1>1. QED
  BY DEF ReadDescriptor, ProviderInv, PoolInv, PolicyInv, ActivationInv, Pools,
     Ready, pool

\* The payloads the pool looks for are always those of one reading.
LEMMA ReadObjectsStep == ASSUME IInv, ReadObjects PROVE Inv'
<1> USE DEF IInv, Inv
<1>1. expected' = NoPayloads \/ \E d \in Native : expected' = Payloads[d]
  BY DEF ReadObjects, Readable
<1>2. /\ pc = "objects" /\ pc' \in {"inventory", "failed", "node cache"}
      /\ pc' = "node cache" => \A w \in Workers : staged'[w] = None
  BY DEF ReadObjects, VerifierFails, Start, NoneStaged
<1>3. PoolInv'
  BY <1>1, <1>2 DEF PoolInv, Pools, NoPayloads
<1>4. QED
  BY <1>2, <1>3 DEF ReadObjects, ProviderInv, PolicyInv, ActivationInv, Ready

LEMMA ReadInventoryStep == ASSUME IInv, ReadInventory PROVE Inv'
<1> USE DEF IInv, Inv
<1>1. expected' = NoPayloads \/ \E d \in Native : expected' = Payloads[d]
  BY DEF ReadInventory, Readable, PoolInv
<1>2. /\ pc = "inventory" /\ pc' \in {"provider", "failed", "capture host"}
      /\ pc' = "capture host" => \A w \in Workers : staged'[w] = None
  BY DEF ReadInventory, VerifierFails, Start, NoneStaged
<1>3. PoolInv'
  BY <1>1, <1>2 DEF PoolInv, Pools, NoPayloads
<1>4. QED
  BY <1>2, <1>3 DEF ReadInventory, ProviderInv, PolicyInv, ActivationInv, Ready

LEMMA ReadProviderStep == ASSUME IInv, ReadProvider PROVE Inv'
<1> USE DEF IInv, Inv
<1>1. weights'.staged = weights.staged
  BY DEF ReadProvider, TypeOK, Weights
<1>2. provider = None /\ provider' = None /\ pc = "provider" /\ pc' = "filled"
  BY DEF ReadProvider, ProviderInv, Ready
<1>3. PolicyInv'
  BY <1>1, <1>2, RestoreAssumption DEF PolicyInv, NoneStaged, RestoreAssumption
<1>4. QED
  BY <1>2, <1>3 DEF ReadProvider, ProviderInv, PoolInv, ActivationInv, Ready,
     Pools, pool

LEMMA StartDownloadStep == ASSUME IInv, StartDownload PROVE Inv'
<1> USE DEF IInv, Inv
<1>1. CASE Fallback /\ UNCHANGED <<verifier, pool>>
  BY <1>1, FallbackStep, FallbackType
     DEF StartDownload, PoolInv, Pools, pool
<1>2. CASE VerifierFails /\ UNCHANGED <<weights, provider>>
  BY <1>2 DEF StartDownload, VerifierFails, ProviderInv, PoolInv, PolicyInv, ActivationInv, Ready, Pools, pool
<1>3. CASE /\ Start("download", {w \in Workers : expected[w] = None})
           /\ UNCHANGED <<weights, provider>>
  <2>1. PoolInv'
    BY <1>3, StartStep DEF StartDownload, PoolInv
  <2>2. pc' = "download"
    BY <1>3 DEF Start
  <2>3. QED
    BY <1>3, <2>1, <2>2 DEF StartDownload, ProviderInv, PolicyInv, ActivationInv, Ready
<1>4. QED
  BY <1>1, <1>2, <1>3 DEF StartDownload

LEMMA PrepareStep ==
  ASSUME IInv, PrepareCapsules \/ PrepareActivation \/ Activate PROVE Inv'
<1> USE DEF IInv, Inv
<1>1. CASE PrepareCapsules
  BY <1>1 DEF PrepareCapsules, ProviderInv, PoolInv, PolicyInv, ActivationInv,
     Ready, Pools, pool
<1>2. CASE PrepareActivation
  BY <1>2 DEF PrepareActivation, ProviderInv, PoolInv, PolicyInv, ActivationInv, Ready, Pools, pool
<1>3. CASE Activate
  BY <1>3 DEF Activate, ProviderInv, PoolInv, PolicyInv, ActivationInv,
     Ready, Pools, pool
<1>4. QED
  BY <1>1, <1>2, <1>3

LEMMA IInvStep == IInv /\ [Next]_vars => IInv'
<1> SUFFICES ASSUME IInv, [Next]_vars PROVE IInv'
  OBVIOUS
<1>1. TypeOK'
  BY TypeStep DEF IInv
<1>2. Inv'
  <2>1. CASE UNCHANGED vars
    BY <2>1 DEF vars, pool, IInv, Inv, ProviderInv, PoolInv, PolicyInv, ActivationInv
  <2>2. CASE Next
    BY <2>2, ReplaceStep, SelectStep, ReadDescriptorStep, CapabilityStep, ReadObjectsStep,
       ReadInventoryStep, ReadProviderStep, StartDownloadStep, LookUpStep, EndPoolStep,
       PrepareStep DEF Next
  <2>3. QED
    BY <2>1, <2>2
<1>3. QED
  BY <1>1, <1>2 DEF IInv, Inv

LEMMA IInvCorrect == Spec => []IInv
<1>1. QED
  BY IInvInit, IInvStep, PTL DEF Spec
-----------------------------------------------------------------------------
\* What is asked of the controller has the payloads of the policy staging left.
LEMMA AskedPolicy ==
  ASSUME IInv, provider # None, NEW policy \in Asked
  PROVE  /\ policy.staged = weights.staged /\ policy.files = weights.files
         /\ policy.source = weights.source
         /\ weights.mode = provider => policy.mode = provider
<1>1. CASE policy = weights
  BY <1>1
<1>2. CASE policy = activation /\ pc \in {"activate", "done"}
  <2>1. policy = [weights EXCEPT !.mode = provider]
    BY <1>2 DEF IInv, ActivationInv
  <2>2. weights \in Weights /\ provider \in Modes \cup {None}
    BY DEF IInv, TypeOK, Modes
  <2>3. QED
    BY <2>1, <2>2, ModeUpdate
<1>3. QED
  BY <1>1, <1>2 DEF Asked

\* StagedIsOneCapture holds for all descriptors: the payloads of a request for
\* native replay are those of one capture, however often the artifact file is
\* replaced between the lookups of the workers.
THEOREM OneCaptureStaged == Spec => []StagedIsOneCapture
<1>1. IInv => StagedIsOneCapture
  <2> SUFFICES ASSUME IInv, provider = "native", NEW policy \in Asked
               PROVE  \E d \in Native : \A w \in Workers :
                         policy.staged[w] # None /\ policy.staged[w] = Payloads[d][w]
    BY DEF StagedIsOneCapture
  <2>1. OneCapture(weights.staged)
    BY DEF IInv, PolicyInv
  <2>2. policy.staged = weights.staged
    BY AskedPolicy, RestoreAssumption DEF RestoreAssumption
  <2>3. QED
    BY <2>1, <2>2 DEF OneCapture
<1>2. QED
  BY <1>1, IInvCorrect, PTL

\* RecoveryIsClean holds for all descriptors: a fallback leaves no trace of the
\* native attempt in a request, and an explicit "native" never falls back.
THEOREM RecoveryRequestsClean == Spec => []RecoveryIsClean
<1>1. IInv => RecoveryIsClean
  <2> SUFFICES ASSUME IInv, provider = "recovery" PROVE RecoveryIsClean
    BY DEF RecoveryIsClean
  <2>1. /\ mode # "native" /\ weights.mode = "recovery"
        /\ weights.files = NoPayloads /\ weights.staged = NoneStaged
        /\ mode # "recovery" => weights.source = "absent"
    BY DEF IInv, PolicyInv
  <2>2. \A policy \in Asked : /\ policy.mode = "recovery"
                              /\ policy.files = NoPayloads /\ policy.staged = NoneStaged
                              /\ mode # "recovery" => policy.source = "absent"
    BY <2>1, AskedPolicy, RestoreAssumption DEF RestoreAssumption
  <2>3. QED
    BY <2>1, <2>2 DEF RecoveryIsClean
<1>2. QED
  BY <1>1, IInvCorrect, PTL
=============================================================================
