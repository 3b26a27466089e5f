---------------------------- MODULE RestoreStaging ----------------------------
(***************************************************************************)
(* One restore, from the selection of its artifact to its activation       *)
(* (service.py), with the staging of the model payloads of its workers     *)
(* (providers.py).  The artifact is a file of the store, and every step    *)
(* that needs it reads it again, while other invocations may promote other *)
(* captures over it or remove the store.  The payloads of all workers are  *)
(* looked up at once, in a pool of threads: in the cache of their hosts,   *)
(* then where they were captured, then at a published provider.            *)
(***************************************************************************)
EXTENDS Naturals

CONSTANTS
    Descriptors,    \* what the artifact file may say
    Workers,        \* the workers of the request
    Owners,         \* the workers descriptors have payloads for
    Digests,
    Payloads,       \* per descriptor: the digests of its workers' payloads
    Native,         \* the descriptors with a native replay provider
    Published,      \* the descriptors with a repository and a revision
    InPlace,        \* per descriptor: the workers captured on their present host
    MaxReplaced,    \* bound on the replacements of the file
    None            \* no descriptor, no digest, no mode

\* A descriptor has payloads for none or for some of the owners.
ASSUME RestoreAssumption ==
    /\ Workers \subseteq Owners /\ Workers # {}
    /\ Payloads \in [Descriptors -> [Owners -> Digests \cup {None}]]
    /\ Native \subseteq Descriptors /\ Published \subseteq Descriptors
    /\ InPlace \in [Descriptors -> SUBSET Owners]
    /\ None \notin Descriptors \cup Digests \cup {"auto", "native", "recovery", "cache-only-auto"}

VARIABLES
    file,       \* what the artifact path holds
    replaced,   \* the replacements so far, up to MaxReplaced
    pc,
    mode,       \* the weight mode as staging resolves it
    weights,    \* the weights policy of the request
    expected,   \* the payloads the pool looks for
    verifier,   \* the payload verifier is on all hosts
    result,     \* per worker: its look-up in the pool
    staged,     \* per worker: the digest the pool has found
    provider,   \* the outcome of staging
    activation  \* the weights policy of the activation request

pool == <<result, staged>>
vars == <<file, replaced, pc, mode, weights, expected, verifier, pool, provider, activation>>

Modes == {"auto", "native", "recovery", "cache-only-auto"}
Pools == {"node cache", "capture host", "download"}
NoPayloads == [w \in Owners |-> None]
NoneStaged == [w \in Workers |-> None]

\* repository and revision are absent, blank or pinned; files_by_worker and
\* staged have a digest where they have an entry.
Weights == [mode : Modes \cup {None},
            source : {"absent", "blank", "pinned"},
            files : [Owners -> Digests \cup {None}],
            staged : [Workers -> Digests \cup {None}]]

TypeOK ==
    /\ file \in Descriptors \cup {None}
    /\ replaced \in Nat
    /\ pc \in {"select", "read", "capability", "objects", "inventory", "provider",
               "filled", "prepare", "activation", "activate", "done", "failed"} \cup Pools
    /\ mode \in Modes
    /\ weights \in Weights
    /\ expected \in [Owners -> Digests \cup {None}]
    /\ verifier \in BOOLEAN
    /\ result \in [Workers -> {"idle", "running", "staged", "failed"}]
    /\ staged \in [Workers -> Digests \cup {None}]
    /\ provider \in {"native", "recovery", None}
    /\ activation \in Weights
    /\ \A w \in Workers : result[w] = "staged" => staged[w] # None

Blank == [mode |-> None, source |-> "absent", files |-> NoPayloads, staged |-> NoneStaged]

Init ==
    /\ file \in Descriptors \cup {None} /\ replaced = 0
    /\ pc = "select" /\ mode = "auto"
    /\ weights = Blank /\ activation = Blank
    /\ expected = NoPayloads /\ verifier = FALSE
    /\ result = [w \in Workers |-> "idle"] /\ staged = NoneStaged
    /\ provider = None
-----------------------------------------------------------------------------
\* A promotion, a new overlay or an import puts another descriptor in the
\* file's place, or the store is removed.
Replace ==
    /\ pc \notin {"select", "done", "failed"}
    /\ replaced < MaxReplaced /\ replaced' = replaced + 1
    /\ file' \in Descriptors \cup {None}
    /\ UNCHANGED <<pc, mode, weights, expected, verifier, pool, provider, activation>>
-----------------------------------------------------------------------------
(* describe_restore *)

\* A local asset of the target may take the portable artifact's place: SGLang's
\* in any mode, a residual overlay of vLLM unless native payloads are asked for,
\* and then "auto" becomes "recovery".
SelectFor(declared, resolved, request) ==
    \/ /\ mode' = resolved
       /\ weights' = [request EXCEPT !.mode = declared]
       /\ file' \in IF file = None THEN {None} ELSE {file} \cup Descriptors
    \/ /\ file # None /\ resolved \notin {"native", "cache-only-auto"}
       /\ mode' = "recovery"
       /\ weights' = [request EXCEPT !.mode = IF resolved = "auto" THEN "recovery" ELSE declared]
       /\ file' \in Descriptors

\* build_request declares the mode of the command line or of the recipe, or
\* none, and has the provider the recipe pins.
Select ==
    /\ pc = "select" /\ pc' = "read"
    /\ \E declared \in Modes \cup {None}, default \in {"auto", "recovery"},
          source \in {"absent", "pinned"} :
          SelectFor(declared, IF declared = None THEN default ELSE declared,
                    [Blank EXCEPT !.source = source])
    /\ UNCHANGED <<replaced, expected, verifier, pool, provider, activation>>

\* The document of the restore, whose capsule images finalize_restore will launch.
\* It may be missing, not committed, or for another driver.
ReadDescriptor ==
    /\ pc = "read"
    /\ \/ pc' = "failed"
       \/ file # None /\ pc' = "capability"
    /\ UNCHANGED <<file, replaced, mode, weights, expected, verifier, pool, provider, activation>>
-----------------------------------------------------------------------------
(* stage_native_packs *)

\* Mutant: only the repository, the revision and the staged packs are dropped.
FallbackKeepsFiles ==
    /\ IF mode = "native"
       THEN pc' = "failed" /\ UNCHANGED <<weights, provider>>
       ELSE /\ pc' = "prepare"
            /\ provider' = "recovery"
            /\ weights' = [Blank EXCEPT !.mode = "recovery", !.files = weights.files]

\* _fallback_or_raise: the transport hints go, for the controller refuses a
\* request that has only some of them.
Fallback ==
    /\ IF mode = "native"
       THEN pc' = "failed" /\ UNCHANGED <<weights, provider>>
       ELSE /\ pc' = "prepare"
            /\ provider' = "recovery"
            /\ weights' = [Blank EXCEPT !.mode = "recovery"]

Readable == file \in Native

\* Mode "recovery" needs no payloads, and is declared so that the controller
\* does not resolve it again; nor does an artifact without native replay.
Capability ==
    /\ pc = "capability"
    /\ \/ /\ mode = "recovery"
          /\ pc' = "prepare" /\ provider' = "recovery"
          /\ weights' = [weights EXCEPT !.mode = "recovery"]
       \/ mode # "recovery" /\ file # None /\ ~Readable /\ Fallback
       \/ /\ mode # "recovery" /\ (file = None \/ Readable)
          /\ pc' = "objects" /\ UNCHANGED <<weights, provider>>
    /\ UNCHANGED <<file, replaced, mode, expected, verifier, pool, activation>>

\* ensure_remote_verifier: one failing host fails the restore, in every mode.
VerifierReady == verifier' = TRUE
VerifierFails == ~verifier /\ pc' = "failed" /\ UNCHANGED <<verifier, pool>>

\* A pool of threads starts on the workers; those who cannot succeed have failed.
Start(stage, hopeless) ==
    /\ pc' = stage
    /\ staged' = NoneStaged
    /\ result' = [w \in Workers |-> IF w \in hopeless THEN "failed" ELSE "running"]

\* The payloads a node cache may hold: those of a descriptor that has one for
\* each worker of the request, and no others.
ReadObjects ==
    /\ pc = "objects"
    /\ LET complete == Readable /\ \A w \in Owners : Payloads[file][w] # None <=> w \in Workers
       IN  /\ expected' = IF complete THEN Payloads[file] ELSE NoPayloads
           /\ \/ ~complete /\ pc' = "inventory" /\ UNCHANGED <<verifier, pool>>
              \/ complete /\ VerifierFails
              \/ complete /\ VerifierReady /\ Start("node cache", {})
    /\ UNCHANGED <<file, replaced, mode, weights, provider, activation>>

\* Mutant: what the node caches had is not looked up again.
ReadInventoryOfRest ==
    /\ pc = "inventory"
    /\ LET usable == Readable /\ Payloads[file] # NoPayloads
       IN  /\ expected' = IF usable THEN Payloads[file] ELSE expected
           /\ \/ ~usable /\ pc' = "provider" /\ UNCHANGED <<verifier, pool>>
              \/ usable /\ VerifierFails
              \/ /\ usable /\ VerifierReady
                 /\ \/ /\ \E w \in Workers : Payloads[file][w] = None
                       /\ pc' = "failed" /\ UNCHANGED pool
                    \/ /\ \A w \in Workers : Payloads[file][w] # None
                       /\ pc' = "capture host"
                       /\ result' = [w \in Workers |->
                             IF staged[w] # None THEN "staged"
                             ELSE IF w \in InPlace[file] THEN "running" ELSE "failed"]
                       /\ UNCHANGED staged
    /\ UNCHANGED <<file, replaced, mode, weights, provider, activation>>

\* The payloads on the hosts of the capture.  A worker of the request that the
\* descriptor does not have is a KeyError; one that has moved cannot succeed.
ReadInventory ==
    /\ pc = "inventory"
    /\ LET usable == Readable /\ Payloads[file] # NoPayloads
       IN  /\ expected' = IF usable THEN Payloads[file] ELSE expected
           /\ \/ ~usable /\ pc' = "provider" /\ UNCHANGED <<verifier, pool>>
              \/ usable /\ VerifierFails
              \/ /\ usable /\ VerifierReady
                 /\ \/ /\ \E w \in Workers : Payloads[file][w] = None
                       /\ pc' = "failed" /\ UNCHANGED pool
                    \/ /\ \A w \in Workers : Payloads[file][w] # None
                       /\ Start("capture host", Workers \ InPlace[file])
    /\ UNCHANGED <<file, replaced, mode, weights, provider, activation>>

\* _fill_native_inventory_from_artifact, over what the recipe says.
ReadProvider ==
    /\ pc = "provider" /\ pc' = "filled"
    /\ weights' = IF Readable
                  THEN [weights EXCEPT
                          !.source = IF file \in Published THEN "pinned" ELSE "blank",
                          !.files = Payloads[file]]
                  ELSE weights
    /\ UNCHANGED <<file, replaced, mode, expected, verifier, pool, provider, activation>>

\* A provider must have a file for each worker of the request and no others.
\* Digests are looked for under the names of one reading of the descriptor and
\* verified against another, so a worker may not have both.
StartDownload ==
    /\ pc = "filled"
    /\ LET usable == /\ weights.source = "pinned"
                     /\ \A w \in Owners : weights.files[w] # None <=> w \in Workers
       IN  \/ ~usable /\ Fallback /\ UNCHANGED <<verifier, pool>>
           \/ usable /\ VerifierFails /\ UNCHANGED <<weights, provider>>
           \/ /\ usable /\ VerifierReady
              /\ Start("download", {w \in Workers : expected[w] = None})
              /\ UNCHANGED <<weights, provider>>
    /\ UNCHANGED <<file, replaced, mode, expected, activation>>

\* What the verifier accepts on a host: content with the digest it is given.
\* The file a download brings has the digest it is named for.
Accepts(w, digest) ==
    /\ digest = expected[w]
    /\ pc = "download" => digest = weights.files[w]

\* A host answers with a digest that is accepted, or with an error.
LookUp(w) ==
    /\ pc \in Pools /\ result[w] = "running"
    /\ \/ result' = [result EXCEPT ![w] = "failed"] /\ UNCHANGED staged
       \/ \E digest \in Digests :
             /\ Accepts(w, digest)
             /\ result' = [result EXCEPT ![w] = "staged"]
             /\ staged' = [staged EXCEPT ![w] = digest]
    /\ UNCHANGED <<file, replaced, pc, mode, weights, expected, verifier, provider, activation>>

NextSource(stage) == IF stage = "node cache" THEN "inventory" ELSE "provider"

\* All threads have ended: native replay needs a payload for every worker.
EndPool ==
    /\ pc \in Pools /\ \A w \in Workers : result[w] \in {"staged", "failed"}
    /\ \/ /\ \A w \in Workers : result[w] = "staged"
          /\ pc' = "prepare" /\ provider' = "native"
          /\ weights' = [weights EXCEPT !.staged = staged]
       \/ /\ \E w \in Workers : result[w] = "failed"
          /\ \/ pc = "download" /\ Fallback
             \/ pc # "download" /\ pc' = NextSource(pc) /\ UNCHANGED <<weights, provider>>
    /\ UNCHANGED <<file, replaced, mode, expected, verifier, pool, activation>>
-----------------------------------------------------------------------------
(* prepare_capsules, finalize_restore, prepare_activation, activate *)

\* The controller pulls the capsules of the artifact and says which provider it
\* has selected: any but the one that was staged ends the restore.
PrepareCapsules ==
    /\ pc = "prepare"
    /\ \/ pc' = "failed"
       \/ file # None /\ pc' = "activation"
    /\ UNCHANGED <<file, replaced, mode, weights, expected, verifier, pool, provider, activation>>

\* The request is built again, but its weights policy is the staged one, with
\* the selected mode.
PrepareActivation ==
    /\ pc = "activation" /\ pc' = "activate"
    /\ activation' = [weights EXCEPT !.mode = provider]
    /\ UNCHANGED <<file, replaced, mode, weights, expected, verifier, pool, provider>>

Activate ==
    /\ pc = "activate" /\ pc' \in {"done", "failed"}
    /\ UNCHANGED <<file, replaced, mode, weights, expected, verifier, pool, provider, activation>>

Next ==
    \/ Replace \/ Select \/ ReadDescriptor \/ Capability \/ ReadObjects
    \/ ReadInventory \/ ReadProvider \/ StartDownload
    \/ (\E w \in Workers : LookUp(w)) \/ EndPool
    \/ PrepareCapsules \/ PrepareActivation \/ Activate

Spec == Init /\ [][Next]_vars
-----------------------------------------------------------------------------
\* What the controller is asked to activate: the requests in a policy for it.
Asked == (IF provider # None THEN {weights} ELSE {})
         \cup (IF pc \in {"activate", "done"} THEN {activation} ELSE {})

\* "native" only with the payloads of all workers, and all of one capture: not
\* one worker's from the capture that was replaced and another's from the one
\* that replaced it, however the sources and readings interleave.
StagedIsOneCapture ==
    provider = "native" => \A policy \in Asked : \E d \in Native : \A w \in Workers :
        policy.staged[w] # None /\ policy.staged[w] = Payloads[d][w]

\* A request for recovery declares it, so that nobody resolves the mode again,
\* and has no trace of a native attempt: neither its payloads nor, after a fallback,
\* the repository and the revision that are valid only with them.  One for "native"
\* alone never recovers.
RecoveryIsClean ==
    provider = "recovery" =>
        /\ mode # "native"
        /\ \A policy \in Asked :
              /\ policy.mode = "recovery"
              /\ policy.files = NoPayloads /\ policy.staged = NoneStaged
              /\ mode # "recovery" => policy.source = "absent"
=============================================================================
