--------------------------- MODULE HostCacheProofs ---------------------------
(***************************************************************************)
(* Invocations that share a directory of the host without a lock: the type *)
(* invariants and the safety invariants of ToolCache, for any number of    *)
(* invocations, binaries, commits and bundles, and those of Builder, for   *)
(* any number of invocations and plans.                                    *)
(***************************************************************************)
EXTENDS ToolCache, Builder, TLAPS

Verifying == {"binaries", "identity", "selected", "done"}

Same(contents) == \A n \in Binaries : file[n] = contents[n]

\* What a process has in hand at each place.
HandInv(p) ==
    /\ seen[p] # None => seen[p] \in Bundles
    /\ pc[p] \in Verifying => seen[p] # None
    /\ pc[p] \in {"write", "publish"} => payload[p] # None
    /\ pc[p] \in {"manifest", "binaries"} /\ source[p] # "cache" => payload[p] # None

\* An undisturbed installation has put its payload into the cache, and finds it.
InstallInv(p) ==
    ~tampered[p] =>
        /\ pc[p] = "write" => \A n \in 1..(at[p] - 1) : file[n] = payload[p][n]
        /\ pc[p] = "publish" => Same(payload[p])
        /\ pc[p] = "manifest" /\ source[p] # "cache" =>
              /\ Same(payload[p])
              /\ manifest = [commit |-> wanted[p], sha256 |-> payload[p]]
        /\ pc[p] = "binaries" /\ source[p] # "cache" =>
              Same(payload[p]) /\ seen[p] = payload[p]
        /\ pc[p] = "refused" => source[p] = "cache"

\* What an undisturbed verification has seen is still there.
VerifyInv(p) ==
    ~tampered[p] =>
        /\ pc[p] = "binaries" => \A n \in 1..(at[p] - 1) : file[n] = seen[p][n]
        /\ pc[p] \in {"identity", "selected"} => Same(seen[p])
        /\ pc[p] \in {"selected", "done"} =>
              /\ \A n \in Binaries : ran[p][n] \in {None, seen[p][n]}
              /\ p \in native => Identity[seen[p][1]] = wanted[p]

\* Nothing has been executed before a tool was selected.
IdleInv(p) ==
    pc[p] \notin {"selected", "done", "dead"} => \A n \in Binaries : ran[p][n] = None

ProcessInv(p) == HandInv(p) /\ InstallInv(p) /\ VerifyInv(p) /\ IdleInv(p)

ManifestInv == manifest # None => manifest.sha256 \in Bundles

\* A controller is of the commit its manifest names, or the manifest was written
\* from a source that is only believed.
Vouched(commit, b) ==
    Identity[b[1]] = commit \/ [commit |-> commit, sha256 |-> b] \in claimed

ClaimInv ==
    /\ manifest # None => Vouched(manifest.commit, manifest.sha256)
    /\ \A p \in Processes :
          /\ pc[p] \in Verifying => Vouched(wanted[p], seen[p])
          /\ pc[p] \in {"write", "publish"} /\ source[p] = "build" =>
                Identity[payload[p][1]] = wanted[p]
          /\ pc[p] = "archives" => source[p] = "release"

IInv == TypeOK /\ ManifestInv /\ ClaimInv /\ \A p \in Processes : ProcessInv(p)
-----------------------------------------------------------------------------
Places == [Processes -> {"manifest", "binaries", "identity", "refused", "unidentified",
                         "unavailable", "acquire", "archives", "write", "publish",
                         "selected"} \cup Ended]

LEMMA FirstBinary == 1 \in Binaries /\ Last \in Binaries
  BY ToolAssumption DEF Binaries

LEMMA TypeInit == Init => TypeOK
  BY FirstBinary DEF Init, TypeOK, Installers, Ended

LEMMA ManifestType ==
  ASSUME NEW commit \in Commits, NEW b \in Bundles
  PROVE  /\ [commit |-> commit, sha256 |-> b] \in Manifests
         /\ [commit |-> commit, sha256 |-> b].sha256 = b
         /\ [commit |-> commit, sha256 |-> b] # None
  BY ToolAssumption DEF Manifests

\* A bundle that is delivered is one of those the source may deliver.
LEMMA TypeDeliver ==
  ASSUME TypeOK, NEW p \in Processes, NEW bundles \in SUBSET Bundles, Deliver(p, bundles)
  PROVE  /\ payload' \in [Processes -> Bundles \cup {None}] /\ payload'[p] \in Bundles
         /\ at' \in [Processes -> Binaries] /\ tampered' \in [Processes -> BOOLEAN]
         /\ pc' = [pc EXCEPT ![p] = "write"]
  BY FirstBinary DEF TypeOK, Deliver, Go

LEMMA TypeStep == ASSUME TypeOK, ManifestInv, \A p \in Processes : HandInv(p), [Next]_vars
                  PROVE  TypeOK'
<1>1. CASE UNCHANGED vars
  BY <1>1 DEF TypeOK, vars, config, cache, local
<1>2. ASSUME NEW p \in Processes, Step(p) PROVE TypeOK'
  <2>1. CASE ReadManifest(p)
    <3>1. Accepted(p) => manifest.sha256 \in [Binaries -> Contents]
      BY DEF TypeOK, Accepted, Manifests
    <3>2. QED
      BY <2>1, <3>1, FirstBinary
         DEF ReadManifest, TypeOK, Go, config, cache
  <2>2. CASE CheckBinary(p)
    <3>1. at[p] < Last => at[p] + 1 \in Binaries
      BY ToolAssumption DEF TypeOK, Binaries
    <3>2. at' \in [Processes -> Binaries]
      BY <2>2, <3>1 DEF CheckBinary, TypeOK
    <3>3. QED
      BY <2>2, <3>2 DEF CheckBinary, Checked, TypeOK, Go, config, cache
  <2>3. CASE CheckIdentity(p)
    BY <2>3 DEF CheckIdentity, TypeOK, Go, config, cache, local
  <2>4. CASE TryNext(p)
    <3>1. source[p] # "build" => After[source[p]] \in Installers
      BY DEF TypeOK, After, Installers
    <3>2. UNCHANGED <<config, cache, ran, tampered, claimed, crashes>>
      BY <2>4 DEF TryNext
    <3>3. at' \in [Processes -> Binaries]
      BY <2>4, FirstBinary DEF TryNext, TypeOK
    <3>4. /\ payload' \in [Processes -> Bundles \cup {None}]
          /\ seen' \in [Processes -> [Binaries -> Contents] \cup {None}]
      BY <2>4 DEF TryNext, TypeOK
    <3>5. /\ Go(p, "acquire") \/ Go(p, "failed")
          /\ source' \in [Processes -> {"cache"} \cup Installers]
      BY <2>4, <3>1 DEF TryNext, TypeOK
    <3>6. QED
      BY <3>2, <3>3, <3>4, <3>5 DEF Go, TypeOK, config, cache, Ended
  <2>5. CASE FetchRelease(p)
    BY <2>5 DEF FetchRelease, Unavailable, TypeOK, Go, config, cache
  <2>6. CASE FetchArchives(p) \/ ReadOciBundle(p)
    <3>1. CASE Deliver(p, Bundles)
      BY <2>6, <3>1, TypeDeliver DEF FetchArchives, ReadOciBundle, TypeOK, config, cache
    <3>2. CASE ~Deliver(p, Bundles)
      BY <2>6, <3>2
         DEF FetchArchives, ReadOciBundle, Unavailable, TypeOK, Go, config, cache, Ended
    <3>3. QED
      BY <3>1, <3>2
  <2>7. CASE BuildFromSource(p)
    <3>1. CASE Deliver(p, OfCommit(wanted[p]))
      <4>1. OfCommit(wanted[p]) \in SUBSET Bundles
        BY DEF OfCommit
      <4>2. QED
        BY <2>7, <3>1, <4>1, TypeDeliver
           DEF BuildFromSource, TypeOK, config, cache
    <3>2. CASE ~Deliver(p, OfCommit(wanted[p]))
      BY <2>7, <3>2
         DEF BuildFromSource, Unavailable, TypeOK, Go, config, cache
    <3>3. QED
      BY <3>1, <3>2
  <2>8. CASE WriteBinary(p)
    <3>1. payload[p] \in [Binaries -> Contents]
      BY <2>8, ToolAssumption DEF WriteBinary, HandInv, TypeOK
    <3>2. at[p] < Last => at[p] + 1 \in Binaries
      BY ToolAssumption DEF TypeOK, Binaries
    <3>3. file' \in [Binaries -> Contents \cup {None}]
      BY <2>8, <3>1 DEF WriteBinary, TypeOK
    <3>4. at' \in [Processes -> Binaries] /\ tampered' \in [Processes -> BOOLEAN]
      <4>1. at' = at \/ (at[p] < Last /\ at' = [at EXCEPT ![p] = @ + 1])
        BY <2>8 DEF WriteBinary
      <4>2. tampered' = tampered \/ \E change : Tamper(p, change)
        BY <2>8 DEF WriteBinary
      <4>3. tampered' \in [Processes -> BOOLEAN]
        BY <4>2 DEF Tamper, TypeOK
      <4>4. QED
        BY <3>2, <4>1, <4>3 DEF TypeOK
    <3>5. pc' \in Places
      BY <2>8 DEF WriteBinary, TypeOK, Go, Ended, Places
    <3>6. UNCHANGED <<wanted, native, manifest, source, payload, seen, ran, claimed, crashes>>
      BY <2>8 DEF WriteBinary, config
    <3>7. QED
      BY <3>3, <3>4, <3>5, <3>6 DEF TypeOK, Places
  <2>9. CASE WriteManifest(p)
    <3>1. payload[p] \in Bundles /\ wanted[p] \in Commits
      BY <2>9 DEF WriteManifest, HandInv, TypeOK
    <3>2. manifest' \in Manifests \cup {None} /\ tampered' \in [Processes -> BOOLEAN]
      BY <2>9, <3>1, ManifestType DEF WriteManifest, Publish, Tamper, TypeOK
    <3>3. pc' \in Places
      BY <2>9 DEF WriteManifest, Publish, TypeOK, Go, Ended, Places
    <3>4. claimed' \subseteq Manifests
      BY <2>9, <3>1, ManifestType DEF WriteManifest, Publish, TypeOK
    <3>5. QED
      BY <2>9, <3>2, <3>3, <3>4 DEF WriteManifest, TypeOK, config, local, Places
  <2>10. CASE \E n \in Binaries : Run(p, n)
    BY <2>10 DEF Run, TypeOK, config, cache
  <2>11. CASE Finish(p)
    BY <2>11 DEF Finish, TypeOK, Go, config, cache, local, Ended
  <2>12. QED
    BY <1>2, <2>1, <2>2, <2>3, <2>4, <2>5, <2>6, <2>7, <2>8, <2>9, <2>10, <2>11 DEF Step
<1>3. ASSUME NEW p \in Processes, Crash(p) PROVE TypeOK'
  BY <1>3 DEF Crash, TypeOK, Go, config, cache, local, Ended
<1>4. QED
  BY <1>1, <1>2, <1>3 DEF Next
-----------------------------------------------------------------------------
\* A step of another process leaves what a process has in hand alone, and the
\* cache, unless it marks the process as disturbed.
Undisturbed(p) ==
    /\ ~tampered'[p] /\ pc[p] \notin Ended => /\ \A n \in Binaries : file'[n] = file[n]
                                              /\ manifest' = manifest
    /\ tampered[p] => tampered'[p]

InHand(p) == <<wanted, native, pc[p], source[p], at[p], payload[p], seen[p], ran[p]>>

LEMMA OthersStep ==
  ASSUME TypeOK, NEW q \in Processes, Step(q) \/ Crash(q), NEW p \in Processes, p # q
  PROVE  UNCHANGED InHand(p) /\ Undisturbed(p)
<1>1. CASE \/ ReadManifest(q) \/ CheckBinary(q) \/ CheckIdentity(q) \/ TryNext(q)
           \/ (\E n \in Binaries : Run(q, n)) \/ Finish(q) \/ Crash(q)
  <2>1. UNCHANGED cache
    BY <1>1 DEF ReadManifest, CheckBinary, CheckIdentity, TryNext, Run, Finish, Crash
  <2>2. tampered'[p] = tampered[p]
    BY <1>1 DEF TypeOK, ReadManifest, CheckBinary, CheckIdentity, TryNext, Run, Finish, Crash
  <2>3. UNCHANGED InHand(p)
    BY <1>1 DEF TypeOK, InHand, ReadManifest, CheckBinary, CheckIdentity, TryNext, Run, Finish,
                Crash, Checked, Go, config, local
  <2>4. QED
    BY <2>1, <2>2, <2>3 DEF Undisturbed, cache
<1>2. CASE \/ FetchRelease(q) \/ FetchArchives(q) \/ ReadOciBundle(q) \/ BuildFromSource(q)
  <2>1. UNCHANGED cache
    BY <1>2 DEF FetchRelease, FetchArchives, ReadOciBundle, BuildFromSource
  <2>2. tampered'[p] = tampered[p]
    BY <1>2 DEF TypeOK, FetchRelease, FetchArchives, ReadOciBundle, BuildFromSource,
                Unavailable, Deliver
  <2>3. UNCHANGED InHand(p)
    BY <1>2 DEF TypeOK, InHand, FetchRelease, FetchArchives, ReadOciBundle, BuildFromSource,
                Unavailable, Deliver, Go, config
  <2>4. QED
    BY <2>1, <2>2, <2>3 DEF Undisturbed, cache
<1>3. CASE WriteBinary(q)
  <2>1. UNCHANGED InHand(p) /\ manifest' = manifest
    BY <1>3 DEF TypeOK, InHand, WriteBinary, Go, config
  <2>2. UNCHANGED <<file, tampered>> =>  Undisturbed(p)
    BY <2>1 DEF Undisturbed
  <2>3. ASSUME file' = [file EXCEPT ![at[q]] = payload[q][at[q]]],
               Tamper(q, file[at[q]] # payload[q][at[q]])
        PROVE  Undisturbed(p)
    <3>1. tampered'[p] = (tampered[p] \/ (file[at[q]] # payload[q][at[q]] /\ pc[p] \notin Ended))
      BY <2>3 DEF Tamper
    <3>2. file[at[q]] = payload[q][at[q]] => \A n \in Binaries : file'[n] = file[n]
      BY <2>3 DEF TypeOK
    <3>3. QED
      BY <2>1, <3>1, <3>2 DEF Undisturbed
  <2>4. QED
    BY <1>3, <2>1, <2>2, <2>3 DEF WriteBinary
<1>4. CASE WriteManifest(q)
  <2>1. UNCHANGED InHand(p) /\ file' = file
    BY <1>4 DEF TypeOK, InHand, WriteManifest, Publish, Go, config, local
  <2>2. UNCHANGED <<manifest, tampered>> => Undisturbed(p)
    BY <2>1 DEF Undisturbed
  <2>3. ASSUME NEW next, Publish(q, next) PROVE Undisturbed(p)
    <3>1. tampered'[p] = (tampered[p] \/ (manifest # next /\ pc[p] \notin Ended))
      BY <2>3 DEF Publish, Tamper
    <3>2. manifest' = next
      BY <2>3 DEF Publish
    <3>3. QED
      BY <2>1, <3>1, <3>2 DEF Undisturbed
  <2>4. QED
    BY <1>4, <2>1, <2>2, <2>3 DEF WriteManifest
<1>5. QED
  BY <1>1, <1>2, <1>3, <1>4 DEF Step

LEMMA OthersInv ==
  ASSUME TypeOK, TypeOK', NEW p \in Processes, ProcessInv(p), UNCHANGED InHand(p),
         Undisturbed(p)
  PROVE  ProcessInv(p)'
<1> USE DEF InHand
<1>1. HandInv(p)' /\ IdleInv(p)'
  BY DEF ProcessInv, HandInv, IdleInv
<1>2. CASE tampered'[p]
  BY <1>1, <1>2 DEF ProcessInv, InstallInv, VerifyInv
<1>3. CASE pc[p] \in Ended
  BY <1>1, <1>3 DEF ProcessInv, InstallInv, VerifyInv, Undisturbed, Ended
<1>4. CASE ~tampered'[p] /\ pc[p] \notin Ended
  <2>1. ~tampered[p] /\ manifest' = manifest /\ \A n \in Binaries : file'[n] = file[n]
    BY <1>4 DEF Undisturbed
  <2>2. \A n \in 1..(at[p] - 1) : n \in Binaries
    BY ToolAssumption DEF TypeOK, Binaries
  <2>3. InstallInv(p)'
    BY <2>1, <2>2 DEF ProcessInv, InstallInv, Same
  <2>4. VerifyInv(p)'
    BY <2>1, <2>2 DEF ProcessInv, VerifyInv, Same
  <2>5. QED
    BY <1>1, <2>3, <2>4 DEF ProcessInv
<1>5. QED
  BY <1>2, <1>3, <1>4
-----------------------------------------------------------------------------
\* The steps of a process itself, by action.
LEMMA ReadInv ==
  ASSUME IInv, TypeOK', NEW p \in Processes, ReadManifest(p) PROVE ProcessInv(p)'
<1> USE DEF IInv, ProcessInv
<1>1. /\ UNCHANGED <<wanted, native, file, manifest, source, payload, ran>>
      /\ at'[p] = 1 /\ tampered'[p] = (tampered[p] /\ source[p] # "cache")
  BY DEF ReadManifest, TypeOK, config, cache
<1>2. \/ Accepted(p) /\ pc'[p] = "binaries" /\ seen'[p] = manifest.sha256
      \/ ~Accepted(p) /\ pc'[p] = "refused" /\ seen'[p] = seen[p]
  BY DEF ReadManifest, TypeOK, Go
<1>3. Accepted(p) => manifest.sha256 \in Bundles /\ manifest.sha256 # None
  BY ToolAssumption DEF Accepted, ManifestInv
<1>4. HandInv(p)' /\ IdleInv(p)'
  BY <1>1, <1>2, <1>3 DEF HandInv, IdleInv, Verifying, ReadManifest
<1>5. InstallInv(p)'
  <2>1. CASE source[p] = "cache"
    BY <1>1, <1>2, <2>1 DEF InstallInv
  <2>2. CASE source[p] # "cache" /\ ~tampered[p]
    <3>1. /\ Same(payload[p])
          /\ manifest = [commit |-> wanted[p], sha256 |-> payload[p]]
          /\ payload[p] \in Bundles
      BY <2>2 DEF InstallInv, ReadManifest, HandInv, TypeOK
    <3>2. manifest # None /\ Accepted(p) /\ manifest.sha256 = payload[p]
      BY <3>1, ManifestType DEF Accepted, TypeOK
    <3>3. QED
      BY <1>1, <1>2, <3>1, <3>2 DEF InstallInv, Same
  <2>3. CASE source[p] # "cache" /\ tampered[p]
    BY <1>1, <2>3 DEF InstallInv
  <2>4. QED
    BY <2>1, <2>2, <2>3
<1>6. VerifyInv(p)'
  BY <1>1, <1>2 DEF VerifyInv
<1>7. QED
  BY <1>4, <1>5, <1>6

LEMMA CheckInv ==
  ASSUME IInv, TypeOK', NEW p \in Processes, CheckBinary(p) PROVE ProcessInv(p)'
<1> USE DEF IInv, ProcessInv
<1>1. UNCHANGED <<wanted, native, file, manifest, source, payload, seen, ran, tampered>>
  BY DEF CheckBinary, config, cache
<1>2. pc[p] = "binaries" /\ at[p] \in Binaries
  BY DEF CheckBinary, TypeOK
<1>3. \/ /\ file[at[p]] = seen[p][at[p]]
         /\ \/ at[p] < Last /\ pc'[p] = "binaries" /\ at'[p] = at[p] + 1
            \/ at[p] = Last /\ pc'[p] \in {"identity", "selected"} /\ at'[p] = at[p]
               /\ (pc'[p] = "selected" => p \notin native)
      \/ file[at[p]] # seen[p][at[p]] /\ pc'[p] = "refused" /\ at'[p] = at[p]
  BY DEF CheckBinary, Checked, Go, TypeOK
<1>4. HandInv(p)'
  BY <1>1, <1>2, <1>3 DEF HandInv, Verifying
<1>5. IdleInv(p)'
  BY <1>1, <1>2, <1>3 DEF IdleInv
<1>6. InstallInv(p)'
  BY <1>1, <1>2, <1>3 DEF InstallInv, Same
<1>7. VerifyInv(p)'
  <2>1. SUFFICES ASSUME ~tampered[p] PROVE VerifyInv(p)'
    BY <1>1 DEF VerifyInv
  <2>2. \A n \in 1..(at[p] - 1) : file[n] = seen[p][n]
    BY <1>2, <2>1 DEF VerifyInv
  <2>3. CASE pc'[p] = "binaries"
    <3>1. \A n \in 1..(at'[p] - 1) : n \in 1..(at[p] - 1) \/ n = at[p]
      BY <1>2, <1>3, <2>3, ToolAssumption DEF Binaries
    <3>2. QED
      BY <1>1, <1>2, <1>3, <2>2, <2>3, <3>1 DEF VerifyInv
  <2>4. CASE pc'[p] \in {"identity", "selected"}
    <3>1. \A n \in Binaries : n \in 1..(at[p] - 1) \/ n = at[p]
      BY <1>2, <1>3, <2>4, ToolAssumption DEF Binaries
    <3>2. Same(seen[p])
      BY <1>3, <2>2, <2>4, <3>1 DEF Same
    <3>3. \A n \in Binaries : ran[p][n] = None
      BY <1>2 DEF IdleInv
    <3>4. QED
      BY <1>1, <1>3, <2>4, <3>2, <3>3 DEF VerifyInv, Same
  <2>5. CASE pc'[p] = "refused"
    BY <1>1, <2>5 DEF VerifyInv
  <2>6. QED
    BY <1>3, <2>3, <2>4, <2>5
<1>8. QED
  BY <1>4, <1>5, <1>6, <1>7

LEMMA IdentityInv ==
  ASSUME IInv, TypeOK', NEW p \in Processes, CheckIdentity(p) PROVE ProcessInv(p)'
<1> USE DEF IInv, ProcessInv
<1>1. UNCHANGED <<wanted, native, file, manifest, source, at, payload, seen, ran, tampered>>
  BY DEF CheckIdentity, config, cache, local
<1>2. /\ pc[p] = "identity"
      /\ \/ pc'[p] = "selected" /\ Identity[file[1]] = wanted[p]
         \/ pc'[p] = "unidentified"
  BY DEF CheckIdentity, Go, TypeOK
<1>3. HandInv(p)' /\ IdleInv(p)' /\ InstallInv(p)'
  BY <1>1, <1>2 DEF HandInv, IdleInv, InstallInv, Verifying, Same
<1>4. VerifyInv(p)'
  <2>1. \A n \in Binaries : ran[p][n] = None
    BY <1>2 DEF IdleInv
  <2>2. ~tampered[p] => Same(seen[p]) /\ file[1] = seen[p][1]
    BY <1>2, FirstBinary DEF VerifyInv, Same
  <2>3. QED
    BY <1>1, <1>2, <2>1, <2>2 DEF VerifyInv, Same
<1>5. QED
  BY <1>3, <1>4

\* Steps between the verification and the writing, and the last step.
LEMMA AcquireInv ==
  ASSUME IInv, TypeOK', NEW p \in Processes,
         TryNext(p) \/ FetchRelease(p) \/ FetchArchives(p) \/ ReadOciBundle(p)
         \/ BuildFromSource(p)
  PROVE  ProcessInv(p)'
<1> USE DEF IInv, ProcessInv
<1>1. /\ UNCHANGED <<wanted, native, ran>>
      /\ seen'[p] \in {None, seen[p]}
  BY DEF TryNext, FetchRelease, FetchArchives, ReadOciBundle, BuildFromSource, config, cache, TypeOK
<1>2. pc[p] \notin {"selected", "done", "dead"}
  BY DEF TryNext, FetchRelease, FetchArchives, ReadOciBundle, BuildFromSource
<1>3. \/ pc'[p] \in {"acquire", "archives", "unavailable", "failed"}
      \/ pc'[p] = "write" /\ at'[p] = 1 /\ payload'[p] \in Bundles
  <2>1. CASE TryNext(p)
    BY <2>1 DEF TryNext, Go, TypeOK
  <2>2. CASE FetchRelease(p)
    BY <2>2 DEF FetchRelease, Unavailable, Go, TypeOK
  <2>3. OfCommit(wanted[p]) \in SUBSET Bundles
    BY DEF OfCommit
  <2>4. ASSUME NEW bundles \in SUBSET Bundles, Deliver(p, bundles)
        PROVE  pc'[p] = "write" /\ at'[p] = 1 /\ payload'[p] \in Bundles
    BY <2>4 DEF Deliver, Go, TypeOK
  <2>5. CASE FetchArchives(p)
    BY <2>4, <2>5 DEF FetchArchives, Unavailable, Go, TypeOK
  <2>6. CASE ReadOciBundle(p)
    BY <2>4, <2>6 DEF ReadOciBundle, Unavailable, Go, TypeOK
  <2>7. CASE BuildFromSource(p)
    BY <2>3, <2>4, <2>7 DEF BuildFromSource, Unavailable, Go, TypeOK
  <2>8. QED
    BY <2>1, <2>2, <2>5, <2>6, <2>7
<1>4. HandInv(p)' /\ IdleInv(p)'
  <2>1. None \notin Bundles
    BY ToolAssumption
  <2>2. QED
    BY <1>1, <1>2, <1>3, <2>1 DEF HandInv, IdleInv, Verifying
<1>5. InstallInv(p)' /\ VerifyInv(p)'
  BY <1>3 DEF InstallInv, VerifyInv
<1>6. QED
  BY <1>4, <1>5

LEMMA WriteInv ==
  ASSUME IInv, TypeOK', NEW p \in Processes, WriteBinary(p) PROVE ProcessInv(p)'
<1> USE DEF IInv, ProcessInv
<1>1. UNCHANGED <<wanted, native, manifest, source, payload, seen, ran>>
  BY DEF WriteBinary, config
<1>2. pc[p] = "write" /\ at[p] \in Binaries /\ payload[p] # None
  BY DEF WriteBinary, HandInv, TypeOK
<1>3. \/ pc'[p] = "failed" /\ UNCHANGED <<file, at, tampered>>
      \/ /\ file' = [file EXCEPT ![at[p]] = payload[p][at[p]]]
         /\ \/ at[p] < Last /\ at'[p] = at[p] + 1 /\ pc'[p] = "write"
            \/ at[p] = Last /\ pc'[p] = "publish"
  BY <1>2 DEF WriteBinary, Go, TypeOK
<1>4. tampered'[p] = tampered[p]
  <2>1. UNCHANGED tampered \/ \E change : Tamper(p, change)
    BY DEF WriteBinary
  <2>2. ASSUME NEW change, Tamper(p, change) PROVE tampered'[p] = tampered[p]
    BY <2>2 DEF Tamper, TypeOK
  <2>3. QED
    BY <2>1, <2>2
<1>5. HandInv(p)' /\ IdleInv(p)'
  BY <1>1, <1>2, <1>3 DEF HandInv, IdleInv, Verifying
<1>6. VerifyInv(p)'
  BY <1>3 DEF VerifyInv
<1>7. InstallInv(p)'
  <2>1. SUFFICES ASSUME ~tampered[p] PROVE InstallInv(p)'
    BY <1>4 DEF InstallInv
  <2>2. \A n \in 1..(at[p] - 1) : file[n] = payload[p][n]
    BY <1>2, <2>1 DEF InstallInv
  <2>3. CASE pc'[p] = "failed"
    BY <2>3 DEF InstallInv
  <2>4. CASE pc'[p] # "failed"
    <3>1. /\ file'[at[p]] = payload[p][at[p]]
          /\ \A n \in Binaries : n # at[p] => file'[n] = file[n]
      BY <1>2, <1>3, <2>4 DEF TypeOK
    <3>2. \A n \in Binaries : n \in 1..at[p] => file'[n] = payload[p][n]
      BY <1>2, <2>2, <3>1 DEF Binaries
    <3>3. CASE pc'[p] = "write"
      <4>1. 1..(at'[p] - 1) = 1..at[p] /\ 1..at[p] \subseteq Binaries
        BY <1>2, <1>3, <3>3, ToolAssumption DEF Binaries
      <4>2. QED
        BY <1>1, <3>2, <3>3, <4>1 DEF InstallInv
    <3>4. CASE pc'[p] = "publish"
      <4>1. Same(payload[p])'
        BY <1>1, <1>3, <3>2, <3>4, ToolAssumption DEF Same, Binaries
      <4>2. QED
        BY <3>4, <4>1 DEF InstallInv
    <3>5. QED
      BY <1>3, <2>4, <3>3, <3>4
  <2>5. QED
    BY <2>3, <2>4
<1>8. QED
  BY <1>5, <1>6, <1>7

LEMMA PublishInv ==
  ASSUME IInv, TypeOK', NEW p \in Processes, WriteManifest(p)
  PROVE  ProcessInv(p)' /\ ManifestInv'
<1> USE DEF IInv, ProcessInv
<1> DEFINE next == [commit |-> wanted[p], sha256 |-> payload[p]]
<1>1. UNCHANGED <<wanted, native, file, source, payload, seen, ran>>
  BY DEF WriteManifest, config, local
<1>2. pc[p] = "publish" /\ payload[p] \in Bundles /\ payload[p] # None
  BY DEF WriteManifest, HandInv, TypeOK
<1>3. \/ pc'[p] = "failed" /\ UNCHANGED <<manifest, tampered>>
      \/ pc'[p] = "manifest" /\ Publish(p, next)
  BY DEF WriteManifest, Publish, Go, TypeOK
<1>4. tampered'[p] = tampered[p] /\ (pc'[p] = "manifest" => manifest' = next)
  BY <1>3 DEF Publish, Tamper, TypeOK
<1>5. HandInv(p)' /\ IdleInv(p)'
  BY <1>1, <1>2, <1>3 DEF HandInv, IdleInv, Verifying
<1>6. InstallInv(p)'
  BY <1>1, <1>2, <1>3, <1>4 DEF InstallInv, Same
<1>7. VerifyInv(p)'
  BY <1>3 DEF VerifyInv
<1>8. ManifestInv'
  <2>1. next.sha256 = payload[p]
    OBVIOUS
  <2>2. manifest' = manifest \/ manifest' = next
    BY <1>3, <1>4
  <2>3. QED
    BY <1>2, <2>1, <2>2 DEF ManifestInv
<1>9. QED
  BY <1>5, <1>6, <1>7, <1>8

LEMMA UseInv ==
  ASSUME IInv, TypeOK', NEW p \in Processes,
         (\E n \in Binaries : Run(p, n)) \/ Finish(p) \/ Crash(p)
  PROVE  ProcessInv(p)'
<1> USE DEF IInv, ProcessInv
<1>1. UNCHANGED <<wanted, native, file, manifest, source, at, payload, seen, tampered>>
  BY DEF Run, Finish, Crash, config, cache, local
<1>2. CASE Finish(p) \/ Crash(p)
  <2>1. /\ ran' = ran
        /\ \/ pc[p] = "selected" /\ pc'[p] = "done"
           \/ pc'[p] = "dead"
    BY <1>2 DEF Finish, Crash, Go, TypeOK, local
  <2>2. QED
    BY <1>1, <2>1 DEF HandInv, InstallInv, VerifyInv, IdleInv, Verifying
<1>3. CASE \E n \in Binaries : Run(p, n)
  <2>1. PICK n \in Binaries : Run(p, n)
    BY <1>3
  <2>2. pc' = pc /\ pc[p] = "selected" /\ ran'[p] = [ran[p] EXCEPT ![n] = file[n]]
    BY <2>1 DEF Run, TypeOK
  <2>3. HandInv(p)' /\ InstallInv(p)' /\ IdleInv(p)'
    BY <1>1, <2>2 DEF HandInv, InstallInv, IdleInv
  <2>4. \A m \in Binaries : ran'[p][m] = IF m = n THEN file[n] ELSE ran[p][m]
    BY <2>2 DEF TypeOK
  <2>5. VerifyInv(p)'
    BY <1>1, <2>2, <2>4 DEF VerifyInv, Same
  <2>6. QED
    BY <2>3, <2>5
<1>4. QED
  BY <1>2, <1>3
-----------------------------------------------------------------------------
\* What vouches for a commit: only an installation brings a manifest, and a build
\* needs nobody's word.
LEMMA ClaimStep ==
  ASSUME IInv, TypeOK', NEW q \in Processes, Step(q) \/ Crash(q)
  PROVE  ClaimInv'
<1> USE DEF IInv
<1>1. /\ wanted' = wanted /\ claimed \subseteq claimed'
      /\ \A p \in Processes : p # q =>
            UNCHANGED <<pc[p], seen[p], source[p], payload[p]>>
  <2>1. UNCHANGED wanted /\ claimed \subseteq claimed'
    BY DEF Step, ReadManifest, CheckBinary, CheckIdentity, TryNext, FetchRelease,
           FetchArchives, ReadOciBundle, BuildFromSource, WriteBinary, WriteManifest,
           Publish, Run, Finish, Crash, config
  <2>2. ASSUME NEW p \in Processes, p # q PROVE UNCHANGED <<pc[p], seen[p], source[p], payload[p]>>
    BY <2>2, OthersStep DEF InHand
  <2>3. QED
    BY <2>1, <2>2
<1>2. \A commit, b : Vouched(commit, b) => Vouched(commit, b)'
  BY <1>1 DEF Vouched
<1>3. ASSUME NEW p \in Processes, p # q
      PROVE  /\ pc'[p] \in Verifying => Vouched(wanted[p], seen[p])'
             /\ pc'[p] \in {"write", "publish"} /\ source'[p] = "build" =>
                   Identity[payload'[p][1]] = wanted'[p]
             /\ pc'[p] = "archives" => source'[p] = "release"
  BY <1>1, <1>2, <1>3 DEF ClaimInv
<1>4. manifest' # None => Vouched(manifest.commit, manifest.sha256)'
  <2>1. CASE UNCHANGED manifest
    BY <1>2, <2>1 DEF ClaimInv
  <2>2. CASE manifest' # manifest
    <3> DEFINE next == [commit |-> wanted[q], sha256 |-> payload[q]]
    <3>1. WriteManifest(q) /\ pc[q] = "publish"
      BY <2>2
         DEF Step, ReadManifest, CheckBinary, CheckIdentity, TryNext, FetchRelease,
             FetchArchives, ReadOciBundle, BuildFromSource, WriteBinary, WriteManifest, Run,
             Finish, Crash, cache
    <3>2. Publish(q, next)
      BY <2>2, <3>1 DEF WriteManifest
    <3>3. /\ next.commit = wanted[q] /\ next.sha256 = payload[q] /\ manifest' = next
          /\ claimed' = claimed \cup {m \in {next} :
                  source[q] # "build" /\ Identity[m.sha256[1]] # m.commit}
      BY <3>2 DEF Publish
    <3>4. source[q] = "build" => Identity[next.sha256[1]] = next.commit
      BY <3>1, <3>3 DEF ClaimInv
    <3>5. QED
      BY <3>3, <3>4 DEF Vouched
  <2>3. QED
    BY <2>1, <2>2
<1>5. pc'[q] \in Verifying => Vouched(wanted[q], seen[q])'
  <2>1. CASE ReadManifest(q)
    <3>1. pc'[q] \in Verifying =>
              Accepted(q) /\ seen'[q] = manifest.sha256 /\ manifest' = manifest
      BY <2>1 DEF ReadManifest, Go, TypeOK, Verifying, cache
    <3>2. QED
      BY <1>1, <1>2, <3>1 DEF Accepted, ClaimInv
  <2>2. CASE ~ReadManifest(q)
    <3>1. pc'[q] \in Verifying => pc[q] \in Verifying /\ seen'[q] = seen[q]
      BY <2>2
         DEF Step, CheckBinary, Checked, CheckIdentity, TryNext, FetchRelease, FetchArchives,
             ReadOciBundle, BuildFromSource, Deliver, Unavailable, WriteBinary, WriteManifest,
             Publish, Run, Finish, Crash, Go, TypeOK, Verifying, local
    <3>2. QED
      BY <1>1, <1>2, <3>1 DEF ClaimInv
  <2>3. QED
    BY <2>1, <2>2
<1>6. pc'[q] \in {"write", "publish"} /\ source'[q] = "build" =>
          Identity[payload'[q][1]] = wanted'[q]
  <2>1. CASE BuildFromSource(q)
    <3>1. Deliver(q, OfCommit(wanted[q])) => Identity[payload'[q][1]] = wanted[q]
      BY DEF Deliver, OfCommit, TypeOK
    <3>2. ~Deliver(q, OfCommit(wanted[q])) => pc'[q] = "unavailable"
      BY <2>1 DEF BuildFromSource, Unavailable, Go, TypeOK
    <3>3. QED
      BY <1>1, <3>1, <3>2
  <2>2. CASE ~BuildFromSource(q)
    <3>1. CASE WriteBinary(q)
      <4>1. pc[q] = "write" /\ source' = source /\ payload' = payload
        BY <3>1 DEF WriteBinary
      <4>2. QED
        BY <1>1, <4>1 DEF ClaimInv
    <3>2. CASE ReadOciBundle(q) \/ FetchArchives(q)
      <4>1. ReadOciBundle(q) => source'[q] = "oci"
        BY DEF ReadOciBundle
      <4>2. FetchArchives(q) => source'[q] = "release"
        BY DEF FetchArchives, ClaimInv
      <4>3. QED
        BY <3>2, <4>1, <4>2
    <3>3. CASE ~(WriteBinary(q) \/ ReadOciBundle(q) \/ FetchArchives(q))
      <4>1. pc'[q] \notin {"write", "publish"}
        BY <2>2, <3>3
           DEF Step, ReadManifest, CheckBinary, Checked, CheckIdentity, TryNext,
               FetchRelease, Unavailable, WriteManifest, Publish, Run, Finish, Crash, Go,
               TypeOK, Ended
      <4>2. QED
        BY <4>1
    <3>4. QED
      BY <3>1, <3>2, <3>3
  <2>3. QED
    BY <2>1, <2>2
<1>7. pc'[q] = "archives" => source'[q] = "release"
  <2>1. CASE FetchRelease(q)
    BY <2>1 DEF FetchRelease
  <2>2. CASE ~FetchRelease(q)
    BY <2>2
       DEF Step, ReadManifest, CheckBinary, Checked, CheckIdentity, TryNext, FetchArchives,
           ReadOciBundle, BuildFromSource, Deliver, Unavailable, WriteBinary, WriteManifest,
           Publish, Run, Finish, Crash, Go, TypeOK, Ended, ClaimInv, local
  <2>3. QED
    BY <2>1, <2>2
<1>8. QED
  BY <1>3, <1>4, <1>5, <1>6, <1>7 DEF ClaimInv
-----------------------------------------------------------------------------
LEMMA InitInv == Init => IInv
<1> SUFFICES ASSUME Init PROVE IInv
  OBVIOUS
<1>1. ManifestInv /\ ClaimInv
  BY DEF Init, ManifestInv, ClaimInv, Verifying
<1>2. ASSUME NEW p \in Processes PROVE ProcessInv(p)
  BY DEF Init, ProcessInv, HandInv, InstallInv, VerifyInv, IdleInv, Verifying
<1>3. QED
  BY <1>1, <1>2, TypeInit DEF IInv

LEMMA StepInv == IInv /\ [Next]_vars => IInv'
<1> SUFFICES ASSUME IInv, [Next]_vars PROVE IInv'
  OBVIOUS
<1>1. TypeOK'
  BY TypeStep DEF IInv, ProcessInv
<1>2. CASE UNCHANGED vars
  <2>1. UNCHANGED <<wanted, native, file, manifest, pc, source, at, payload, seen, ran,
                    tampered, claimed>>
    BY <1>2 DEF vars, config, cache, local
  <2>2. ClaimInv'
    BY <2>1 DEF IInv, ClaimInv, Vouched
  <2>3. QED
    BY <1>1, <2>1, <2>2 DEF IInv, ManifestInv, ProcessInv, HandInv, InstallInv, VerifyInv, IdleInv, Same
<1>3. ASSUME NEW q \in Processes, Step(q) \/ Crash(q) PROVE IInv'
  <2>1. ProcessInv(q)'
    BY <1>1, <1>3, ReadInv, CheckInv, IdentityInv, AcquireInv, WriteInv, PublishInv, UseInv
       DEF Step
  <2>2. ASSUME NEW p \in Processes, p # q PROVE ProcessInv(p)'
    BY <1>1, <1>3, <2>2, OthersStep, OthersInv DEF IInv
  <2>3. ManifestInv'
    <3>1. CASE WriteManifest(q)
      BY <1>1, <3>1, PublishInv
    <3>2. CASE ~WriteManifest(q)
      <4>1. manifest' = manifest
        BY <1>3, <3>2
           DEF Step, ReadManifest, CheckBinary, CheckIdentity, TryNext, FetchRelease,
               FetchArchives, ReadOciBundle, BuildFromSource, WriteBinary, Run, Finish,
               Crash, cache
      <4>2. QED
        BY <4>1 DEF IInv, ManifestInv
    <3>3. QED
      BY <3>1, <3>2
  <2>4. QED
    BY <1>1, <1>3, <2>1, <2>2, <2>3, ClaimStep DEF IInv
<1>4. QED
  BY <1>2, <1>3 DEF Next

LEMMA Invariance == Spec => []IInv
<1>1. QED
  BY InitInv, StepInv, PTL DEF Spec

\* The types of the cache and of what every invocation has in hand.
THEOREM TypeCorrect == Spec => []TypeOK
<1>1. IInv => TypeOK
  BY DEF IInv
<1>2. QED
  BY Invariance, <1>1, PTL

\* What is executed was verified, and the controller is of the configured commit,
\* for any number of invocations, crashes and sources, unless another one has
\* changed the cache meanwhile, or it is for a target and from a release or a
\* bundle that names the commit wrongly (_verify_cached, _ensure_tool).
THEOREM RunsVerifiedAlways == Spec => []RunsVerified
<1>1. IInv => RunsVerified
  BY DEF IInv, ProcessInv, VerifyInv, ClaimInv, Vouched, Verifying, RunsVerified
<1>2. QED
  BY Invariance, <1>1, PTL

\* The hashes a verification accepts are those of one bundle (the manifest an
\* installation writes last).
THEOREM OneBundleAlways == Spec => []OneBundleVerified
<1>1. IInv => OneBundleVerified
  BY DEF IInv, ProcessInv, HandInv, Verifying, OneBundleVerified
<1>2. QED
  BY Invariance, <1>1, PTL

\* No installation is refused for its hashes unless another invocation has
\* changed the cache since it began to write (install_controller_tool).
THEOREM InstallationStandsAlways == Spec => []InstallationStands
<1>1. IInv => InstallationStands
  BY DEF IInv, ProcessInv, InstallInv, InstallationStands
<1>2. QED
  BY Invariance, <1>1, PTL
-----------------------------------------------------------------------------
(* The builder.                                                               *)

\* What an invocation has on the disks at each step.
StagingInv ==
    \A i \in Invocations :
        /\ step[i] \in {"input", "clone", "unchanged", "ready"} => i \notin checkout
        /\ step[i] = "failed" /\ i \in checkout => i \in littered
        /\ step[i] = "mktemp" => i \in remote
        /\ i \in hostDir => step[i] \in {"rsync", "sweep"} \cup Script \/ i \in stranded
        /\ step[i] = "rsync" => i \in hostDir
        /\ step[i] \in Script => Stands(i)
        /\ step[i] \in {"input", "clone", "mktemp", "rsync"} \cup Script =>
              i \notin stranded \cup littered
        /\ step[i] \in {"sweep", "tidy"} => i \notin littered

Unvalidated == {"validate", "sweep", "tidy", "failed"}

\* An image that still has its tag when its own build succeeds has been validated.
TagInv ==
    /\ \A i \in Invocations :
          /\ step[i] \in {"sweep", "tidy"} /\ broke[i] = "no" =>
                image[plan[i]] # Nothing /\ (image[plan[i]] = i => i \in validated)
          /\ step[i] = "ready" => image[plan[i]] # Nothing
    /\ \A p \in Plans : image[p] # Nothing =>
          /\ plan[image[p]] = p
          /\ \/ step[image[p]] \in Unvalidated
             \/ step[image[p]] = "ready" /\ image[p] \in validated

\* The file of a plan is the invocation's own while it has been alone.
ChoiceInv ==
    /\ \A p \in Plans : chosen[p] # Nothing => plan[chosen[p]] = p
    /\ \A i \in Invocations : i \notin twins =>
          /\ step[i] = "select" => chosen[plan[i]] = Nothing
          /\ step[i] = "read" => chosen[plan[i]] = i
          /\ step[i] = "payload" => release[i] = i
          /\ broke[i] # "collision"
    /\ \A i, j \in Invocations :
          i # j /\ plan[i] = plan[j] /\ step[i] \in Script /\ step[j] \in Script => i \in twins

BuilderInv == BuilderTypeOK /\ StagingInv /\ TagInv /\ ChoiceInv

LEMMA BuilderInitInv == BuilderInit => BuilderInv
  BY BuilderAssumption
     DEF BuilderInit, BuilderInv, BuilderTypeOK, StagingInv, TagInv, ChoiceInv, Stands, Steps,
         Script, Causes, Unvalidated

\* The type invariant.
LEMMA BuilderTypeStep ==
  ASSUME BuilderInv, NEW i \in Invocations, Build(i)
  PROVE  BuilderTypeOK'
<1> USE DEF Script
<1>1. CASE PrepareInput(i)
  BY <1>1 DEF PrepareInput, BuilderInv, BuilderTypeOK, StagingInv, ChoiceInv, Steps,
     Causes, Pass, BreakTo, fixed, staging, shared
<1>2. CASE CheckCache(i)
  BY <1>2 DEF CheckCache, BuilderInv, BuilderTypeOK, StagingInv, ChoiceInv, Steps, Causes,
     Pass, fixed, staging, shared
<1>3. CASE Clone(i)
  BY <1>3 DEF Clone, BuilderInv, BuilderTypeOK, StagingInv, ChoiceInv, Steps, Causes,
     EnterScript, Pass, BreakTo, fixed, shared
<1>4. CASE MakeStaging(i)
  BY <1>4 DEF MakeStaging, BuilderInv, BuilderTypeOK, StagingInv, ChoiceInv, Steps,
     Causes, Pass, BreakTo, fixed, shared
<1>5. CASE Transfer(i)
  BY <1>5 DEF Transfer, BuilderInv, BuilderTypeOK, StagingInv, ChoiceInv, Steps, Causes,
     EnterScript, AfterScript, Pass, BreakTo, fixed, staging, shared
<1>6. CASE Sweep(i)
  BY <1>6 DEF Sweep, BuilderInv, BuilderTypeOK, StagingInv, ChoiceInv, Steps, Causes,
     Pass, BreakTo, fixed, shared
<1>7. CASE Tidy(i)
  BY <1>7 DEF Tidy, BuilderInv, BuilderTypeOK, StagingInv, ChoiceInv, Steps, Causes, Pass,
     BreakTo, fixed, shared
<1>8. CASE TruncateSelection(i)
  BY <1>8 DEF TruncateSelection, BuilderInv, BuilderTypeOK, StagingInv, ChoiceInv, Steps,
     Causes, Pass, fixed, staging
<1>9. CASE WriteSelection(i)
  BY <1>9 DEF WriteSelection, BuilderInv, BuilderTypeOK, StagingInv, ChoiceInv, Steps,
     Causes, Pass, fixed, staging
<1>10. CASE ReadSelection(i)
  BY <1>10 DEF ReadSelection, BuilderInv, BuilderTypeOK, StagingInv, ChoiceInv, Steps,
     Causes, AfterScript, Pass, BreakTo, fixed, staging, shared
<1>11. CASE PreparePayload(i)
  BY <1>11 DEF PreparePayload, BuilderInv, BuilderTypeOK, StagingInv, ChoiceInv, Steps,
     Causes, AfterScript, Pass, BreakTo, Stands, fixed, staging, shared
<1>12. CASE BuildOutput(i)
  BY <1>12 DEF BuildOutput, BuilderInv, BuilderTypeOK, StagingInv, ChoiceInv, Steps,
     Causes, Pass, fixed, staging
<1>13. CASE Validate(i)
  BY <1>13 DEF Validate, BuilderInv, BuilderTypeOK, StagingInv, ChoiceInv, Steps, Causes,
     AfterScript, Pass, BreakTo, fixed, staging
<1>14. CASE FailScript(i)
  BY <1>14 DEF FailScript, BuilderInv, BuilderTypeOK, StagingInv, ChoiceInv, Steps,
     Causes, AfterScript, BreakTo, fixed, staging, shared
<1>15. QED
  BY <1>1, <1>2, <1>3, <1>4, <1>5, <1>6, <1>7, <1>8, <1>9, <1>10, <1>11, <1>12, <1>13,
     <1>14 DEF Build

\* The disks.
LEMMA StagingStep ==
  ASSUME BuilderInv, NEW i \in Invocations, Build(i)
  PROVE  StagingInv'
<1> USE DEF Script
<1>1. CASE PrepareInput(i)
  BY <1>1 DEF PrepareInput, BuilderInv, BuilderTypeOK, StagingInv, Stands, Pass, BreakTo,
     fixed, staging, shared
<1>2. CASE CheckCache(i)
  BY <1>2 DEF CheckCache, BuilderInv, BuilderTypeOK, StagingInv, Stands, Pass, fixed,
     staging, shared
<1>3. CASE Clone(i)
  BY <1>3 DEF Clone, BuilderInv, BuilderTypeOK, StagingInv, Stands, EnterScript, Pass,
     BreakTo, fixed, shared
<1>4. CASE MakeStaging(i)
  BY <1>4 DEF MakeStaging, BuilderInv, BuilderTypeOK, StagingInv, Stands, Pass, BreakTo,
     fixed, shared
<1>5. CASE Transfer(i)
  BY <1>5 DEF Transfer, BuilderInv, BuilderTypeOK, StagingInv, Stands, EnterScript,
     AfterScript, Pass, BreakTo, fixed, staging, shared
<1>6. CASE Sweep(i)
  BY <1>6 DEF Sweep, BuilderInv, BuilderTypeOK, StagingInv, Stands, Pass, BreakTo, fixed,
     shared
<1>7. CASE Tidy(i)
  BY <1>7 DEF Tidy, BuilderInv, BuilderTypeOK, StagingInv, Stands, Pass, BreakTo, fixed,
     shared
<1>8. CASE TruncateSelection(i)
  BY <1>8 DEF TruncateSelection, BuilderInv, BuilderTypeOK, StagingInv, Stands, Pass,
     fixed, staging
<1>9. CASE WriteSelection(i)
  BY <1>9 DEF WriteSelection, BuilderInv, BuilderTypeOK, StagingInv, Stands, Pass, fixed,
     staging
<1>10. CASE ReadSelection(i)
  BY <1>10 DEF ReadSelection, BuilderInv, BuilderTypeOK, StagingInv, Stands, AfterScript,
     Pass, BreakTo, fixed, staging, shared
<1>11. CASE PreparePayload(i)
  BY <1>11 DEF PreparePayload, BuilderInv, BuilderTypeOK, StagingInv, Stands, AfterScript,
     Pass, BreakTo, fixed, staging, shared
<1>12. CASE BuildOutput(i)
  BY <1>12 DEF BuildOutput, BuilderInv, BuilderTypeOK, StagingInv, Stands, Pass, fixed,
     staging
<1>13. CASE Validate(i)
  BY <1>13 DEF Validate, BuilderInv, BuilderTypeOK, StagingInv, Stands, AfterScript, Pass,
     BreakTo, fixed, staging
<1>14. CASE FailScript(i)
  BY <1>14 DEF FailScript, BuilderInv, BuilderTypeOK, StagingInv, Stands, AfterScript,
     BreakTo, fixed, staging, shared
<1>15. QED
  BY <1>1, <1>2, <1>3, <1>4, <1>5, <1>6, <1>7, <1>8, <1>9, <1>10, <1>11, <1>12, <1>13,
     <1>14 DEF Build

\* The tags.
LEMMA TagStep ==
  ASSUME BuilderInv, NEW i \in Invocations, Build(i)
  PROVE  TagInv'
<1> USE DEF Script
<1>1. CASE PrepareInput(i)
  BY <1>1 DEF PrepareInput, BuilderInv, BuilderTypeOK, TagInv, Unvalidated, Pass, BreakTo,
     fixed, staging, shared
<1>2. CASE CheckCache(i)
  BY <1>2 DEF CheckCache, BuilderInv, BuilderTypeOK, TagInv, Unvalidated, Pass, fixed,
     staging, shared
<1>3. CASE Clone(i)
  BY <1>3 DEF Clone, BuilderInv, BuilderTypeOK, TagInv, Unvalidated, EnterScript, Pass,
     BreakTo, fixed, shared
<1>4. CASE MakeStaging(i)
  BY <1>4 DEF MakeStaging, BuilderInv, BuilderTypeOK, TagInv, Unvalidated, Pass, BreakTo,
     fixed, shared
<1>5. CASE Transfer(i)
  BY <1>5 DEF Transfer, BuilderInv, BuilderTypeOK, TagInv, Unvalidated, EnterScript,
     AfterScript, Pass, BreakTo, fixed, staging, shared
<1>6. CASE Sweep(i)
  BY <1>6 DEF Sweep, BuilderInv, BuilderTypeOK, TagInv, Unvalidated, Pass, BreakTo, fixed,
     shared
<1>7. CASE Tidy(i)
  BY <1>7 DEF Tidy, BuilderInv, BuilderTypeOK, TagInv, Unvalidated, Pass, BreakTo, fixed,
     shared
<1>8. CASE TruncateSelection(i)
  BY <1>8 DEF TruncateSelection, BuilderInv, BuilderTypeOK, TagInv, Unvalidated, Pass,
     fixed, staging
<1>9. CASE WriteSelection(i)
  BY <1>9 DEF WriteSelection, BuilderInv, BuilderTypeOK, TagInv, Unvalidated, Pass, fixed,
     staging
<1>10. CASE ReadSelection(i)
  BY <1>10 DEF ReadSelection, BuilderInv, BuilderTypeOK, TagInv, Unvalidated, AfterScript,
     Pass, BreakTo, fixed, staging, shared
<1>11. CASE PreparePayload(i)
  BY <1>11 DEF PreparePayload, BuilderInv, BuilderTypeOK, TagInv, Unvalidated,
     AfterScript, Pass, BreakTo, Stands, fixed, staging, shared
<1>12. CASE BuildOutput(i)
  BY <1>12, BuilderAssumption DEF BuildOutput, BuilderInv, BuilderTypeOK, TagInv,
     Unvalidated, Pass, fixed, staging
<1>13. CASE Validate(i)
  BY <1>13, BuilderAssumption DEF Validate, BuilderInv, BuilderTypeOK, TagInv,
     Unvalidated, AfterScript, Pass, BreakTo, fixed, staging
<1>14. CASE FailScript(i)
  BY <1>14 DEF FailScript, BuilderInv, BuilderTypeOK, TagInv, Unvalidated, AfterScript,
     BreakTo, fixed, staging, shared
<1>15. QED
  BY <1>1, <1>2, <1>3, <1>4, <1>5, <1>6, <1>7, <1>8, <1>9, <1>10, <1>11, <1>12, <1>13,
     <1>14 DEF Build

\* The selection files.
LEMMA ChoiceStep ==
  ASSUME BuilderInv, NEW i \in Invocations, Build(i)
  PROVE  ChoiceInv'
<1> USE DEF Script
<1>1. CASE PrepareInput(i)
  BY <1>1 DEF PrepareInput, BuilderInv, BuilderTypeOK, StagingInv, ChoiceInv, Pass,
     BreakTo, fixed, staging, shared
<1>2. CASE CheckCache(i)
  BY <1>2 DEF CheckCache, BuilderInv, BuilderTypeOK, StagingInv, ChoiceInv, Pass, fixed,
     staging, shared
<1>3. CASE Clone(i)
  BY <1>3 DEF Clone, BuilderInv, BuilderTypeOK, StagingInv, ChoiceInv, EnterScript, Pass,
     BreakTo, fixed, shared
<1>4. CASE MakeStaging(i)
  BY <1>4 DEF MakeStaging, BuilderInv, BuilderTypeOK, StagingInv, ChoiceInv, Pass,
     BreakTo, fixed, shared
<1>5. CASE Transfer(i)
  BY <1>5 DEF Transfer, BuilderInv, BuilderTypeOK, StagingInv, ChoiceInv, EnterScript,
     AfterScript, Pass, BreakTo, fixed, staging, shared
<1>6. CASE Sweep(i)
  BY <1>6 DEF Sweep, BuilderInv, BuilderTypeOK, StagingInv, ChoiceInv, Pass, BreakTo,
     fixed, shared
<1>7. CASE Tidy(i)
  BY <1>7 DEF Tidy, BuilderInv, BuilderTypeOK, StagingInv, ChoiceInv, Pass, BreakTo, fixed,
     shared
<1>8. CASE TruncateSelection(i)
  BY <1>8 DEF TruncateSelection, BuilderInv, BuilderTypeOK, StagingInv, ChoiceInv, Pass,
     fixed, staging
<1>9. CASE WriteSelection(i)
  BY <1>9 DEF WriteSelection, BuilderInv, BuilderTypeOK, StagingInv, ChoiceInv, Pass,
     fixed, staging
<1>10. CASE ReadSelection(i)
  BY <1>10, BuilderAssumption DEF ReadSelection, BuilderInv, BuilderTypeOK, StagingInv,
     ChoiceInv, AfterScript, Pass, BreakTo, fixed, staging, shared
<1>11. CASE PreparePayload(i)
  BY <1>11 DEF PreparePayload, BuilderInv, BuilderTypeOK, StagingInv, ChoiceInv,
     AfterScript, Pass, BreakTo, Stands, Complete, fixed, staging, shared
<1>12. CASE BuildOutput(i)
  BY <1>12 DEF BuildOutput, BuilderInv, BuilderTypeOK, StagingInv, ChoiceInv, Pass, fixed,
     staging
<1>13. CASE Validate(i)
  BY <1>13 DEF Validate, BuilderInv, BuilderTypeOK, StagingInv, ChoiceInv, AfterScript,
     Pass, BreakTo, fixed, staging
<1>14. CASE FailScript(i)
  BY <1>14 DEF FailScript, BuilderInv, BuilderTypeOK, StagingInv, ChoiceInv, AfterScript,
     BreakTo, fixed, staging, shared
<1>15. QED
  BY <1>1, <1>2, <1>3, <1>4, <1>5, <1>6, <1>7, <1>8, <1>9, <1>10, <1>11, <1>12, <1>13,
     <1>14 DEF Build

LEMMA BuilderStep == BuilderInv /\ [BuilderNext]_builderVars => BuilderInv'
<1>1. ASSUME BuilderInv, NEW i \in Invocations, Build(i) PROVE BuilderInv'
  BY <1>1, BuilderTypeStep, StagingStep, TagStep, ChoiceStep DEF BuilderInv
<1>2. ASSUME BuilderInv, UNCHANGED builderVars PROVE BuilderInv'
  BY <1>2 DEF builderVars, fixed, staging, shared, BuilderInv, BuilderTypeOK, StagingInv,
              TagInv, ChoiceInv, Stands
<1>3. QED  BY <1>1, <1>2 DEF BuilderNext

LEMMA BuilderInvariance == BuilderSpec => []BuilderInv
  BY BuilderInitInv, BuilderStep, PTL DEF BuilderSpec

\* ColdSnapBuilder: every state of the builds has its type.
THEOREM BuilderTypeCorrect == BuilderSpec => []BuilderTypeOK
<1>1. BuilderInv => BuilderTypeOK
  BY DEF BuilderInv
<1>2. QED  BY <1>1, BuilderInvariance, PTL

\* prepare_image returns the tag of an image that was validated, or of one whose
\* own build has not come further than its validation.
THEOREM ReturnedIsValidatedAlways == BuilderSpec => []ReturnedIsValidated
<1>1. BuilderInv => ReturnedIsValidated
  BY DEF BuilderInv, BuilderTypeOK, TagInv, Unvalidated, ReturnedIsValidated
<1>2. QED  BY <1>1, BuilderInvariance, PTL

\* _prepared_sources leaves nothing behind but where a removal failed or was
\* interrupted, its own or the one on the build host, or mktemp was.
THEOREM StagingRemovedAlways == BuilderSpec => []StagingRemoved
<1>1. BuilderInv => StagingRemoved
  BY DEF BuilderInv, StagingInv, Script, StagingRemoved
<1>2. QED  BY <1>1, BuilderInvariance, PTL

\* Only builds of one plan that run side by side disturb each other's selection.
THEOREM OnlyTwinsCollideAlways == BuilderSpec => []OnlyTwinsCollide
<1>1. BuilderInv => OnlyTwinsCollide
  BY DEF BuilderInv, ChoiceInv, OnlyTwinsCollide
<1>2. QED  BY <1>1, BuilderInvariance, PTL
=============================================================================
