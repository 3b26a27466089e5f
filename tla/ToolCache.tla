------------------------------ MODULE ToolCache ------------------------------
(***************************************************************************)
(* The cached binaries of one version and platform: _ensure_tool and what  *)
(* it calls (tool.py).  The processes are invocations that share the cache *)
(* directory, each with the commit its configuration pins.  A process      *)
(* verifies what is cached; otherwise it acquires the binaries from the    *)
(* release, an OCI bundle or a source build, writes them one by one, then  *)
(* the manifest, and verifies that.  What _ensure_tool returns are paths,  *)
(* which the invocation executes later.  There is no lock.                 *)
(***************************************************************************)
EXTENDS Naturals

CONSTANTS
    Processes,
    Commits,
    Last,       \* the number of binaries; the first is the controller
    Contents,   \* what a binary may be
    Bundles,    \* what a source may deliver
    Identity,   \* per content: the commit a controller says it was built from
    MaxCrashes, \* bound on the crashes
    None        \* no content, no commit, no manifest

Binaries == 1..Last

ASSUME ToolAssumption ==
    /\ Last \in Nat \ {0}
    /\ Bundles \subseteq [Binaries -> Contents] /\ Bundles # {}
    /\ Identity \in [Contents -> Commits \cup {None}]
    /\ None \notin Contents \cup Commits \cup Bundles
    /\ None \notin [commit : Commits, sha256 : [Binaries -> Contents]]

VARIABLES
    wanted,     \* per process: the commit it is configured with
    native,     \* the processes that run the controller; the others are after
                \* the same binaries as data, for a target
    file,       \* per binary: what its path holds
    manifest,   \* manifest.json
    pc,
    source,     \* where the process has its binaries from
    at,         \* the binary it is about to check or to write
    payload,    \* the bundle it has acquired
    seen,       \* the hashes of the manifest it verifies
    ran,        \* per binary: what it has executed
    tampered,   \* history: others changed the cache since it began to verify
                \* or to write
    claimed,    \* history: the manifests with another commit than the controller's,
                \* which an installation from a release or an OCI bundle has written
    crashes     \* so far, up to MaxCrashes

config == <<wanted, native>>
cache == <<file, manifest>>
local == <<source, at, payload, seen, ran>>
vars == <<config, cache, pc, local, tampered, claimed, crashes>>

Manifests == [commit : Commits, sha256 : [Binaries -> Contents]]
Installers == {"release", "oci", "build"}
After == [cache |-> "release", release |-> "oci", oci |-> "build"]
Ended == {"done", "failed", "dead"}

TypeOK ==
    /\ wanted \in [Processes -> Commits] /\ native \subseteq Processes
    /\ file \in [Binaries -> Contents \cup {None}]
    /\ manifest \in Manifests \cup {None}
    /\ pc \in [Processes -> {"manifest", "binaries", "identity", "refused", "unidentified",
                             "unavailable", "acquire", "archives", "write", "publish",
                             "selected"} \cup Ended]
    /\ source \in [Processes -> {"cache"} \cup Installers]
    /\ at \in [Processes -> Binaries]
    /\ payload \in [Processes -> Bundles \cup {None}]
    /\ seen \in [Processes -> [Binaries -> Contents] \cup {None}]
    /\ ran \in [Processes -> [Binaries -> Contents \cup {None}]]
    /\ tampered \in [Processes -> BOOLEAN] /\ claimed \subseteq Manifests
    /\ crashes \in Nat

Init ==
    /\ wanted \in [Processes -> Commits] /\ native \in SUBSET Processes
    /\ file = [n \in Binaries |-> None] /\ manifest = None
    /\ pc = [p \in Processes |-> "manifest"]
    /\ source = [p \in Processes |-> "cache"]
    /\ at = [p \in Processes |-> 1]
    /\ payload = [p \in Processes |-> None] /\ seen = [p \in Processes |-> None]
    /\ ran = [p \in Processes |-> [n \in Binaries |-> None]]
    /\ tampered = [p \in Processes |-> FALSE] /\ claimed = {}
    /\ crashes = 0

Go(p, place) == pc' = [pc EXCEPT ![p] = place]
-----------------------------------------------------------------------------
(* _verify_cached *)

Accepted(p) == manifest # None /\ manifest.commit = wanted[p]

\* Both installations and users begin here; for a user it is the beginning.
ReadManifest(p) ==
    /\ pc[p] = "manifest"
    /\ tampered' = [tampered EXCEPT ![p] = @ /\ source[p] # "cache"]
    /\ at' = [at EXCEPT ![p] = 1]
    /\ \/ /\ Accepted(p)
          /\ seen' = [seen EXCEPT ![p] = manifest.sha256] /\ Go(p, "binaries")
       \/ ~Accepted(p) /\ Go(p, "refused") /\ UNCHANGED seen
    /\ UNCHANGED <<config, cache, source, payload, ran, claimed, crashes>>

Checked(p) == Go(p, IF p \in native THEN "identity" ELSE "selected")

\* Mutant: what the manifest lists is taken to be there.
CheckBinaryTrusting(p) ==
    /\ pc[p] = "binaries"
    /\ \/ file[at[p]] # None /\ at[p] < Last /\ at' = [at EXCEPT ![p] = @ + 1] /\ UNCHANGED pc
       \/ file[at[p]] # None /\ at[p] = Last /\ Checked(p) /\ UNCHANGED at
       \/ file[at[p]] = None /\ Go(p, "refused") /\ UNCHANGED at
    /\ UNCHANGED <<config, cache, source, payload, seen, ran, tampered, claimed, crashes>>

\* Each binary is read for its hash, as it is then.  All contents are those of
\* executables for the platform.
CheckBinary(p) ==
    /\ pc[p] = "binaries"
    /\ LET good == file[at[p]] = seen[p][at[p]]
       IN  \/ good /\ at[p] < Last /\ at' = [at EXCEPT ![p] = @ + 1] /\ UNCHANGED pc
           \/ good /\ at[p] = Last /\ Checked(p) /\ UNCHANGED at
           \/ ~good /\ Go(p, "refused") /\ UNCHANGED at
    /\ UNCHANGED <<config, cache, source, payload, seen, ran, tampered, claimed, crashes>>

\* The controller is executed, as it is then, and may also be too slow.
CheckIdentity(p) ==
    /\ pc[p] = "identity"
    /\ \/ Identity[file[1]] = wanted[p] /\ Go(p, "selected")
       \/ Go(p, "unidentified")
    /\ UNCHANGED <<config, cache, local, tampered, claimed, crashes>>
-----------------------------------------------------------------------------
(* install_controller_tool and its variants *)

\* _ensure_tool after an error of this module's own kind: the next source, if
\* there is one, with nothing of the attempt in hand.  Nothing is downloaded where
\* that is disabled.
TryNext(p) ==
    /\ pc[p] \in {"refused", "unidentified", "unavailable"}
    /\ \/ source[p] \in {"cache", "build"} /\ Go(p, "failed") /\ UNCHANGED source
       \/ /\ source[p] # "build" /\ Go(p, "acquire")
          /\ source' = [source EXCEPT ![p] = After[@]]
    /\ at' = [at EXCEPT ![p] = 1]
    /\ payload' = [payload EXCEPT ![p] = None] /\ seen' = [seen EXCEPT ![p] = None]
    /\ UNCHANGED <<config, cache, ran, tampered, claimed, crashes>>

Unavailable(p) == Go(p, "unavailable") /\ UNCHANGED <<at, payload, tampered>>

Deliver(p, bundles) ==
    /\ \E b \in bundles : payload' = [payload EXCEPT ![p] = b]
    /\ at' = [at EXCEPT ![p] = 1] /\ Go(p, "write")
    /\ tampered' = [tampered EXCEPT ![p] = FALSE]

\* The inventory of the release: every error is of the module's kind.
FetchRelease(p) ==
    /\ pc[p] = "acquire" /\ source[p] = "release"
    /\ \/ Unavailable(p)
       \/ Go(p, "archives") /\ UNCHANGED <<at, payload, tampered>>
    /\ UNCHANGED <<config, cache, source, seen, ran, claimed, crashes>>

\* Its archives, which are checked against its checksums but not for a commit.
\* The error of a download is the library's own and ends _ensure_tool.
FetchArchives(p) ==
    /\ pc[p] = "archives"
    /\ \/ Unavailable(p)
       \/ Go(p, "failed") /\ UNCHANGED <<at, payload, tampered>>
       \/ Deliver(p, Bundles)
    /\ UNCHANGED <<config, cache, source, seen, ran, claimed, crashes>>

OfCommit(commit) == {b \in Bundles : Identity[b[1]] = commit}

\* A bundle whose manifest names the commit; nothing else is asked for it.
ReadOciBundle(p) ==
    /\ pc[p] = "acquire" /\ source[p] = "oci"
    /\ Unavailable(p) \/ Deliver(p, Bundles)
    /\ UNCHANGED <<config, cache, source, seen, ran, claimed, crashes>>

\* Built in a container from a clone of the commit.
BuildFromSource(p) ==
    /\ pc[p] = "acquire" /\ source[p] = "build"
    /\ Unavailable(p) \/ Deliver(p, OfCommit(wanted[p]))
    /\ UNCHANGED <<config, cache, source, seen, ran, claimed, crashes>>

\* The others whom a change of the cache concerns.
Tamper(p, change) ==
    tampered' = [q \in Processes |->
        tampered[q] \/ (change /\ q # p /\ pc[q] \notin Ended)]

\* _atomic_write; a full disk is an error of another kind.
WriteBinary(p) ==
    /\ pc[p] = "write"
    /\ \/ Go(p, "failed") /\ UNCHANGED <<file, at, tampered>>
       \/ /\ file' = [file EXCEPT ![at[p]] = payload[p][at[p]]]
          /\ Tamper(p, file[at[p]] # payload[p][at[p]])
          /\ \/ at[p] < Last /\ at' = [at EXCEPT ![p] = @ + 1] /\ UNCHANGED pc
             \/ at[p] = Last /\ Go(p, "publish") /\ UNCHANGED at
    /\ UNCHANGED <<config, manifest, source, payload, seen, ran, claimed, crashes>>

Publish(p, next) ==
    /\ manifest' = next
    /\ claimed' = claimed \cup {m \in {next} :
                      source[p] # "build" /\ Identity[m.sha256[1]] # m.commit}
    /\ Tamper(p, manifest # next)
    /\ Go(p, "manifest")

\* Mutant: the hashes are those of what is in the cache.
WriteManifestOfCache(p) ==
    /\ pc[p] = "publish"
    /\ \/ Go(p, "failed") /\ UNCHANGED <<manifest, tampered, claimed>>
       \/ Publish(p, [commit |-> wanted[p], sha256 |-> file])
    /\ UNCHANGED <<config, file, local, crashes>>

\* Mutant: a manifest that is there is kept.
WriteManifestIfAbsent(p) ==
    /\ pc[p] = "publish"
    /\ \/ Go(p, "failed") /\ UNCHANGED <<manifest, tampered, claimed>>
       \/ Publish(p, IF manifest = None THEN [commit |-> wanted[p], sha256 |-> payload[p]]
                     ELSE manifest)
    /\ UNCHANGED <<config, file, local, crashes>>

\* The manifest comes last: the hashes of what was acquired, and the commit of
\* the configuration.
WriteManifest(p) ==
    /\ pc[p] = "publish"
    /\ \/ Go(p, "failed") /\ UNCHANGED <<manifest, tampered, claimed>>
       \/ Publish(p, [commit |-> wanted[p], sha256 |-> payload[p]])
    /\ UNCHANGED <<config, file, local, crashes>>
-----------------------------------------------------------------------------
\* The invocation executes or uploads a binary under the path it was given.
Run(p, n) ==
    /\ pc[p] = "selected" /\ ran[p][n] = None
    /\ ran' = [ran EXCEPT ![p][n] = file[n]]
    /\ UNCHANGED <<config, cache, pc, source, at, payload, seen, tampered, claimed,
                   crashes>>

Finish(p) ==
    /\ pc[p] = "selected" /\ Go(p, "done")
    /\ UNCHANGED <<config, cache, local, tampered, claimed, crashes>>

\* What was written so far stays, also under a temporary name nobody looks at.
Crash(p) ==
    /\ pc[p] \notin Ended /\ Go(p, "dead")
    /\ crashes < MaxCrashes /\ crashes' = crashes + 1
    /\ UNCHANGED <<config, cache, local, tampered, claimed>>

Step(p) ==
    \/ ReadManifest(p) \/ CheckBinary(p) \/ CheckIdentity(p) \/ TryNext(p)
    \/ FetchRelease(p) \/ FetchArchives(p) \/ ReadOciBundle(p) \/ BuildFromSource(p)
    \/ WriteBinary(p) \/ WriteManifest(p)
    \/ (\E n \in Binaries : Run(p, n)) \/ Finish(p)

Next == \E p \in Processes : Step(p) \/ Crash(p)

Spec == Init /\ [][Next]_vars
-----------------------------------------------------------------------------
\* What an invocation executes or uploads is what it verified, and its controller
\* was built from the configured commit, unless another one has put different
\* binaries, or another manifest, into the cache meanwhile.  Torn caches that a
\* crash has left are never taken.  The tools of a target are weaker: a manifest
\* that was written from a release or an OCI bundle repeats the configured commit
\* or the bundle's word, and _verify_cached (tool.py:366-374) does not ask the
\* controller.  Against tool.py:17-18 and README.md:350-352, only those of a
\* source build, or of a cache a build has filled, are sure to be of the commit.
RunsVerified ==
    \A p \in Processes : pc[p] \in {"selected", "done"} =>
        /\ ~tampered[p] => \A n \in Binaries : ran[p][n] \in {None, seen[p][n]}
        /\ \/ Identity[seen[p][1]] = wanted[p]
           \/ p \in native /\ tampered[p]
           \/ p \notin native /\ [commit |-> wanted[p], sha256 |-> seen[p]] \in claimed

\* Whatever other invocations do in between, the hashes that a verification
\* accepts are those of one bundle, never a mixture of two installations.
OneBundleVerified ==
    \A p \in Processes : pc[p] \in {"identity", "selected", "done"} => seen[p] \in Bundles

\* The hashes of an installation are refused only if another invocation has
\* changed the cache since it began to write: over whatever was cached, complete
\* or torn, of this commit or of another, an undisturbed installation stands.
InstallationStands ==
    \A p \in Processes : pc[p] = "refused" /\ source[p] # "cache" => tampered[p]
=============================================================================
