---------------------------- MODULE LocalOverlay ----------------------------
(***************************************************************************)
(* The target-local asset of one target key: an artifact file and the       *)
(* record that binds it to its portable source (local_overlays.py), and the *)
(* operations that use them without a lock.  `run` selects the pair and then *)
(* reads the artifact (describe_restore); `materialize` selects it, or       *)
(* captures a new one and promotes it (materialize_local_overlay for vLLM,   *)
(* materialize_sglang for SGLang).  Every file operation is a step; a file   *)
(* is replaced atomically, a pair is not.                                    *)
(***************************************************************************)
EXTENDS Naturals

CONSTANTS
    Readers, Makers,   \* processes that run and processes that materialize
    Sources,           \* contents of the portable artifact
    None

\* A captured artifact; its maker stands for the digest.  It is composed with
\* the weights of the source it was captured for (_retain_portable_weights).
Artifact == [maker : Makers, source : Sources]

\* A record: the identity of the source, the digest of the artifact.
Record == [source : Sources, digest : Makers]

ASSUME OverlayAssumption ==
    /\ Readers \cap Makers = {}
    /\ None \notin Sources \cup Artifact \cup Record

VARIABLES
    engine,     \* the recipe's engine, "vllm" or "sglang"
    source,     \* the portable artifact at its path
    artifact,   \* overlays/<key>/artifact.json
    record,     \* overlays/<key>/overlay.json
    phase, mine, rec, chosen,   \* per process, see TypeOK
    unlinked    \* history: a file of the pair was unlinked

files == <<source, artifact, record>>
vars == <<engine, files, phase, mine, rec, chosen, unlinked>>

Procs == Readers \cup Makers

Selecting == {"record", "artifact", "read_record", "read_artifact"}

TypeOK ==
    /\ engine \in {"vllm", "sglang"}
    /\ source \in Sources
    /\ artifact \in Artifact \cup {None}
    /\ record \in Record \cup {None}
    /\ phase \in [Procs -> Selecting \cup
          {"start", "use", "reread", "capture", "promote", "verify", "recheck",
           "write_artifact", "write_record", "unlink_artifact",
           "unlink_record", "local", "portable", "failed", "crashed"}]
    /\ mine \in [Procs -> Sources \cup {None}]    \* the source it has read
    /\ rec \in [Procs -> Record \cup {None}]      \* the record it has read
    /\ chosen \in [Procs -> Artifact \cup {None}]  \* the artifact it goes on with
    /\ \A p \in Procs :
          /\ phase[p] # "start" => mine[p] # None
          /\ phase[p] \in {"read_artifact", "use", "reread"} => rec[p] # None
    /\ unlinked \in BOOLEAN

Init ==
    /\ engine \in {"vllm", "sglang"} /\ source \in Sources
    /\ artifact = None /\ record = None
    /\ phase = [p \in Procs |-> "start"]
    /\ mine = [p \in Procs |-> None] /\ rec = [p \in Procs |-> None]
    /\ chosen = [p \in Procs |-> None]
    /\ unlinked = FALSE

Goto(p, from, to) == phase[p] = from /\ phase' = [phase EXCEPT ![p] = to]

Choose(p, from, to, what) ==
    /\ Goto(p, from, to)
    /\ chosen' = [chosen EXCEPT ![p] = what]
-----------------------------------------------------------------------------
(* select_local_overlay, select_local_materialization. *)

Start(p) ==
    /\ Goto(p, "start", "record")
    /\ mine' = [mine EXCEPT ![p] = source]
    /\ UNCHANGED <<engine, files, rec, chosen, unlinked>>

\* Nothing usable: run restores the portable artifact, materialize captures.
NotSelected(p, from) ==
    Goto(p, from, IF p \in Readers THEN "portable" ELSE "capture")

\* Mutant: only the artifact has to exist.
CheckArtifactOnly(p) ==
    /\ \/ Goto(p, "record", "artifact")
       \/ IF artifact # None THEN Goto(p, "artifact", "read_record")
                             ELSE NotSelected(p, "artifact")
    /\ UNCHANGED <<engine, files, mine, rec, chosen, unlinked>>

\* exists(), the record first.
CheckExists(p) ==
    /\ \/ IF record # None THEN Goto(p, "record", "artifact")
                           ELSE NotSelected(p, "record")
       \/ IF artifact # None THEN Goto(p, "artifact", "read_record")
                             ELSE NotSelected(p, "artifact")
    /\ UNCHANGED <<engine, files, mine, rec, chosen, unlinked>>

\* A file that is gone by now raises FileNotFoundError, which no caller turns
\* into "not selected".
ReadRecord(p) ==
    /\ Goto(p, "read_record", IF record = None THEN "failed" ELSE "read_artifact")
    /\ rec' = [rec EXCEPT ![p] = record]
    /\ UNCHANGED <<engine, files, mine, chosen, unlinked>>

\* Mutant: the artifact's digest is not compared.
MatchesAnyDigest(p) == rec[p].source = mine[p]

\* The record names the source and the digest of the artifact read.
Matches(p) ==
    /\ rec[p].source = mine[p]
    /\ rec[p].digest = artifact.maker

ReadArtifact(p) ==
    /\ phase[p] = "read_artifact"
    /\ IF artifact = None
       THEN Goto(p, "read_artifact", "failed") /\ UNCHANGED chosen
       ELSE IF ~Matches(p) THEN NotSelected(p, "read_artifact") /\ UNCHANGED chosen
       ELSE Choose(p, "read_artifact",
                   IF p \in Readers THEN "use"
                   ELSE IF engine = "vllm" THEN "reread" ELSE "local",
                   artifact)
    /\ UNCHANGED <<engine, files, mine, rec, unlinked>>

\* describe_restore reads the selected path, materialize_local_overlay the
\* record once more.
UseSelected(p) ==
    /\ \/ IF artifact = None
          THEN Goto(p, "use", "failed") /\ UNCHANGED chosen
          ELSE Choose(p, "use", "local", artifact)
       \/ /\ Goto(p, "reread", IF record = None THEN "failed" ELSE "local")
          /\ UNCHANGED chosen
    /\ UNCHANGED <<engine, files, mine, rec, unlinked>>
-----------------------------------------------------------------------------
(* Capture and promotion. *)

\* execute_explicit wrote a private output file, or failed.
Capture(p) ==
    /\ Goto(p, "capture", "promote") \/ Goto(p, "capture", "failed")
    /\ UNCHANGED <<engine, files, mine, rec, chosen, unlinked>>

\* Both promotions read the source again.  Residuals that do not differ from
\* the portable ones are not stored.
Promote(p) ==
    /\ mine' = [mine EXCEPT ![p] = source]
    /\ \/ engine = "vllm" /\ Goto(p, "promote", "write_artifact")
       \/ engine = "vllm" /\ Goto(p, "promote", "unlink_artifact")
       \/ engine = "sglang" /\ Goto(p, "promote", "verify")
    /\ UNCHANGED <<engine, files, rec, chosen, unlinked>>

\* verify(captured_path): a restore of the capture, minutes long.
Verify(p) ==
    /\ Goto(p, "verify", "recheck") \/ Goto(p, "verify", "failed")
    /\ UNCHANGED <<engine, files, mine, rec, chosen, unlinked>>

\* "Do not promote against a concurrently replaced source."
Recheck(p) ==
    /\ Goto(p, "recheck", IF source = mine[p] THEN "write_artifact" ELSE "failed")
    /\ UNCHANGED <<engine, files, mine, rec, chosen, unlinked>>

WriteArtifact(p) ==
    /\ Goto(p, "write_artifact", "write_record")
    /\ artifact' = [maker |-> p, source |-> mine[p]]
    /\ UNCHANGED <<engine, source, record, mine, rec, chosen, unlinked>>

\* Mutant: the record is made for the source as it is now.
WriteRecordForCurrent(p) ==
    /\ Choose(p, "write_record", "local", [maker |-> p, source |-> mine[p]])
    /\ record' = [source |-> source, digest |-> p]
    /\ UNCHANGED <<engine, source, artifact, mine, rec, unlinked>>

WriteRecord(p) ==
    /\ Choose(p, "write_record", "local", [maker |-> p, source |-> mine[p]])
    /\ record' = [source |-> mine[p], digest |-> p]
    /\ UNCHANGED <<engine, source, artifact, mine, rec, unlinked>>

Unlink(p) ==
    /\ \/ /\ Goto(p, "unlink_artifact", "unlink_record")
          /\ unlinked' = (unlinked \/ artifact # None)
          /\ artifact' = None /\ UNCHANGED record
       \/ /\ Goto(p, "unlink_record", "portable")
          /\ unlinked' = (unlinked \/ record # None)
          /\ record' = None /\ UNCHANGED artifact
    /\ UNCHANGED <<engine, source, mine, rec, chosen>>

\* A materializing process is killed between two of its steps.
Crash(p) ==
    /\ phase[p] \notin {"start", "local", "portable", "failed", "crashed"}
    /\ phase' = [phase EXCEPT ![p] = "crashed"]
    /\ UNCHANGED <<engine, files, mine, rec, chosen, unlinked>>

\* A capture makes another portable artifact current, or a user replaces the
\* file named by --artifact.
ReplaceSource ==
    /\ \E s \in Sources \ {source} : source' = s
    /\ UNCHANGED <<engine, artifact, record, phase, mine, rec, chosen, unlinked>>

Step(p) ==
    \/ Start(p) \/ CheckExists(p) \/ ReadRecord(p) \/ ReadArtifact(p)
    \/ UseSelected(p)

MakerStep(p) ==
    \/ Capture(p) \/ Promote(p) \/ Verify(p) \/ Recheck(p)
    \/ WriteArtifact(p) \/ WriteRecord(p) \/ Unlink(p)

Next ==
    \/ \E p \in Procs : Step(p)
    \/ \E p \in Makers : MakerStep(p) \/ Crash(p)
    \/ ReplaceSource

Spec == Init /\ [][Next]_vars
-----------------------------------------------------------------------------
\* What a selection returns was captured for the very source the selecting
\* process read, whatever promotions interleave or crash: a pair of files of
\* two promotions never passes for one.
SelectedIsBound ==
    \A p \in Procs :
        phase[p] \in {"use", "reread"} => chosen[p].source = mine[p]

\* A pair whose digest matches is the pair of one promotion.
PairIsWhole ==
    artifact # None /\ record # None /\ record.digest = artifact.maker =>
        record.source = artifact.source

\* Without an unlink of the pair, a run ends with an artifact: stale, torn and
\* missing pairs all lead to the portable one.
OnlyUnlinkFails ==
    \A p \in Readers : phase[p] = "failed" => unlinked

\* "A stale/corrupt entry must never make the portable artifact unavailable."
PortableStaysAvailable == \A p \in Readers : phase[p] # "failed"
=============================================================================
