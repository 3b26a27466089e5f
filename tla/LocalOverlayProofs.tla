------------------------- MODULE LocalOverlayProofs -------------------------
(***************************************************************************)
(* Proofs about LocalOverlay for any number of readers, makers and source   *)
(* contents.  A digest stands for its maker, and a maker that has written   *)
(* no longer changes the source it promoted for: that ties every artifact   *)
(* and every record, on disk or read, to one source.                        *)
(***************************************************************************)
EXTENDS LocalOverlay, TLAPS

LEMMA TypeInit == Init => TypeOK
  BY OverlayAssumption DEF OverlayAssumption, Init, TypeOK, Procs

\* Every operation keeps the types.
LEMMA TypeStep == TypeOK /\ [Next]_vars => TypeOK'
<1> SUFFICES ASSUME TypeOK, [Next]_vars PROVE TypeOK'
  OBVIOUS
<1> USE DEF TypeOK, Goto, Choose, files, Selecting
<1>1. CASE UNCHANGED vars
  BY <1>1 DEF vars
<1>2. ASSUME NEW p \in Procs, Start(p) PROVE TypeOK'
  BY <1>2, OverlayAssumption DEF OverlayAssumption, Start
<1>3. ASSUME NEW p \in Procs, CheckExists(p) PROVE TypeOK'
  BY <1>3 DEF CheckExists, NotSelected
<1>4. ASSUME NEW p \in Procs, ReadRecord(p) PROVE TypeOK'
  BY <1>4 DEF ReadRecord
<1>5. ASSUME NEW p \in Procs, ReadArtifact(p) PROVE TypeOK'
  BY <1>5 DEF ReadArtifact, NotSelected
<1>6. ASSUME NEW p \in Procs, UseSelected(p) PROVE TypeOK'
  BY <1>6 DEF UseSelected
<1>7. ASSUME NEW p \in Makers, Capture(p) \/ Verify(p) \/ Recheck(p) PROVE TypeOK'
  BY <1>7 DEF Capture, Verify, Recheck, Procs
<1>8. ASSUME NEW p \in Makers, Promote(p) PROVE TypeOK'
  BY <1>8, OverlayAssumption DEF OverlayAssumption, Promote, Procs
<1>9. ASSUME NEW p \in Makers, WriteArtifact(p) \/ WriteRecord(p)
      PROVE  TypeOK'
  BY <1>9 DEF WriteArtifact, WriteRecord, Procs, Artifact, Record
<1>10. ASSUME NEW p \in Makers, Unlink(p) PROVE TypeOK'
  BY <1>10 DEF Unlink, Procs
<1>11. ASSUME NEW p \in Makers, Crash(p) PROVE TypeOK'
  BY <1>11 DEF Crash, Procs
<1>12. CASE ReplaceSource
  BY <1>12 DEF ReplaceSource
<1>13. QED
  BY <1>1, <1>2, <1>3, <1>4, <1>5, <1>6, <1>7, <1>8, <1>9, <1>10, <1>11, <1>12
     DEF Next, Step, MakerStep

\* TypeOK holds of LocalOverlay's pairs of files and of what every process has
\* read, for all constants.
THEOREM TypeCorrect == Spec => []TypeOK
<1>1. QED
  BY TypeInit, TypeStep, PTL DEF Spec
-----------------------------------------------------------------------------
\* After its last look at the source a maker keeps to it.
Settled == {"write_record", "local", "crashed"}

ArtifactInv ==
    artifact # None => /\ phase[artifact.maker] \in Settled
                       /\ artifact.source = mine[artifact.maker]

Bound(r) == /\ phase[r.digest] \in Settled
            /\ r.source = mine[r.digest]

RecordInv == record # None => Bound(record)
ReadInv == \A p \in Procs : rec[p] # None => Bound(rec[p])
ChosenInv == \A p \in Procs :
    phase[p] \in {"use", "reread"} => chosen[p].source = mine[p]

BindInv == TypeOK /\ ArtifactInv /\ RecordInv /\ ReadInv /\ ChosenInv

LEMMA BindInit == Init => BindInv
  BY TypeInit DEF Init, BindInv, ArtifactInv, RecordInv, ReadInv, ChosenInv

\* A settled process stays settled and keeps its source.
LEMMA SettledStays ==
    ASSUME TypeOK, [Next]_vars, NEW p \in Makers, phase[p] \in Settled
    PROVE  phase'[p] \in Settled /\ mine'[p] = mine[p]
<1> USE DEF TypeOK, Goto, Choose, files, Selecting, Settled, Procs
<1>1. CASE UNCHANGED vars
  BY <1>1 DEF vars
<1>2. ASSUME NEW q \in Procs, Step(q)
      PROVE  phase'[p] \in Settled /\ mine'[p] = mine[p]
  BY <1>2 DEF Step, Start, CheckExists, ReadRecord, ReadArtifact, UseSelected,
              NotSelected
<1>3. ASSUME NEW q \in Makers, MakerStep(q) \/ Crash(q)
      PROVE  phase'[p] \in Settled /\ mine'[p] = mine[p]
  BY <1>3 DEF MakerStep, Capture, Promote, Verify, Recheck, WriteArtifact,
              WriteRecord, Unlink, Crash
<1>4. CASE ReplaceSource
  BY <1>4 DEF ReplaceSource
<1>5. QED
  BY <1>1, <1>2, <1>3, <1>4 DEF Next

\* No operation breaks the tie between digests and sources.
LEMMA BindStep == BindInv /\ [Next]_vars => BindInv'
<1> SUFFICES ASSUME BindInv, [Next]_vars PROVE BindInv'
  OBVIOUS
<1>1. TypeOK /\ TypeOK'
  BY TypeStep DEF BindInv
<1>2. \A p \in Makers : phase[p] \in Settled =>
          phase'[p] \in Settled /\ mine'[p] = mine[p]
  BY <1>1, SettledStays
<1>3. \A r \in Record : Bound(r) => Bound(r)'
  BY <1>2 DEF Bound, Record
<1>4. artifact' = artifact \/ artifact' = None
        \/ \E p \in Makers : /\ artifact' = [maker |-> p, source |-> mine[p]]
                             /\ phase'[p] \in Settled /\ mine'[p] = mine[p]
  BY <1>1 DEF Next, vars, files, Step, Start, CheckExists, ReadRecord, ReadArtifact,
      UseSelected, MakerStep, Capture, Promote, Verify, Recheck, WriteArtifact,
      WriteRecord, Unlink, Crash, ReplaceSource, Goto, TypeOK, Settled, Procs
<1>5. ArtifactInv'
  BY <1>1, <1>2, <1>4 DEF BindInv, ArtifactInv, TypeOK, Artifact
<1>6. record' = record \/ record' = None
        \/ \E p \in Makers : /\ record' = [source |-> mine[p], digest |-> p]
                             /\ phase'[p] \in Settled /\ mine'[p] = mine[p]
  BY <1>1 DEF Next, vars, files, Step, Start, CheckExists, ReadRecord, ReadArtifact,
      UseSelected, MakerStep, Capture, Promote, Verify, Recheck, WriteArtifact,
      WriteRecord, Unlink, Crash, ReplaceSource, Goto, Choose, TypeOK, Settled, Procs
<1>7. RecordInv'
  BY <1>1, <1>3, <1>6 DEF BindInv, RecordInv, TypeOK, Bound
<1>8. \A p \in Procs : rec'[p] = rec[p] \/ rec'[p] = record
  BY <1>1 DEF Next, vars, files, Step, Start, CheckExists, ReadRecord, ReadArtifact,
      UseSelected, MakerStep, Capture, Promote, Verify, Recheck, WriteArtifact,
      WriteRecord, Unlink, Crash, ReplaceSource, TypeOK
<1>9. ReadInv'
  BY <1>1, <1>3, <1>8 DEF BindInv, ReadInv, RecordInv, TypeOK
<1>10. ChosenInv'
  <2> SUFFICES ASSUME NEW p \in Procs, phase'[p] \in {"use", "reread"}
               PROVE  chosen'[p].source = mine'[p]
    BY DEF ChosenInv
  <2>1. CASE ReadArtifact(p)
    <3>1. /\ artifact # None /\ Matches(p)
          /\ chosen'[p] = artifact /\ mine' = mine
      BY <1>1, <2>1 DEF ReadArtifact, NotSelected, Goto, Choose, TypeOK
    <3>2. phase[p] = "read_artifact" /\ rec[p] # None
      BY <1>1, <2>1 DEF ReadArtifact, TypeOK
    <3>3. artifact.source = rec[p].source
      BY <3>1, <3>2 DEF BindInv, ArtifactInv, ReadInv, Bound, Matches
    <3>4. QED
      BY <3>1, <3>3 DEF Matches
  <2>2. CASE ~ReadArtifact(p)
    <3>1. /\ phase[p] \in {"use", "reread"}
          /\ chosen'[p] = chosen[p] /\ mine'[p] = mine[p]
      BY <1>1, <2>2 DEF Next, vars, files, Step, Start, CheckExists, ReadRecord,
          ReadArtifact, UseSelected, MakerStep, Capture, Promote, Verify, Recheck,
          WriteArtifact, WriteRecord, Unlink, Crash, ReplaceSource, Goto, Choose,
          NotSelected, TypeOK, Procs
    <3>2. QED
      BY <3>1 DEF BindInv, ChosenInv
  <2>3. QED
    BY <2>1, <2>2
<1>11. QED
  BY <1>1, <1>5, <1>7, <1>9, <1>10 DEF BindInv

\* Digests carry the selection: what select_local_overlay and
\* select_local_materialization return was captured for the source they were
\* asked about, for any interleaving of promotions, unlinks and crashes.
THEOREM SelectedIsBoundAlways == Spec => []SelectedIsBound
<1>1. BindInv => SelectedIsBound
  BY DEF BindInv, ChosenInv, SelectedIsBound
<1>2. QED
  BY <1>1, BindInit, BindStep, PTL DEF Spec

\* Two files whose digests agree come from one promotion.
THEOREM PairIsWholeAlways == Spec => []PairIsWhole
<1>1. BindInv => PairIsWhole
  BY DEF BindInv, ArtifactInv, RecordInv, Bound, PairIsWhole
<1>2. QED
  BY <1>1, BindInit, BindStep, PTL DEF Spec
-----------------------------------------------------------------------------
\* Until something is unlinked, a file that was seen is still there.
SeenInv ==
    ~unlinked => \A p \in Procs :
        /\ phase[p] \in {"artifact", "read_record", "read_artifact", "use", "reread"}
              => record # None
        /\ phase[p] \in {"read_record", "read_artifact", "use", "reread"}
              => artifact # None
        /\ p \in Readers => phase[p] # "failed"

PresentInv == TypeOK /\ SeenInv

\* Files only come, until one is unlinked.
LEMMA SeenStep == PresentInv /\ [Next]_vars => PresentInv'
<1> SUFFICES ASSUME PresentInv, [Next]_vars PROVE PresentInv'
  OBVIOUS
<1>1. TypeOK /\ TypeOK'
  BY TypeStep DEF PresentInv
<1>2. SeenInv'
  <2> SUFFICES ASSUME ~unlinked' PROVE SeenInv'
    BY DEF SeenInv
  <2> USE OverlayAssumption, <1>1
      DEF OverlayAssumption, PresentInv, SeenInv, TypeOK, Goto, Choose, files, Procs
  <2>1. CASE UNCHANGED vars
    BY <2>1 DEF vars
  <2>2. ASSUME NEW p \in Procs, Start(p) \/ CheckExists(p) \/ ReadRecord(p)
        PROVE SeenInv'
    BY <2>2 DEF Start, CheckExists, ReadRecord, NotSelected
  <2>3. ASSUME NEW p \in Procs, ReadArtifact(p) PROVE SeenInv'
    BY <2>3 DEF ReadArtifact, NotSelected
  <2>4. ASSUME NEW p \in Procs, UseSelected(p) PROVE SeenInv'
    BY <2>4 DEF UseSelected
  <2>5. ASSUME NEW p \in Makers, Capture(p) \/ Promote(p) \/ Verify(p) \/ Recheck(p)
        PROVE SeenInv'
    BY <2>5 DEF Capture, Promote, Verify, Recheck
  <2>6. ASSUME NEW p \in Makers, WriteArtifact(p) PROVE SeenInv'
    BY <2>6 DEF WriteArtifact, Artifact
  <2>7. ASSUME NEW p \in Makers, WriteRecord(p) PROVE SeenInv'
    BY <2>7 DEF WriteRecord, Record
  <2>8. ASSUME NEW p \in Makers, Unlink(p) PROVE SeenInv'
    BY <2>8 DEF Unlink
  <2>9. ASSUME NEW p \in Makers, Crash(p) PROVE SeenInv'
    BY <2>9 DEF Crash
  <2>10. CASE ReplaceSource
    BY <2>10 DEF ReplaceSource
  <2>11. QED
    BY <2>1, <2>2, <2>3, <2>4, <2>5, <2>6, <2>7, <2>8, <2>9, <2>10
       DEF Next, Step, MakerStep
<1>3. QED
  BY <1>1, <1>2 DEF PresentInv

\* A run that fails has met an unlink: stale, torn and missing pairs do not
\* make it fail.
THEOREM OnlyUnlinkFailsAlways == Spec => []OnlyUnlinkFails
<1>1. Init => PresentInv
  BY TypeInit DEF Init, PresentInv, SeenInv
<1>2. PresentInv => OnlyUnlinkFails
  BY DEF PresentInv, SeenInv, OnlyUnlinkFails, Procs
<1>3. QED
  BY <1>1, <1>2, SeenStep, PTL DEF Spec
=============================================================================
