-------------------------- MODULE MCCaptureOperation --------------------------
EXTENDS CaptureOperation, TLC

\* Units are interchangeable.
UnitSymmetry == Permutations(Units)
=============================================================================
