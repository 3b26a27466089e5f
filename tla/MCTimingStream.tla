--------------------------- MODULE MCTimingStream ---------------------------
EXTENDS TimingStream, TLC

CONSTANTS s1, s2, c1

MCSpans == {s1, s2}
MCShown == {s1}
MCClocks == {c1}
=============================================================================
