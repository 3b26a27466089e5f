----------------------------- MODULE MCToolCache -----------------------------
EXTENDS ToolCache, TLC

CONSTANTS p1, p2, c, d, c1, d1, x, y, z

MCProcesses == {p1, p2}

\* The bundles of commit c are a release and a build with another controller;
\* the adapter of the build is that of commit d.
MCCommits == {c, d}
MCContents == {c1, d1, x, y, z}
MCBundles == {<<c1, x>>, <<z, y>>, <<d1, y>>}
MCIdentity == c1 :> c @@ z :> c @@ d1 :> d @@ x :> None @@ y :> None

\* Both of one commit, or of two: that both are of d asks nothing that both of c,
\* with two bundles of its own, do not.
OneWantsC == \E p \in Processes : wanted[p] = c

\* A crash leaves what a process leaves that never goes on, so one that has begun
\* to write is enough; and what is executed is compared binary by binary.
CrashWhileInstalling ==
    \A p \in Processes : pc[p] = "dead" => payload[p] # None /\ at[p] = Last
OneBinaryRuns ==
    \A p \in Processes : \E n \in Binaries : \A m \in Binaries \ {n} : ran[p][m] = None

Bounded == OneWantsC /\ CrashWhileInstalling /\ OneBinaryRuns

ProcessSymmetry == Permutations(MCProcesses)
=============================================================================
