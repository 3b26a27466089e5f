------------------------------ MODULE MCDeletion ------------------------------
EXTENDS PublishedDeletion, TLC

CONSTANTS s1, s2, h1, h3, c1, q1, q2, q3, p, local, inA, inB, A, B, d1, d2

MCStores == {s1, s2}
MCHosts == {h1, h3}
MCCaptures == {c1, q1, q2, q3}
MCDeleters == {d1, d2}
MCPayloads == {p}
MCImages == {local, inA, inB}
MCRepositories == {A, B}

\* A capture is published under its own recipe, and that again: under its own recipe
\* with the payload to another repository, or under another recipe with the image there.
MCPublications == {q1, q2, q3}
MCOriginOf == [q \in MCPublications |-> IF q = q1 THEN c1 ELSE q1]
MCStoreOf == [c \in MCCaptures |-> IF c = q3 THEN s2 ELSE s1]
MCIdOf == [c \in MCCaptures |-> c1]
MCHostsOf == [c \in MCCaptures |-> IF c = c1 THEN {h1, h3} ELSE {h1}]
MCAssetsOf == [c \in MCCaptures |-> {p, CASE c = c1 -> local [] c = q3 -> inB [] OTHER -> inA}]
MCDigestOf == [x \in MCPayloads \cup MCImages |-> IF x = inB THEN inA ELSE x]
MCRemoteOf == [c \in MCCaptures |-> CASE c = c1 -> {}
                                      [] c = q1 -> {<<A, inA>>, <<A, p>>}
                                      [] c = q2 -> {<<A, inA>>, <<B, p>>}
                                      [] c = q3 -> {<<B, inB>>, <<A, p>>}]

\* h3 has left the cluster.
MCClusters == {{h1}}

\* Bounds: with two publications of a recipe there is one deletion, with two recipes
\* two; and once the second has begun, no capture or publication is under way.
OneDeletion == state[q2] # "none" => state[q3] = "none" /\ begun <= 1
TwoAfterCaptures == begun = 2 => \A c \in Captures : state[c] # "capturing"

Bounded == OneDeletion /\ TwoAfterCaptures

Symmetric == Permutations(MCDeleters)
=============================================================================
