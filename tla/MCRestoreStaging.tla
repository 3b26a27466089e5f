---------------------------- MODULE MCRestoreStaging ----------------------------
EXTENDS RestoreStaging, TLC

CONSTANTS w1, w2, w3, x, y, z

MCWorkers == {w1, w2}
MCOwners == {w1, w2, w3}
MCDigests == {x, y, z}

\* Two captures, one of them published, that have a payload in common but for
\* different workers; a capture of one worker and one of three; one without
\* native replay.
MCDescriptors == {"published", "newer", "narrow", "wide", "plain"}
MCPayloads ==
    "published" :> (w1 :> x @@ w2 :> y @@ w3 :> None)
    @@ "newer"  :> (w1 :> y @@ w2 :> z @@ w3 :> None)
    @@ "narrow" :> (w1 :> x @@ w2 :> None @@ w3 :> None)
    @@ "wide"   :> (w1 :> x @@ w2 :> y @@ w3 :> z)
    @@ "plain"  :> (w1 :> x @@ w2 :> y @@ w3 :> None)
MCNative == MCDescriptors \ {"plain"}
MCPublished == MCDescriptors \ {"newer"}
MCInPlace ==
    [d \in MCDescriptors |-> IF d \in {"newer", "narrow"} THEN {w1} ELSE MCOwners]
=============================================================================
