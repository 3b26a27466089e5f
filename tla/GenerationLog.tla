---------------------------- MODULE GenerationLog ----------------------------
(***************************************************************************)
(* What the descriptor store promises to its readers: retained generations *)
(* in an order of age, and a current descriptor that only ever moves to    *)
(* the newest of them.  Nothing that current names is trimmed, and a       *)
(* generation is trimmed only while Keep newer ones are retained.          *)
(* The promise holds until the store's lock file has been unlinked.        *)
(***************************************************************************)
EXTENDS Naturals, FiniteSets

CONSTANTS Captures, Keep, NoCapture

VARIABLES
    kept,    \* the retained generations
    newer,   \* the pairs <<d, c>> of retained generations with d the newer
    cur,     \* the current descriptor
    lost     \* the store's lock file has been unlinked

vars == <<kept, newer, cur, lost>>

\* R puts the members of S in one line.
LinearOrder(R, S) ==
    /\ R \subseteq S \X S
    /\ \A c, d \in S : <<c, d>> \in R <=> c # d /\ <<d, c>> \notin R
    /\ \A c, d, e \in S : <<c, d>> \in R /\ <<d, e>> \in R => <<c, e>> \in R

\* The order of age among the members of S.
Among(S) == newer \cap (S \X S)

Init == kept = {} /\ newer = {} /\ cur = NoCapture /\ lost = FALSE

\* A capture joins the retained ones where its own age puts it.
Retain(c) ==
    /\ c \notin kept
    /\ kept' = kept \cup {c}
    /\ LinearOrder(newer', kept')
    /\ newer' \cap (kept \X kept) = newer
    /\ UNCHANGED cur

\* A retained generation that is not current becomes the newest.
Promote(c) ==
    /\ c # cur
    /\ newer' = Among(kept \ {c}) \cup ({c} \X (kept \ {c}))
    /\ UNCHANGED <<kept, cur>>

\* Only the newest generation becomes current.
Switch(c) ==
    /\ \A d \in kept \ {c} : <<c, d>> \in newer
    /\ cur' = c
    /\ UNCHANGED <<kept, newer>>

\* With Keep = 0 generations are only transient, and current.json outlives them.
Trim(c) ==
    /\ Cardinality({d \in kept : <<d, c>> \in newer}) >= Keep
    /\ c # cur \/ Keep = 0
    /\ kept' = kept \ {c}
    /\ newer' = Among(kept \ {c})
    /\ UNCHANGED cur

\* Removing the store: the current descriptor goes before what it names.
Forget == cur' = NoCapture /\ UNCHANGED <<kept, newer>>
Clear == cur = NoCapture /\ kept' = {} /\ newer' = {} /\ UNCHANGED cur

Lose == ~lost /\ lost' /\ UNCHANGED <<kept, newer, cur>>

Keeping ==
    \/ \E c \in Captures : Retain(c)
    \/ \E c \in kept : Promote(c) \/ Switch(c) \/ Trim(c)
    \/ Forget \/ Clear

Next == (~lost /\ ~lost' /\ Keeping) \/ Lose \/ (lost /\ lost')

Spec == Init /\ [][Next]_vars
=============================================================================
