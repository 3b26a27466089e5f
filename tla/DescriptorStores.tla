--------------------------- MODULE DescriptorStores ---------------------------
(***************************************************************************)
(* The descriptor stores of a manager as their readers see them: deletions,  *)
(* publications and scans walk the directories without a lock, so to them a  *)
(* promotion is a rename and then some unlinks, and a removal clears one      *)
(* directory and later the other.  Deletion changes the stores by these steps *)
(* alone, and ArtifactStore, which has every file operation of one store,     *)
(* implements them.                                                           *)
(***************************************************************************)
EXTENDS FiniteSets, Naturals

CONSTANTS
    Stores, Captures,
    StoreOf,   \* per capture: its store
    Keep       \* generations a store retains

ASSUME StoresAssumption == StoreOf \in [Captures -> Stores]

VARIABLES
    state,     \* per capture: where its descriptor is
    cleared    \* the stores that a removal has cleared; it goes on to unlink .lock

Directories == {"generations", "pending"}

StoresTypeOK ==
    /\ state \in [Captures -> {"none", "capturing", "gone"} \cup Directories]
    /\ cleared \subseteq Stores

Committed(c) == state[c] \in Directories

\* The committed descriptors of a directory.
In(s, directory) == {c \in Captures : StoreOf[c] = s /\ state[c] = directory}

\* A capture may be under way when one begins to look.
StoresInit ==
    /\ state \in [Captures -> {"none", "capturing"}]
    /\ cleared = {}

MoveDescriptor(c, from, to) ==
    /\ state[c] = from
    /\ state' = [state EXCEPT ![c] = to]
    /\ UNCHANGED cleared

\* The controller runs, and writes the committed descriptor to pending/.
Undertake(c) == MoveDescriptor(c, "none", "capturing")
Commit(c) == MoveDescriptor(c, "capturing", "pending")

\* promote_generation renames it, ...
Retain(c) == MoveDescriptor(c, "pending", "generations")

\* ... and unlinks generations beyond the limit.  When a removal has unlinked
\* .lock, two promotions may each count the generations of the other.
Discard(c) ==
    /\ MoveDescriptor(c, "generations", "gone")
    /\ \/ Cardinality(In(StoreOf[c], "generations")) > Keep
       \/ StoreOf[c] \in cleared

\* remove_artifact_store takes whatever is in a directory, generations/ first.
ClearDirectory(s, directory) ==
    /\ LET dropped == In(s, directory) IN
       state' = [c \in Captures |-> IF c \in dropped THEN "gone" ELSE state[c]]
    /\ cleared' = IF directory = "pending" THEN cleared \cup {s} ELSE cleared

StoresNext ==
    \/ \E c \in Captures : Undertake(c) \/ Commit(c) \/ Retain(c) \/ Discard(c)
    \/ \E s \in Stores, directory \in Directories : ClearDirectory(s, directory)

StoresSpec == StoresInit /\ [][StoresNext]_<<state, cleared>>
=============================================================================
