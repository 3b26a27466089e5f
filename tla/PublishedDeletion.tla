-------------------------- MODULE PublishedDeletion --------------------------
(***************************************************************************)
(* `coldsnap delete` with its three scopes, composed with Deletion, which is *)
(* the local one, and with publications.  A publication reads a descriptor,  *)
(* pushes what it names to the registry and to the model repository, writes  *)
(* a descriptor of its own, points the recipe's tag at it and promotes it.  A *)
(* deletion of the published scope takes what its plan lists from there      *)
(* before it goes to the hosts: capsules, payloads, the tag.  The registries *)
(* and the model repositories are external: a set of what is published where, *)
(* and each request to them is a step.                                       *)
(***************************************************************************)
EXTENDS Deletion

CONSTANTS
    Publications,   \* the captures of the model that are publications
    OriginOf        \* per publication: what it publishes, in whatever store

ASSUME PublicationAssumption ==
    /\ Publications \subseteq Captures
    /\ OriginOf \in [Publications -> Captures]
    /\ \A q \in Publications : IdOf[q] = IdOf[OriginOf[q]]
    /\ \A c \in Captures \ Publications : RemoteOf[c] = {}
    /\ None \notin Captures

VARIABLES
    registry,   \* what is published: pairs of a repository and an asset
    tag,        \* per store: the publication its recipe's tag names
    tagged,     \* the publications that have had their recipe's tag
    scope,      \* per deletion
    stage,      \* per deletion: how far it is with the registry
    listed,     \* per deletion: what it has yet to take from there
    adrift      \* history: what is published and lost its descriptor outside of a plan

remoteVars == <<registry, tag, tagged, scope, stage, listed, adrift>>
allVars == <<vars, remoteVars>>

Scopes == {"local", "published", "both"}
Stages == {"capsules", "tag"}
Places == Repositories \X Assets

PublishedTypeOK ==
    /\ TypeOK
    /\ registry \subseteq Places /\ adrift \subseteq Places
    /\ tagged \subseteq Publications
    /\ tag \in [Stores -> Publications \cup {None}]
    /\ \A s \in Stores : tag[s] # None => tag[s] \in tagged /\ StoreOf[tag[s]] = s
    /\ scope \in [Deleters -> Scopes]
    /\ stage \in [Deleters -> Stages \cup {"none"}]
    /\ \A d \in Deleters : stage[d] # "none" => phase[d] = "hosts" /\ scope[d] # "local"
    /\ listed \in [Deleters -> SUBSET Places]

PublishedInit ==
    /\ Init
    /\ registry = {} /\ adrift = {} /\ tagged = {}
    /\ tag = [s \in Stores |-> None]
    /\ scope = [d \in Deleters |-> "local"]
    /\ stage = [d \in Deleters |-> "none"]
    /\ listed = [d \in Deleters |-> {}]
-----------------------------------------------------------------------------
(* Captures and publications. *)

RunCapture(c) ==
    /\ c \notin Publications
    /\ StartCapture(c) \/ WriteDescriptor(c)
    /\ UNCHANGED remoteVars

\* It reads a committed descriptor and finds what that names on the hosts; the
\* controller pushes payloads, or capsules, which get a reference there, ...
StartPublication(q) ==
    /\ Committed(OriginOf[q]) /\ Held(OriginOf[q]) \subseteq held
    /\ StartCapture(q)
    /\ registry' = registry \cup RemoteOf[q]
    /\ UNCHANGED <<tag, tagged, scope, stage, listed, adrift>>

\* ... and writes the descriptor of what it has pushed, ...
WritePublication(q) ==
    /\ WriteDescriptor(q)
    /\ UNCHANGED remoteVars

\* ... which publish_oci_artifact pushes under the tag of the recipe.
PushDescriptor(q) ==
    /\ state[q] = "pending" /\ q \notin tagged
    /\ tag' = [tag EXCEPT ![StoreOf[q]] = q]
    /\ tagged' = tagged \cup {q}
    /\ UNCHANGED <<vars, registry, scope, stage, listed, adrift>>

\* promote_generation, of either; ...
PromoteAny(c) ==
    /\ c \in Publications => c \in tagged
    /\ Promote(c)
    /\ UNCHANGED remoteVars

\* ... a pruned generation may be a publication's.
PruneAny(c) ==
    /\ Prune(c)
    /\ adrift' = adrift \cup RemoteOf[c]
    /\ UNCHANGED <<registry, tag, tagged, scope, stage, listed>>
-----------------------------------------------------------------------------
(* The plan. *)

Render(d) ==
    /\ Begin(d) \/ TargetRecords(d) \/ RetainedReferences(d)
    /\ UNCHANGED remoteVars

\* Mutant: the plan has what other stores refer to.
ListedBlindly(d) == UNION {RemoteOf[c] : c \in records[d]}

\* A record that names a repository has its capsules and payloads there listed, but
\* for the digests a descriptor of another store refers to.
Listed(d) ==
    {x \in UNION {RemoteOf[c] : c \in records[d]} : DigestOf[x[2]] \notin retained[d]}

ListedImages(d) == {x \in listed[d] : x[2] \in Images}

\* The end of a deletion, as far as this module goes.
Leave(d) ==
    /\ scope' = [scope EXCEPT ![d] = "local"]
    /\ stage' = [stage EXCEPT ![d] = "none"]
    /\ listed' = [listed EXCEPT ![d] = {}]

\* The scope is given with the command, and decides nothing before this.
ConfirmAny(d) ==
    /\ Confirm(d)
    /\ \/ Leave(d)
       \/ /\ phase'[d] = "hosts"
          /\ \E s \in Scopes \ {"local"} : scope' = [scope EXCEPT ![d] = s]
          /\ stage' = [stage EXCEPT ![d] = "capsules"]
          /\ listed' = [listed EXCEPT ![d] = Listed(d)]
    /\ UNCHANGED <<registry, tag, tagged, adrift>>
-----------------------------------------------------------------------------
(* Execution: the registry first. *)

\* Mutant: a tag that the registry does not let go is passed over.
DeleteCapsuleTagsOrNot(d) ==
    /\ stage[d] = "capsules"
    /\ \E x \in ListedImages(d) :
          /\ registry' \in {registry, registry \ {x}}
          /\ listed' = [listed EXCEPT ![d] = @ \ {x}]
    /\ UNCHANGED <<vars, tag, tagged, scope, stage, adrift>>

\* delete_oci_tag resolves the tag of the capture's unit in that repository and deletes
\* the manifest, and so every tag of the digest there; one that is gone is no failure.
DeleteCapsuleTags(d) ==
    /\ stage[d] = "capsules"
    /\ \E x \in ListedImages(d) :
          /\ registry' = registry \ {x}
          /\ listed' = [listed EXCEPT ![d] = @ \ {x}]
    /\ UNCHANGED <<vars, tag, tagged, scope, stage, adrift>>

\* Then _delete_huggingface_payloads: one commit to each repository.
DeletePublishedPayloads(d) ==
    /\ stage[d] = "capsules" /\ ListedImages(d) = {}
    /\ \/ \E repository \in Repositories :
             LET commit == {x \in listed[d] : x[1] = repository} IN
             /\ commit # {}
             /\ registry' = registry \ commit
             /\ listed' = [listed EXCEPT ![d] = @ \ commit]
             /\ UNCHANGED stage
       \/ /\ listed[d] = {} /\ stage' = [stage EXCEPT ![d] = "tag"]
          /\ UNCHANGED <<registry, listed>>
    /\ UNCHANGED <<vars, tag, tagged, scope, adrift>>

\* The descriptor's tag.  The published scope ends there.
DeleteDescriptorTag(d) ==
    /\ stage[d] = "tag"
    /\ tag' = [tag EXCEPT ![target[d]] = None]
    /\ \/ /\ scope[d] = "both"
          /\ stage' = [stage EXCEPT ![d] = "none"] /\ UNCHANGED <<vars, scope, listed>>
       \/ /\ scope[d] = "published" /\ End(d) /\ Leave(d)
          /\ UNCHANGED <<captures, held, unbound, begun>>
    /\ UNCHANGED <<registry, tagged, adrift>>

DeleteLocally(d) ==
    /\ stage[d] = "none"
    /\ DeleteOnHost(d) \/ RemoveImages(d)
    /\ UNCHANGED remoteVars

\* A request to the registry may fail as any step may.
FailAny(d) ==
    /\ Fail(d) /\ (stage[d] # "none" => held' = held) /\ Leave(d)
    /\ UNCHANGED <<registry, tag, tagged, adrift>>

\* The store goes with its descriptors; the local scope knows of nothing that was
\* published.
RemoveStoreLast(d) ==
    /\ stage[d] = "none"
    /\ \/ ClearGenerations(d) /\ UNCHANGED <<scope, stage, listed>>
       \/ ClearPending(d) /\ Leave(d)
    /\ adrift' = adrift \cup UNION {
          {x \in RemoteOf[q] : ~(q \in seen[d] /\ scope[d] = "both" /\ x \in Listed(d))} :
             q \in {y \in Publications : Committed(y) /\ state'[y] = "gone"}}
    /\ UNCHANGED <<registry, tag, tagged>>

Delete(d) ==
    \/ Render(d) \/ ConfirmAny(d)
    \/ DeleteCapsuleTags(d) \/ DeletePublishedPayloads(d) \/ DeleteDescriptorTag(d)
    \/ DeleteLocally(d) \/ FailAny(d) \/ RemoveStoreLast(d)

PublishedNext ==
    \/ \E c \in Captures : RunCapture(c) \/ PromoteAny(c) \/ PruneAny(c)
    \/ \E q \in Publications : StartPublication(q) \/ WritePublication(q) \/ PushDescriptor(q)
    \/ \E d \in Deleters : Delete(d)

PublishedSpec == PublishedInit /\ [][PublishedNext]_allVars
-----------------------------------------------------------------------------
\* Whoever pulls a recipe's tag finds all of what its descriptor names, whatever
\* is deleted of other recipes, as long as the publication's own descriptor is in
\* its store: what is no longer there, was promoted while a deletion walked the
\* stores, or is the target of one itself, is not retained.
PullableIsWhole ==
    \A s \in Stores :
        tag[s] \in Publications \ unbound /\ Committed(tag[s]) =>
            RemoteOf[tag[s]] \subseteq registry

\* What is published can be deleted, also after a deletion that failed: there is
\* a descriptor or a publication under way that names it in its repository, but for
\* what was pruned, published after the plan was read, retained, dropped by a local
\* deletion, or named by descriptors only that gave way to another one of their
\* capture (one that was published to another repository).
PublishedIsListed ==
    \A x \in registry \ adrift : \E q \in Publications :
        (state[q] = "capturing" \/ Committed(q)) /\ x \in RemoteOf[q]
=============================================================================
