------------------------------- MODULE Builder -------------------------------
(***************************************************************************)
(* ColdSnapBuilder.prepare_image: invocations that derive images on one      *)
(* build host.  What a plan's fingerprint covers (input image, architecture, *)
(* driver, pinned sources, policy) is the plan; its output tag, its provider *)
(* image and its directory under builds/ are named by it and shared by all   *)
(* invocations of the plan, without a lock.  Each invocation stages the      *)
(* sources in a directory of its own, whose path the shared directory holds  *)
(* while the build script runs.  Docker, git and rsync are outside src/:     *)
(* each command may fail, and Ctrl-C comes where it would: a failure stands for *)
(* both, the session guard ends a script with its caller.  An image is named by *)
(* the invocation that built it.                                             *)
(***************************************************************************)
EXTENDS Naturals

CONSTANTS
    Invocations,
    Plans,
    Nothing         \* no image, no directory

ASSUME BuilderAssumption == Nothing \notin Invocations

VARIABLES
    step,       \* where each invocation stands
    plan,       \* its plan
    remote,     \* the invocations that are not on the build host
    checkout,   \* the invocations whose temporary directory exists
    hostDir,    \* the invocations whose staging directory exists on the host
    chosen,     \* per plan: whose release directory nccl-selection.txt names
    release,    \* per invocation: the release directory it has read there
    image,      \* per plan: the image its output tag names
    fit,        \* the images that pass the validation
    validated,  \* the images that have passed it
    broke,      \* why an invocation fails
    stranded,   \* history: the invocations that left before or during the removal
                \* of their staging, and those whose removal failed and was logged
    littered,   \* history: those whose own temporary directory was not, or not
                \* wholly, removed
    twins       \* history: its script ran beside another one of its plan

staging == <<checkout, hostDir, stranded, littered>>
shared == <<chosen, image, fit, validated>>
fixed == <<plan, remote>>
builderVars == <<step, fixed, staging, shared, release, broke, twins>>

Script == {"truncate", "select", "read", "payload", "output", "validate"}
Steps == {"input", "clone", "mktemp", "rsync", "sweep", "tidy",
          "unchanged", "ready", "failed"} \cup Script
Causes == {"no", "error", "collision"}

BuilderTypeOK ==
    /\ step \in [Invocations -> Steps]
    /\ plan \in [Invocations -> Plans]
    /\ remote \subseteq Invocations /\ checkout \subseteq Invocations
    /\ hostDir \subseteq remote /\ stranded \subseteq Invocations
    /\ littered \subseteq Invocations
    /\ chosen \in [Plans -> Invocations \cup {Nothing}]
    /\ release \in [Invocations -> Invocations \cup {Nothing}]
    /\ \A i \in Invocations : release[i] # Nothing => plan[release[i]] = plan[i]
    /\ image \in [Plans -> Invocations \cup {Nothing}]
    /\ fit \subseteq Invocations /\ validated \subseteq fit
    /\ broke \in [Invocations -> Causes]
    /\ twins \subseteq Invocations

BuilderInit ==
    /\ step = [i \in Invocations |-> "input"]
    /\ plan \in [Invocations -> Plans]
    /\ remote \in SUBSET Invocations
    /\ checkout = {} /\ hostDir = {} /\ stranded = {} /\ littered = {}
    /\ chosen = [p \in Plans |-> Nothing]
    /\ release = [i \in Invocations |-> Nothing]
    /\ image = [p \in Plans |-> Nothing] /\ fit = {} /\ validated = {}
    /\ broke = [i \in Invocations |-> "no"]
    /\ twins = {}

\* The invocation goes from one step to another.
Pass(i, from, to) == step[i] = from /\ step' = [step EXCEPT ![i] = to]

\* It fails and leaves for a step that cleans up.
BreakTo(i, cause, to) ==
    /\ step' = [step EXCEPT ![i] = to]
    /\ broke' = [broke EXCEPT ![i] = cause]

\* Mutant: a failure is left to the temporary directory's own cleanup.
AfterScriptLocally(i) == "tidy"

\* What follows the script and the transfer: the finally clause on a remote host.
AfterScript(i) == IF i \in remote THEN "sweep" ELSE "tidy"
-----------------------------------------------------------------------------
(* prepare_image before the build. *)

\* The platform, the pinned input image, its label and drivers, the architecture:
\* an image that is enabled for the driver is returned as it is.
PrepareInput(i) ==
    /\ \/ Pass(i, "input", "unchanged") /\ UNCHANGED broke
       \/ step[i] = "input" /\ BreakTo(i, "error", "failed")
    /\ UNCHANGED <<fixed, staging, shared, release, twins>>

\* Else, without `rebuild`, an image under the output tag is returned.
CheckCache(i) ==
    /\ \/ image[plan[i]] # Nothing /\ Pass(i, "input", "ready")
       \/ Pass(i, "input", "clone")
    /\ UNCHANGED <<fixed, staging, shared, release, broke, twins>>
-----------------------------------------------------------------------------
(* _prepared_sources. *)

EnterScript(i) ==
    LET beside == {j \in Invocations \ {i} :
                     plan[j] = plan[i] /\ step[j] \in Script}
    IN twins' = twins \cup beside \cup {k \in {i} : beside # {}}

\* clone_pinned_source for each source: a commit that is not the pinned one fails.
Clone(i) ==
    /\ step[i] = "clone" /\ checkout' = checkout \cup {i}
    /\ \/ i \in remote /\ Pass(i, "clone", "mktemp") /\ UNCHANGED <<broke, twins>>
       \/ i \notin remote /\ Pass(i, "clone", "truncate") /\ EnterScript(i)
          /\ UNCHANGED broke
       \/ BreakTo(i, "error", "tidy") /\ UNCHANGED twins
    /\ UNCHANGED <<fixed, hostDir, stranded, littered, shared, release>>

\* mktemp on the host; one that fails, is interrupted or answers what is no such
\* path may have made the directory.
MakeStaging(i) ==
    /\ step[i] = "mktemp"
    /\ \/ hostDir' = hostDir \cup {i} /\ Pass(i, "mktemp", "rsync")
          /\ UNCHANGED <<broke, stranded>>
       \/ hostDir' \in {hostDir, hostDir \cup {i}} /\ stranded' = stranded \cup {i}
          /\ BreakTo(i, "error", "tidy")
    /\ UNCHANGED <<fixed, checkout, littered, shared, release, twins>>

Transfer(i) ==
    /\ step[i] = "rsync"
    /\ \/ Pass(i, "rsync", "truncate") /\ EnterScript(i) /\ UNCHANGED broke
       \/ BreakTo(i, "error", AfterScript(i)) /\ UNCHANGED twins
    /\ UNCHANGED <<fixed, staging, shared, release>>

\* The finally clause: a removal that fails is logged, Ctrl-C goes on.
Sweep(i) ==
    /\ \/ Pass(i, "sweep", "tidy") /\ hostDir' = hostDir \ {i}
          /\ UNCHANGED <<stranded, broke>>
       \/ step[i] = "sweep" /\ stranded' = stranded \cup {i}
          /\ BreakTo(i, broke[i], "tidy") /\ UNCHANGED hostDir
       \/ step[i] = "sweep" /\ stranded' = stranded \cup {i}
          /\ BreakTo(i, "error", "tidy") /\ UNCHANGED hostDir
    /\ UNCHANGED <<fixed, checkout, littered, shared, release, twins>>

\* The temporary directory is removed, then the result is looked at.  A removal that
\* fails or is interrupted is not tried again, and its error is the outcome.  The
\* script's own variables are gone.
Tidy(i) ==
    /\ \/ /\ Pass(i, "tidy", IF broke[i] = "no" THEN "ready" ELSE "failed")
          /\ checkout' = checkout \ {i} /\ UNCHANGED <<littered, broke>>
       \/ /\ step[i] = "tidy" /\ BreakTo(i, "error", "failed")
          /\ littered' = littered \cup {i} /\ UNCHANGED checkout
    /\ release' = [release EXCEPT ![i] = Nothing]
    /\ UNCHANGED <<fixed, hostDir, stranded, shared, twins>>
-----------------------------------------------------------------------------
(* The build script.  `set -e`: the first command that fails ends it.          *)

\* Mutant: a selection that is there is not made again.
TruncateIfAbsent(i) ==
    /\ Pass(i, "truncate", IF chosen[plan[i]] = Nothing THEN "select" ELSE "read")
    /\ UNCHANGED <<fixed, staging, shared, release, broke, twins>>

\* sync_source finds the staged sources and the input image tells its NCCL release.
\* The shell opens nccl-selection.txt for the selector.
TruncateSelection(i) ==
    /\ Pass(i, "truncate", "select")
    /\ chosen' = [chosen EXCEPT ![plan[i]] = Nothing]
    /\ UNCHANGED <<fixed, staging, image, fit, validated, release, broke, twins>>

\* The selector writes the release directory below its own sources; over what
\* another one has written, the lines may end up mixed.
WriteSelection(i) ==
    /\ Pass(i, "select", "read")
    /\ \/ chosen' = [chosen EXCEPT ![plan[i]] = i]
       \/ /\ chosen[plan[i]] # Nothing
          /\ chosen' = [chosen EXCEPT ![plan[i]] = Nothing]
    /\ UNCHANGED <<fixed, staging, image, fit, validated, release, broke, twins>>

\* Three lines, or the script ends.
ReadSelection(i) ==
    /\ step[i] = "read"
    /\ release' = [release EXCEPT ![i] = chosen[plan[i]]]
    /\ IF chosen[plan[i]] = Nothing
       THEN BreakTo(i, "collision", AfterScript(i))
       ELSE Pass(i, "read", "payload") /\ UNCHANGED broke
    /\ UNCHANGED <<fixed, staging, shared, twins>>

Stands(j) == IF j \in remote THEN j \in hostDir ELSE j \in checkout

\* A directory whose removal was begun may have lost what is looked for.
Complete(j) == Stands(j) /\ j \notin stranded \cup littered

\* The recipe and the source lock of the release directory, and a published payload,
\* one that was built before, or a build of one, which has it as a context.
PreparePayload(i) ==
    /\ step[i] = "payload"
    /\ \/ Stands(release[i]) /\ Pass(i, "payload", "output") /\ UNCHANGED broke
       \/ ~Complete(release[i]) /\ BreakTo(i, "collision", AfterScript(i))
    /\ UNCHANGED <<fixed, staging, shared, release, twins>>

\* The provider image unless there is one, then the output image with its tag.
BuildOutput(i) ==
    /\ Pass(i, "output", "validate")
    /\ image' = [image EXCEPT ![plan[i]] = i]
    /\ fit' \in {fit, fit \cup {i}}
    /\ UNCHANGED <<fixed, staging, chosen, validated, release, broke, twins>>

\* Mutant: the outcome of the validation is lost.
ValidateLoosely(i) ==
    /\ Pass(i, "validate", AfterScript(i))
    /\ validated' = validated \cup {j \in fit : j = image[plan[i]]}
    /\ UNCHANGED <<fixed, staging, chosen, image, fit, release, broke, twins>>

\* The runtime label and the plugin, of the image that has the tag by now.
Validate(i) ==
    /\ step[i] = "validate"
    /\ validated' = validated \cup {j \in fit : j = image[plan[i]]}
    /\ IF image[plan[i]] \in fit
       THEN Pass(i, "validate", AfterScript(i)) /\ UNCHANGED broke
       ELSE BreakTo(i, "error", AfterScript(i))
    /\ UNCHANGED <<fixed, staging, chosen, image, fit, release, twins>>

\* Any command of the script fails, its time is up, or Ctrl-C.
FailScript(i) ==
    /\ step[i] \in Script
    /\ BreakTo(i, "error", AfterScript(i))
    /\ UNCHANGED <<fixed, staging, shared, release, twins>>
-----------------------------------------------------------------------------
Build(i) ==
    \/ PrepareInput(i) \/ CheckCache(i)
    \/ Clone(i) \/ MakeStaging(i) \/ Transfer(i) \/ Sweep(i) \/ Tidy(i)
    \/ TruncateSelection(i) \/ WriteSelection(i)
    \/ ReadSelection(i) \/ PreparePayload(i)
    \/ BuildOutput(i) \/ Validate(i) \/ FailScript(i)

BuilderNext == \E i \in Invocations : Build(i)

BuilderSpec == BuilderInit /\ [][BuilderNext]_builderVars
-----------------------------------------------------------------------------
\* The image under a tag that was returned has passed the validation, by whomever,
\* unless its builder is between tagging and validating it, or failed there: the
\* tag is set first, and the cache does not look further.
ReturnedIsValidated ==
    \A i \in Invocations :
        step[i] = "ready" =>
            /\ image[plan[i]] # Nothing
            /\ \/ image[plan[i]] \in validated
               \/ step[image[plan[i]]] \in {"validate", "sweep", "tidy", "failed"}

\* An invocation that is over has left a checkout only where its own removal failed
\* or was interrupted (builder.py:832), and then it is none that returns an image;
\* and it has left one on the build host only for a failed removal, which is logged,
\* or for what interrupts mktemp or the removal.
StagingRemoved ==
    \A i \in Invocations :
        step[i] \in {"unchanged", "ready", "failed"} =>
            /\ i \in checkout => i \in littered /\ step[i] = "failed"
            /\ i \in hostDir => i \in stranded

\* A build fails for the selection file or for a release directory that is gone
\* only if another script of its plan ran beside it: what earlier builds left
\* behind does no harm.
OnlyTwinsCollide ==
    \A i \in Invocations : broke[i] = "collision" => i \in twins
=============================================================================
