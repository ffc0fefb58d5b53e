----------------------------- MODULE RunPipeline -----------------------------
(***************************************************************************)
(* One Sergent Run from start to its result: the async front (process      *)
(* input, Intent, ExecutionPlan), the synchronous tail (validation, Patch, *)
(* dry-run, commit), the Run Record built on the way, the shared progress  *)
(* snapshot, and the close that seals them into a result.                  *)
(*                                                                         *)
(* Beside it run the host, which may request cancellation at any moment,   *)
(* and other writers of a shared live Scene.  Each application callback    *)
(* may fail, and anything that runs foreign code (a callback, an observer, *)
(* a provider client) may panic, which escapes and ends the task.          *)
(*                                                                         *)
(* What a commit checks under the lock is SceneState's subject; here it is *)
(* one step, which SceneState justifies.  How a parked await learns of the *)
(* cancellation is CancelToken's; here every poll looks at the token.      *)
(***************************************************************************)
EXTENDS Naturals, Sequences

CONSTANTS
    MaxRevision,  \* the largest revision: u64::MAX in the code
    Nothing       \* a value that is not there yet

ASSUME RevisionAssumption == MaxRevision \in Nat

VARIABLES
    config,     \* what Sergent::new captured, and the Scene source of this Run
    pc,         \* the point the Run has reached
    progress,   \* the shared ProgressSnapshot, as the handle sees it
    live,       \* the Scene the source holds: a shared authority's, or a plain one
    base,       \* RunScene: the captured Scene
    steps,      \* the closed Step Records
    open,       \* the Step Record that is open, or Nothing
    after,      \* SceneFacts.revision_after
    ending,     \* the terminal facts handed to finish, or Nothing
    requested,  \* Nothing, or the point at which cancellation was requested
    invoked     \* the steps whose provider future was polled

vars == <<config, pc, progress, live, base, steps, open, after, ending, requested, invoked>>
record == <<steps, open, after>>
world  == <<config, live, requested>>

StageOrder == <<"queued", "started", "intent_call", "intent", "plan_call",
                "execution_plan", "patch", "dry_run", "commit">>
Stages     == {StageOrder[i] : i \in DOMAIN StageOrder}
StepOrder  == <<"process_input", "intent", "execution_plan", "patch", "commit">>
StepNames  == {StepOrder[i] : i \in DOMAIN StepOrder}

Terminal    == {"success", "failure", "cancelled"}
Checkpoints == {"before_intent", "after_intent_validation", "task_cancelled",
                "before_dry_run", "before_commit"}

\* How far a model call's evidence got.
CallEvidence == {"none", "request", "failed", "rejected", "accepted"}

Config == [passthrough: BOOLEAN, registry: BOOLEAN,
           source: {"plain", "live"}, rebases: BOOLEAN]

\* A Scene is its revision and whether it holds this Run's Patch.
Scene  == [revision: 0..MaxRevision, patched: BOOLEAN]
Step   == [name: StepNames, status: Terminal, call: CallEvidence]
Open   == [name: StepNames, call: {"none", "accepted"}]
Ending == [outcome: Terminal, stage: Stages, scene: Scene,
           checkpoint: Checkpoints \cup {Nothing}]

\* The points of a Run, in order, by the checkpoint that ends each stretch.
ToBeforeIntent == {"queued", "capture", "bind", "started", "select", "before_intent"}
IntentPoints   == {"intent", "derive_intent", "validate_intent", "after_intent"}
CallPoints     == {"messages", "poll_token", "poll_provider", "cross", "announce"}
ToBeforeDryRun == {"flow", "plan", "derive_plan", "check_plan", "patch",
                   "prepare_patch", "dry_run", "before_dry_run"}
ToBeforeCommit == {"rehearse", "commit", "before_commit"}
ClosingPoints  == {"record", "last_progress", "result"}
Running        == ToBeforeIntent \cup IntentPoints \cup CallPoints \cup ToBeforeDryRun
                    \cup ToBeforeCommit \cup {"commit_scene"} \cup ClosingPoints
Finished       == {"done", "panicked"}

ASSUME NothingAssumption ==
    Nothing \notin Nat \cup Running \cup Checkpoints \cup Open \cup Ending

-----------------------------------------------------------------------------
(* Steps, progress and endings *)

At(point) == pc = point
Goto(point) == pc' = point

Emit(stage, status) ==
    progress' = [progress EXCEPT !.stage = stage, !.status = status]

Opens(name) == open' = [name |-> name, call |-> "none"] /\ UNCHANGED <<steps, after>>

\* OpenStep::close pushes the record; nothing is open until the next step.
ClosesWith(status, call) ==
    /\ steps' = Append(steps, [name |-> open.name, status |-> status, call |-> call])
    /\ open' = Nothing

Closes(status) == ClosesWith(status, open.call)

\* The terminal facts, which finish and finish_cancelled take.
Ends(outcome, stage, scene, checkpoint) ==
    /\ ending' = [outcome |-> outcome, stage |-> stage, scene |-> scene,
                  checkpoint |-> checkpoint]
    /\ Goto("record")

\* A stage fails: its step closes as failed, the captured Scene is returned.
FailsWith(call, stage) ==
    /\ ClosesWith("failure", call)
    /\ Ends("failure", stage, base, Nothing)
    /\ UNCHANGED <<world, progress, base, after, invoked>>

Fails(stage) == FailsWith(open.call, stage)

Tripped == requested # Nothing

\* A checkpoint between two points: nothing happens, or the Run is cancelled.
Passes(next) == ~Tripped /\ Goto(next) /\ UNCHANGED <<world, progress, base, record, ending, invoked>>

Cancels(stage, checkpoint) ==
    /\ Tripped
    /\ Closes("cancelled")
    /\ Ends("cancelled", stage, base, checkpoint)
    /\ UNCHANGED <<world, progress, base, after, invoked>>

\* A callback that succeeded and changed nothing a later step does not hold.
Continues(next) == Goto(next) /\ UNCHANGED <<world, progress, base, record, ending, invoked>>

-----------------------------------------------------------------------------
(* run_inner and process_input *)

EmitQueued ==
    /\ At("queued")
    /\ Emit("queued", "queued")
    /\ Goto("capture")
    /\ UNCHANGED <<world, base, record, ending, invoked>>

Capture ==
    /\ At("capture")
    /\ base' = live
    /\ Opens("process_input")
    /\ Goto("bind")
    /\ UNCHANGED <<world, progress, ending, invoked>>

\* delivery.observe: a lock of its own, so a snapshot may fall in between.
Bind ==
    /\ At("bind")
    /\ progress' = [progress EXCEPT !.revision = base.revision, !.bound = TRUE]
    /\ Goto("started")
    /\ UNCHANGED <<world, base, record, ending, invoked>>

EmitStarted ==
    /\ At("started")
    /\ Emit("started", "running")
    /\ Goto("select")
    /\ UNCHANGED <<world, base, record, ending, invoked>>

SelectTarget ==
    /\ At("select")
    /\ \/ Fails("started")
       \/ /\ Closes("success")
          /\ Goto("before_intent")
          /\ UNCHANGED <<world, progress, base, after, ending, invoked>>

\* The step closed before the checkpoint and stays a success.
BeforeIntent ==
    /\ At("before_intent")
    /\ \/ Passes("intent")
       \/ /\ Tripped
          /\ Ends("cancelled", "started", base, "before_intent")
          /\ UNCHANGED <<world, progress, base, record, invoked>>

-----------------------------------------------------------------------------
(* The two proposal phases: what they share is the model call *)

ForIntent    == open.name = "intent"
CallStage    == IF ForIntent THEN "intent_call" ELSE "plan_call"
DerivedStage == IF ForIntent THEN "intent" ELSE "execution_plan"

BeginIntent ==
    /\ At("intent")
    /\ Opens("intent")
    /\ IF config.passthrough
       THEN Emit("intent", "running") /\ Goto("derive_intent")
       ELSE Emit("intent_call", "running") /\ Goto("messages")
    /\ UNCHANGED <<world, base, ending, invoked>>

BeginPlan ==
    /\ At("plan")
    /\ Opens("execution_plan")
    /\ Emit("plan_call", "running")
    /\ Goto("messages")
    /\ UNCHANGED <<world, base, ending, invoked>>

BuildMessages ==
    /\ At("messages")
    /\ Fails(CallStage) \/ Continues("poll_token")

\* Each poll of the biased select looks at the token first.  An interrupted
\* call keeps its request as evidence.  (The variant polls only the provider.)
PollProviderOnly ==
    /\ At("poll_token")
    /\ Continues("poll_provider")

PollToken ==
    /\ At("poll_token")
    /\ \/ Passes("poll_provider")
       \/ /\ Tripped
          /\ ClosesWith("cancelled", "request")
          /\ Ends("cancelled", CallStage, base, "task_cancelled")
          /\ UNCHANGED <<world, progress, base, after, invoked>>

Polled == invoked' = invoked \cup {open.name}

\* The provider future is pending, and the select parks...
ProviderPends ==
    /\ At("poll_provider")
    /\ Polled
    /\ Goto("poll_token")
    /\ UNCHANGED <<world, progress, base, record, ending>>

\* ...or it answers, with an error or with a response.
\* (The variant of the failure forgets to attach the call.)
ProviderFailsUnrecorded ==
    /\ At("poll_provider")
    /\ Polled
    /\ Closes("failure")
    /\ Ends("failure", CallStage, base, Nothing)
    /\ UNCHANGED <<world, progress, base, after>>

ProviderFails ==
    /\ At("poll_provider")
    /\ Polled
    /\ ClosesWith("failure", "failed")
    /\ Ends("failure", CallStage, base, Nothing)
    /\ UNCHANGED <<world, progress, base, after>>

ProviderCompletes ==
    /\ At("poll_provider")
    /\ Polled
    /\ Goto("cross")
    /\ UNCHANGED <<world, progress, base, record, ending>>

\* The typed crossing of the parsed JSON: the Intent proposal or the registry.
Cross ==
    /\ At("cross")
    /\ \/ FailsWith("rejected", CallStage)
       \/ /\ open' = [open EXCEPT !.call = "accepted"]
          /\ Goto("announce")
          /\ UNCHANGED <<world, progress, base, steps, after, ending, invoked>>

Announce ==
    /\ At("announce")
    /\ Emit(DerivedStage, "running")
    /\ Goto(IF ForIntent THEN "derive_intent" ELSE "derive_plan")
    /\ UNCHANGED <<world, base, record, ending, invoked>>

-----------------------------------------------------------------------------
(* resolve_intent after the proposal *)

DeriveIntent   == At("derive_intent") /\ (Fails("intent") \/ Continues("validate_intent"))
ValidateIntent == At("validate_intent") /\ (Fails("intent") \/ Continues("after_intent"))

AfterIntent ==
    /\ At("after_intent")
    /\ Passes("flow") \/ Cancels("intent", "after_intent_validation")

\* A Stop Intent succeeds with the revision it started from...
\* (The variant leaves the record without it.)
StopUncommitted ==
    /\ At("flow")
    /\ Closes("success")
    /\ Ends("success", "intent", base, Nothing)
    /\ UNCHANGED <<world, progress, base, after, invoked>>

Stop ==
    /\ At("flow")
    /\ Closes("success")
    /\ after' = base.revision
    /\ Ends("success", "intent", base, Nothing)
    /\ UNCHANGED <<world, progress, base, invoked>>

\* ...and a Continue Intent needs an Operation registry.
Continue ==
    /\ At("flow")
    /\ \/ ~config.registry /\ Fails("intent")
       \/ /\ config.registry
          /\ Closes("success")
          /\ Goto("plan")
          /\ UNCHANGED <<world, progress, base, after, ending, invoked>>

-----------------------------------------------------------------------------
(* ExecutionPlan after the proposal, and the deterministic tail *)

DerivePlan == At("derive_plan") /\ (Fails("execution_plan") \/ Continues("check_plan"))

\* Admissibility of every Operation, then the recipe's whole-plan validation.
CheckPlan ==
    /\ At("check_plan")
    /\ \/ Fails("execution_plan")
       \/ /\ Closes("success")
          /\ Goto("patch")
          /\ UNCHANGED <<world, progress, base, after, ending, invoked>>

BeginPatch ==
    /\ At("patch")
    /\ Opens("patch")
    /\ Emit("patch", "running")
    /\ Goto("prepare_patch")
    /\ UNCHANGED <<world, base, ending, invoked>>

\* compile_patch and validate_patch.
PreparePatch == At("prepare_patch") /\ (Fails("patch") \/ Continues("dry_run"))

EmitDryRun ==
    /\ At("dry_run")
    /\ Emit("dry_run", "running")
    /\ Goto("before_dry_run")
    /\ UNCHANGED <<world, base, record, ending, invoked>>

BeforeDryRun ==
    /\ At("before_dry_run")
    /\ Passes("rehearse") \/ Cancels("dry_run", "before_dry_run")

\* rehearse_patch: revision capacity where it is embedded, then the dry-run.
\* (The variant closes a failed rehearsal at the stage of its step.)
RehearseAtPatch ==
    /\ At("rehearse")
    /\ \/ Fails("patch")
       \/ /\ Closes("success")
          /\ Goto("commit")
          /\ UNCHANGED <<world, progress, base, after, ending, invoked>>

Rehearse ==
    /\ At("rehearse")
    /\ \/ Fails("dry_run")
       \/ /\ Closes("success")
          /\ Goto("commit")
          /\ UNCHANGED <<world, progress, base, after, ending, invoked>>

BeginCommit ==
    /\ At("commit")
    /\ Opens("commit")
    /\ Emit("commit", "running")
    /\ Goto("before_commit")
    /\ UNCHANGED <<world, base, ending, invoked>>

\* (The variant forgets the last checkpoint.)
BeforeCommitUnchecked == At("before_commit") /\ Continues("commit_scene")

BeforeCommit ==
    /\ At("before_commit")
    /\ Passes("commit_scene") \/ Cancels("commit", "before_commit")

\* OpenCommitStep::close_success over a Scene the authority accepted.
Commits(scene) ==
    /\ Closes("success")
    /\ after' = scene.revision
    /\ Ends("success", "commit", scene, Nothing)
    /\ UNCHANGED <<config, requested, progress, base, invoked>>

\* A plain Scene's revision is the application's: apply may keep or advance
\* what the payload carries.
PlainRevisions == {base.revision, base.revision + 1} \cap 0..MaxRevision

CommitPlain ==
    /\ At("commit_scene")
    /\ config.source = "plain"
    /\ \E revision \in PlainRevisions : Commits([revision |-> revision, patched |-> TRUE])
    /\ UNCHANGED live

CommitRefused ==
    /\ At("commit_scene")
    /\ config.source = "live"
    /\ \/ live.revision = MaxRevision
       \/ live.revision # base.revision
    /\ Fails("commit")

\* Exact when nobody else wrote since the capture, else by rebase.
\* (The variant of the install closes the Run with the captured revision.)
CommitLiveUnadvanced ==
    /\ At("commit_scene")
    /\ config.source = "live"
    /\ live.revision < MaxRevision
    /\ live.revision = base.revision \/ config.rebases
    /\ live' = [revision |-> live.revision + 1, patched |-> TRUE]
    /\ Commits([revision |-> base.revision, patched |-> TRUE])

CommitLive ==
    /\ At("commit_scene")
    /\ config.source = "live"
    /\ live.revision < MaxRevision
    /\ live.revision = base.revision \/ config.rebases
    /\ LET installed == [revision |-> live.revision + 1, patched |-> TRUE]
       IN  live' = installed /\ Commits(installed)

-----------------------------------------------------------------------------
(* finish: the record, the terminal progress, the result and its delivery *)

CloseRecord ==
    /\ At("record")
    /\ Goto("last_progress")
    /\ UNCHANGED <<world, progress, base, record, ending, invoked>>

\* (The variant skips the terminal progress of a cancelled Run.)
EmitTerminalUnlessCancelled ==
    /\ At("last_progress")
    /\ IF ending.outcome = "cancelled" THEN UNCHANGED progress
       ELSE Emit(ending.stage, ending.outcome)
    /\ Goto("result")
    /\ UNCHANGED <<world, base, record, ending, invoked>>

EmitTerminal ==
    /\ At("last_progress")
    /\ Emit(ending.stage, ending.outcome)
    /\ Goto("result")
    /\ UNCHANGED <<world, base, record, ending, invoked>>

Return ==
    /\ At("result")
    /\ Goto("done")
    /\ UNCHANGED <<world, progress, base, record, ending, invoked>>

-----------------------------------------------------------------------------
(* The world around the Run *)

\* CancelToken::cancel by the host, by an observer, by anyone with a clone.
Cancel ==
    /\ pc \notin Finished
    /\ ~Tripped
    /\ requested' = pc
    /\ UNCHANGED <<config, live, pc, progress, base, record, ending, invoked>>

\* Another Run or an edit on the shared authority.
OtherWriter ==
    /\ config.source = "live"
    /\ live.revision < MaxRevision
    /\ live' = [live EXCEPT !.revision = @ + 1]
    /\ UNCHANGED <<config, requested, pc, progress, base, record, ending, invoked>>

\* A panic in foreign code, or the host dropping the future of Sergent::run.
Escape ==
    /\ pc \notin Finished
    /\ Goto("panicked")
    /\ UNCHANGED <<world, progress, base, record, ending, invoked>>

-----------------------------------------------------------------------------
Init ==
    /\ config \in Config
    /\ live \in Scene /\ ~live.patched
    /\ base = live
    /\ pc = "queued"
    /\ progress = [stage |-> "queued", status |-> "queued", revision |-> 0, bound |-> FALSE]
    /\ steps = <<>>
    /\ open = Nothing
    /\ after = Nothing
    /\ ending = Nothing
    /\ requested = Nothing
    /\ invoked = {}

ProcessInput  == EmitQueued \/ Capture \/ Bind \/ EmitStarted \/ SelectTarget \/ BeforeIntent
ModelCall     == \/ BuildMessages \/ PollToken \/ ProviderPends \/ ProviderFails
                 \/ ProviderCompletes \/ Cross \/ Announce
ResolveIntent == BeginIntent \/ DeriveIntent \/ ValidateIntent \/ AfterIntent \/ Stop \/ Continue
ExecutionPlan == BeginPlan \/ DerivePlan \/ CheckPlan
CommitScene   == CommitPlain \/ CommitRefused \/ CommitLive
CommitTail    == \/ BeginPatch \/ PreparePatch \/ EmitDryRun \/ BeforeDryRun \/ Rehearse
                 \/ BeginCommit \/ BeforeCommit \/ CommitScene
Finish        == CloseRecord \/ EmitTerminal \/ Return

RunStep == ProcessInput \/ ModelCall \/ ResolveIntent \/ ExecutionPlan \/ CommitTail \/ Finish

Next == RunStep \/ Cancel \/ OtherWriter \/ Escape

Spec == Init /\ [][Next]_vars

\* The executor polls the task while it has something to do; callbacks return.
\* A provider may pend forever: no fairness is assumed of its answers.
FairSpec == Spec /\ WF_vars(RunStep)

-----------------------------------------------------------------------------
(* Assertions of the Run Record, as the core crate makes them on the close *)

LastStep == steps[Len(steps)]

\* RunRecordCompletion::new
CancellationMatchesOutcome == (ending.checkpoint # Nothing) = (ending.outcome = "cancelled")

FinalStepMatchesOutcome ==
    \/ LastStep.status = ending.outcome
    \/ /\ ending.outcome = "cancelled" /\ ending.checkpoint = "before_intent"
       /\ LastStep.name = "process_input" /\ LastStep.status = "success"

TransitionMatchesPath ==
    \/ ending.outcome \in {"failure", "cancelled"} /\ after = Nothing
    \/ ending.outcome = "success" /\ LastStep.name = "intent" /\ after = base.revision
    \/ ending.outcome = "success" /\ LastStep.name = "commit" /\ after \in base.revision..MaxRevision

\* assert_run_record
RunRecordCoherent ==
    /\ steps # <<>>
    /\ \A i \in DOMAIN steps : steps[i].name = StepOrder[i]
    /\ \A i \in DOMAIN steps : i < Len(steps) => steps[i].status = "success"
    /\ FinalStepMatchesOutcome
    /\ TransitionMatchesPath

StagesOf(outcome, name) ==
    IF outcome = "success" THEN {name} \cap {"intent", "commit"}
    ELSE CASE name = "process_input"  -> {"started"}
           [] name = "intent"         -> {"intent_call", "intent"}
           [] name = "execution_plan" -> {"plan_call"} \cup
                 (IF outcome = "failure" THEN {"execution_plan"} ELSE {})
           [] name = "patch"          -> {"dry_run"} \cup
                 (IF outcome = "failure" THEN {"patch"} ELSE {})
           [] name = "commit"         -> {"commit"}

\* assert_result_stage
ResultStageCoherent == ending.stage \in StagesOf(ending.outcome, LastStep.name)

-----------------------------------------------------------------------------
(* Properties *)

\* Every variable keeps its shape, and a step is open exactly between the
\* points that open and close one.
Bare     == {"queued", "capture", "before_intent", "intent", "plan", "patch", "commit"}
              \cup ClosingPoints

TypeOK ==
    /\ config \in Config
    /\ pc \in Running \cup Finished
    /\ progress \in [stage: Stages, status: {"queued", "running"} \cup Terminal,
                     revision: 0..MaxRevision, bound: BOOLEAN]
    /\ live \in Scene /\ base \in Scene
    /\ steps \in Seq(Step)
    /\ open \in Open \cup {Nothing}
    /\ pc \in Running => ((open = Nothing) <=> (pc \in Bare))
    /\ after \in 0..MaxRevision \cup {Nothing}
    /\ ending \in Ending \cup {Nothing}
    /\ requested \in Running \cup {Nothing}
    /\ invoked \subseteq {"intent", "execution_plan"}

\* Closing a Run never trips the Run Record's own assertions, on any path to
\* an ending (RunRecordCompletion::new, assert_run_record,
\* assert_result_stage): those panic, and would turn an ordinary failure or
\* cancellation into an escape without a result.
ClosingNeverPanics ==
    /\ At("record") => CancellationMatchesOutcome /\ RunRecordCoherent
    /\ At("result") => ResultStageCoherent

\* A provider that was polled leaves evidence in the step it was polled for,
\* evidence of an answer appears only where a provider was polled, a
\* request-only call appears only where the await was cancelled, and a
\* model-backed phase succeeds only over an accepted proposal.
CallEvidenceTruthful ==
    \A i \in DOMAIN steps :
        LET step == steps[i] IN
        /\ step.name \in invoked => step.call # "none"
        /\ step.call \in {"failed", "rejected", "accepted"} => step.name \in invoked
        /\ step.call = "request" =>
              ending # Nothing /\ ending.checkpoint = "task_cancelled" /\ i = Len(steps)
        /\ step.status = "success" /\ step.call # "accepted" =>
              \/ step.name \notin {"intent", "execution_plan"}
              \/ step.name = "intent" /\ config.passthrough

Concluded(outcome) == ending # Nothing /\ ending.outcome = outcome

\* A cancellation requested before a checkpoint is passed stops what comes
\* after it: no provider is polled after a request that preceded the first
\* checkpoint, no Plan is asked for after one during the Intent, nothing is
\* rehearsed after one that preceded the dry-run, nothing is committed after
\* one that preceded the commit; and nothing is cancelled unasked.
CancellationHonoured ==
    /\ requested \in ToBeforeIntent => invoked = {}
    /\ requested \in ToBeforeIntent \cup IntentPoints => "execution_plan" \notin invoked
    /\ requested \in ToBeforeIntent \cup IntentPoints \cup ToBeforeDryRun =>
          pc \notin ToBeforeCommit \cup {"commit_scene"}
    /\ Concluded("success") /\ ending.stage = "commit" =>
          requested \in {Nothing, "commit_scene"} \cup ClosingPoints
    /\ Concluded("cancelled") => Tripped /\ requested \notin {"commit_scene"} \cup ClosingPoints

Committed == Concluded("success") /\ ending.stage = "commit"

\* The shared Scene holds the Run's Patch exactly when the Run concluded as
\* committed, also when it then escaped before its result; every other ending
\* returns the captured Scene, and a committed one the Scene that was
\* installed, under the revision its record names.
AllOrNothing ==
    /\ live.patched <=> Committed /\ config.source = "live"
    /\ Committed =>
          /\ ending.scene.patched
          /\ after = ending.scene.revision
          /\ config.source = "live" => after \in (base.revision + 1)..live.revision
    /\ ending # Nothing /\ ~Committed => ending.scene = base

\* The caller sees in the handle what the result says: the stage announced
\* last is the stage of the result, its status the outcome, its revision the
\* captured one.
ResultMatchesProgress ==
    pc \in {"result", "done"} =>
        /\ progress.stage = ending.stage
        /\ progress.status = ending.outcome
        /\ progress.revision = base.revision

Earlier(s, t) ==
    \E i, j \in DOMAIN StageOrder : i < j /\ StageOrder[i] = s /\ StageOrder[j] = t

\* Progress only moves on: the identity is bound before the Run is announced
\* as started, each reached stage is announced once and later than the one
\* before, and the one terminal snapshot does not advance the stage.
ProgressMovesOn ==
    [][progress' # progress =>
          /\ progress.status \notin Terminal
          /\ \/ ~progress.bound /\ progress'.bound /\ progress.stage = "queued"
             \/ /\ progress.bound /\ progress'.status = "running"
                /\ Earlier(progress.stage, progress'.stage)
             \/ progress'.status \in Terminal /\ progress'.stage = progress.stage]_progress

\* A requested cancellation ends the Run, whatever its provider does.
RequestEndsRun == Tripped ~> pc \in Finished

\* What the cancellation section of the execution model promises: a request
\* before the commit boundary gives the status cancelled.
EarlyRequestCancels ==
    At("done") /\ Tripped /\ requested \notin {"commit_scene"} \cup ClosingPoints =>
        ending.outcome = "cancelled"
=============================================================================
