-------------------------- MODULE RunPipelineProofs --------------------------
(***************************************************************************)
(* Proofs about RunPipeline, for every revision bound: whatever path a Run *)
(* takes to its ending, closing it trips no assertion of the Run Record,   *)
(* the shared Scene holds the Run's Patch exactly when it committed, its   *)
(* call evidence is truthful, a cancellation asked for in time stops what  *)
(* comes after, and the handle shows what the result says, by announcements *)
(* that only move on.                                                      *)
(*                                                                         *)
(* The inductive invariant says, point by point, how many steps are closed *)
(* and which one is open, that nothing is sealed before an ending, and     *)
(* what an ending sealed.                                                  *)
(***************************************************************************)
EXTENDS RunPipeline, TLAPS

Unfinished == Running \ ClosingPoints
Sealing    == ClosingPoints \cup {"done"}

Between(n) == Len(steps) = n /\ open = Nothing
Inside(n)  == Len(steps) = n /\ open # Nothing /\ open.name = StepOrder[n + 1]

InIntent == {"derive_intent", "validate_intent", "after_intent", "flow"}
InPlan   == {"derive_plan", "check_plan"}
InPatch  == {"prepare_patch", "dry_run", "before_dry_run", "rehearse"}

\* Where a Run is determines how far its record got.
Positions ==
    /\ pc \in {"queued", "capture"}            => Between(0)
    /\ pc \in {"bind", "started", "select"}    => Inside(0)
    /\ pc \in {"before_intent", "intent"}      => Between(1)
    /\ pc \in InIntent                         => Inside(1)
    /\ pc \in CallPoints                       => Inside(1) \/ Inside(2)
    /\ pc = "plan"                             => Between(2)
    /\ pc \in InPlan                           => Inside(2)
    /\ pc = "patch"                            => Between(3)
    /\ pc \in InPatch                          => Inside(3)
    /\ pc = "commit"                           => Between(4)
    /\ pc \in {"before_commit", "commit_scene"} => Inside(4)

\* Before an ending every closed step is a success in its place.
InPlace == \A i \in DOMAIN steps : steps[i].name = StepOrder[i] /\ steps[i].status = "success"

Unsealed ==
    pc \in Unfinished =>
        /\ ending = Nothing /\ after = Nothing
        /\ InPlace

\* From the ending on, the record and the result hold together.
Sealed ==
    pc \in Sealing =>
        /\ ending # Nothing
        /\ CancellationMatchesOutcome
        /\ RunRecordCoherent
        /\ ResultStageCoherent

\* The captured Scene is older than the live one, and never has the Patch.
Lineage == ~base.patched /\ base.revision <= live.revision

\* How far a Run may still get after a request, by where the request landed.
Requests ==
    /\ requested \in ToBeforeIntent =>
          pc \in ToBeforeIntent \cup ClosingPoints \cup Finished
    /\ requested \in IntentPoints =>
          /\ pc \in IntentPoints \cup CallPoints \cup ClosingPoints \cup Finished
          /\ pc \in CallPoints => open.name = "intent"
    /\ pc = "commit_scene" => requested \in {Nothing, "commit_scene"}
    /\ requested = "commit_scene" => pc \in {"commit_scene"} \cup ClosingPoints \cup Finished
    /\ requested \in ClosingPoints => pc \in ClosingPoints \cup Finished

\* Which providers can have been polled, by where the Run is.
Polls ==
    /\ pc \in ToBeforeIntent \cup {"intent"} => invoked = {}
    /\ pc \in InIntent \cup {"plan"} => "execution_plan" \notin invoked
    /\ pc \in CallPoints /\ open.name = "intent" => "execution_plan" \notin invoked

\* The evidence of the open step.
OpenEvidence ==
    open # Nothing =>
        /\ pc = "messages" => open.name \notin invoked
        /\ pc = "cross" => open.name \in invoked
        /\ pc \in Running \ {"poll_token", "poll_provider", "cross"} =>
              (open.name \in invoked <=> open.call = "accepted")
        /\ open.call = "accepted" => open.name \in invoked
        /\ pc = "announce" => open.call = "accepted"
        /\ pc \in InIntent /\ ~config.passthrough => open.call = "accepted"
        /\ pc \in InPlan => open.call = "accepted"

\* The handle knows the captured revision once it is bound.
Bound == pc \in Running \cup {"done"} => pc \in {"queued", "capture", "bind"} \/ progress.revision = base.revision

IInv ==
    /\ TypeOK /\ Positions /\ Unsealed /\ Sealed
    /\ Lineage /\ AllOrNothing
    /\ Requests /\ Polls /\ CancellationHonoured
    /\ OpenEvidence /\ CallEvidenceTruthful
    /\ Bound /\ ResultMatchesProgress

-----------------------------------------------------------------------------
\* The points of a Run are finite sets of names, and a few definitions only
\* abbreviate; both are expanded everywhere below.
USE DEF At, Goto, world, record, Tripped, Passes, Continues, Fails, Closes,
        ToBeforeIntent, IntentPoints, CallPoints, ToBeforeDryRun, ToBeforeCommit,
        ClosingPoints, Running, Finished, Bare, Unfinished, Sealing, InIntent, InPlan, InPatch

(* The names of stages and steps are the elements of the two orders. *)
LEMMA Orders ==
    /\ Stages = {"queued", "started", "intent_call", "intent", "plan_call",
                  "execution_plan", "patch", "dry_run", "commit"}
    /\ StepNames = {"process_input", "intent", "execution_plan", "patch", "commit"}
    /\ StepOrder[1] = "process_input" /\ StepOrder[2] = "intent"
    /\ StepOrder[3] = "execution_plan" /\ StepOrder[4] = "patch" /\ StepOrder[5] = "commit"
  BY DEF Stages, StageOrder, StepNames, StepOrder

(* No step comes twice in the order. *)
LEMMA OrderInjective ==
  ASSUME NEW i \in 1..5, NEW j \in 1..5, i # j
  PROVE  StepOrder[i] # StepOrder[j]
<1>1. ASSUME NEW k \in 1..5
      PROVE  k = 1 \/ k = 2 \/ k = 3 \/ k = 4 \/ k = 5
  BY <1>1
<1> QED
  BY <1>1, Orders

(* Opening a step opens an empty one and closes none. *)
LEMMA Opening ==
  ASSUME NEW name \in StepNames, Opens(name)
  PROVE  /\ open' = [name |-> name, call |-> "none"] /\ open' # Nothing
         /\ UNCHANGED <<steps, after>>
  BY NothingAssumption DEF Opens, Open

(* Closing a step appends its record and leaves nothing open. *)
LEMMA Closing ==
  ASSUME steps \in Seq(Step), open \in Open,
         NEW status \in Terminal, NEW call \in CallEvidence, ClosesWith(status, call)
  PROVE  /\ open' = Nothing
         /\ steps' \in Seq(Step) /\ Len(steps') = Len(steps) + 1
         /\ steps'[Len(steps')] = [name |-> open.name, status |-> status, call |-> call]
         /\ \A i \in 1..Len(steps) : steps'[i] = steps[i]
  BY DEF ClosesWith, Open, Step

(* A record of successes in their places stays in place when the next step *)
(* closes, and only the new last step can be other than a success.         *)
LEMMA ClosingInPlace ==
  ASSUME steps \in Seq(Step), open \in Open, InPlace, open.name = StepOrder[Len(steps) + 1],
         NEW status \in Terminal, NEW call \in CallEvidence, ClosesWith(status, call)
  PROVE  /\ steps' # <<>>
         /\ \A i \in DOMAIN steps' : steps'[i].name = StepOrder[i]
         /\ \A i \in DOMAIN steps' : i < Len(steps') => steps'[i].status = "success"
         /\ status = "success" => InPlace'
         /\ LastStep'.name = open.name /\ LastStep'.status = status
<1>1. /\ open' = Nothing
      /\ steps' \in Seq(Step) /\ Len(steps') = Len(steps) + 1
      /\ steps'[Len(steps')] = [name |-> open.name, status |-> status, call |-> call]
      /\ \A i \in 1..Len(steps) : steps'[i] = steps[i]
  BY Closing
<1>2. /\ Len(steps) \in Nat /\ steps' # <<>>
      /\ DOMAIN steps = 1..Len(steps) /\ DOMAIN steps' = 1..(Len(steps) + 1)
  BY <1>1
<1>3. LastStep' = [name |-> open.name, status |-> status, call |-> call]
  BY <1>1 DEF LastStep
<1>4. ASSUME NEW i \in DOMAIN steps'
      PROVE  \/ i \in DOMAIN steps /\ steps'[i] = steps[i]
             \/ i = Len(steps') /\ steps'[i] = LastStep'
  <2>1. CASE i = Len(steps) + 1
    BY <2>1, <1>1, <1>3
  <2>2. CASE i \in 1..Len(steps)
    BY <2>2, <1>1, <1>2
  <2> QED
    BY <1>2, <2>1, <2>2
<1> QED
  BY <1>1, <1>2, <1>3, <1>4 DEF InPlace

(* The stages an ending may name, by outcome and final step. *)
LEMMA StageTable ==
    /\ StagesOf("success", "intent") = {"intent"} /\ StagesOf("success", "commit") = {"commit"}
    /\ StagesOf("failure", "process_input") = {"started"}
    /\ StagesOf("failure", "intent") = {"intent_call", "intent"}
    /\ StagesOf("failure", "execution_plan") = {"plan_call", "execution_plan"}
    /\ StagesOf("failure", "patch") = {"patch", "dry_run"}
    /\ StagesOf("failure", "commit") = {"commit"}
    /\ StagesOf("cancelled", "process_input") = {"started"}
    /\ StagesOf("cancelled", "intent") = {"intent_call", "intent"}
    /\ StagesOf("cancelled", "execution_plan") = {"plan_call"}
    /\ StagesOf("cancelled", "patch") = {"dry_run"}
    /\ StagesOf("cancelled", "commit") = {"commit"}
  BY DEF StagesOf

(* At a point with an open step, its name is the next in the order. *)
LEMMA OpenStep ==
  ASSUME TypeOK, Positions, pc \in Unfinished \ Bare
  PROVE  /\ open \in Open /\ open.name = StepOrder[Len(steps) + 1]
         /\ open.call \in {"none", "accepted"} /\ open.call \in CallEvidence
         /\ Len(steps) \in 0..4
<1>1. open # Nothing /\ open \in Open \cup {Nothing}
  BY DEF TypeOK
<1>2. \E n \in 0..4 : Inside(n)
  BY DEF Positions
<1> QED
  BY <1>1, <1>2 DEF Inside, Open, CallEvidence

-----------------------------------------------------------------------------
(* Every step keeps the types *)

(* A step leaves the Run at a point, and its configuration alone. *)
LEMMA PointsKept ==
  ASSUME TypeOK, [Next]_vars
  PROVE  config' \in Config /\ pc' \in Running \cup Finished
<1>0. config \in Config /\ pc \in Running \cup Finished
  BY DEF TypeOK
<1>1. CASE ProcessInput
  BY <1>1, <1>0 DEF ProcessInput, EmitQueued, Capture, Bind, EmitStarted, SelectTarget,
       BeforeIntent, Ends, FailsWith, Cancels, Polled, Commits
<1>2. CASE ModelCall
  BY <1>2, <1>0 DEF ModelCall, BuildMessages, PollToken, ProviderPends, ProviderFails,
       ProviderCompletes, Cross, Announce, Ends, FailsWith, Cancels, Polled, Commits
<1>3. CASE ResolveIntent
  BY <1>3, <1>0 DEF ResolveIntent, BeginIntent, DeriveIntent, ValidateIntent,
       AfterIntent, Stop, Continue, Ends, FailsWith, Cancels, Polled, Commits
<1>4. CASE ExecutionPlan
  BY <1>4, <1>0 DEF ExecutionPlan, BeginPlan, DerivePlan, CheckPlan, Ends, FailsWith,
       Cancels, Polled, Commits
<1>5. CASE CommitTail
  BY <1>5, <1>0 DEF CommitTail, BeginPatch, PreparePatch, EmitDryRun, BeforeDryRun,
       Rehearse, BeginCommit, BeforeCommit, CommitScene, CommitPlain, CommitRefused,
       CommitLive, Ends, FailsWith, Cancels, Polled, Commits
<1>6. CASE Finish
  BY <1>6, <1>0 DEF Finish, CloseRecord, EmitTerminal, Return, Ends, FailsWith, Cancels,
       Polled, Commits
<1>7. CASE Cancel \/ OtherWriter \/ Escape \/ UNCHANGED vars
  BY <1>7, <1>0 DEF Cancel, OtherWriter, Escape, vars, Ends, FailsWith, Cancels, Polled,
       Commits
<1> QED
  BY <1>1, <1>2, <1>3, <1>4, <1>5, <1>6, <1>7 DEF Next, RunStep

(* A step keeps the types of the record and of the progress. *)
LEMMA StepsKept ==
  ASSUME TypeOK, Positions, [Next]_vars
  PROVE  steps' \in Seq(Step)
<1>0. steps \in Seq(Step)
  BY DEF TypeOK
<1>c. ASSUME NEW status \in Terminal, NEW call \in CallEvidence, pc \in Unfinished \ Bare,
             ClosesWith(status, call)
      PROVE  steps' \in Seq(Step)
  BY <1>0, <1>c, OpenStep, Closing
<1>o. \A name \in StepNames : Opens(name) => UNCHANGED steps
  BY Opening
<1>1. CASE ProcessInput
  BY <1>1, <1>0, <1>c, <1>o, OpenStep, Orders DEF ProcessInput, EmitQueued, Capture,
       Bind, EmitStarted, SelectTarget, BeforeIntent, Terminal, CallEvidence, FailsWith,
       Cancels, Commits
<1>2. CASE ModelCall
  BY <1>2, <1>0, <1>c, <1>o, OpenStep, Orders DEF ModelCall, BuildMessages, PollToken,
       ProviderPends, ProviderFails, ProviderCompletes, Cross, Announce, Terminal,
       CallEvidence, FailsWith, Cancels, Commits
<1>3. CASE ResolveIntent
  BY <1>3, <1>0, <1>c, <1>o, OpenStep, Orders DEF ResolveIntent, BeginIntent,
       DeriveIntent, ValidateIntent, AfterIntent, Stop, Continue, Terminal,
       CallEvidence, FailsWith, Cancels, Commits
<1>4. CASE ExecutionPlan
  BY <1>4, <1>0, <1>c, <1>o, OpenStep, Orders DEF ExecutionPlan, BeginPlan, DerivePlan,
       CheckPlan, Terminal, CallEvidence, FailsWith, Cancels, Commits
<1>5. CASE CommitTail
  BY <1>5, <1>0, <1>c, <1>o, OpenStep, Orders DEF CommitTail, BeginPatch, PreparePatch,
       EmitDryRun, BeforeDryRun, Rehearse, BeginCommit, BeforeCommit, CommitScene,
       CommitPlain, CommitRefused, CommitLive, Terminal, CallEvidence, FailsWith,
       Cancels, Commits
<1>6. CASE Finish
  BY <1>6, <1>0, <1>c, <1>o, OpenStep, Orders DEF Finish, CloseRecord, EmitTerminal,
       Return, Terminal, CallEvidence, FailsWith, Cancels, Commits
<1>7. CASE Cancel \/ OtherWriter \/ Escape \/ UNCHANGED vars
  BY <1>7, <1>0, <1>c, <1>o, OpenStep, Orders DEF Cancel, OtherWriter, Escape, vars,
       Terminal, CallEvidence, FailsWith, Cancels, Commits
<1> QED
  BY <1>1, <1>2, <1>3, <1>4, <1>5, <1>6, <1>7 DEF Next, RunStep

(* A step is open exactly between the points that open and close one. *)
LEMMA OpenKept ==
  ASSUME TypeOK, Positions, [Next]_vars
  PROVE  /\ open' \in Open \cup {Nothing}
         /\ pc' \in Running => ((open' = Nothing) <=> (pc' \in Bare))
<1>0. /\ open \in Open \cup {Nothing} /\ pc \in Running \cup Finished
      /\ pc \in Running => ((open = Nothing) <=> (pc \in Bare))
  BY DEF TypeOK
<1>c. \A status, call : ClosesWith(status, call) => open' = Nothing
  BY DEF ClosesWith
<1>o. \A name \in StepNames : Opens(name) => open' \in Open /\ open' # Nothing
  BY NothingAssumption DEF Opens, Open
<1>k. open \in Open /\ open' = [open EXCEPT !.call = "accepted"] => open' \in Open /\ open' # Nothing
  BY NothingAssumption DEF Open
<1>1. CASE ProcessInput
  BY <1>1, <1>0, <1>c, <1>o, <1>k, Orders DEF ProcessInput, EmitQueued, Capture, Bind,
       EmitStarted, SelectTarget, BeforeIntent, Ends, FailsWith, Cancels, Polled,
       Commits
<1>2. CASE ModelCall
  BY <1>2, <1>0, <1>c, <1>o, <1>k, Orders DEF ModelCall, BuildMessages, PollToken,
       ProviderPends, ProviderFails, ProviderCompletes, Cross, Announce, Ends,
       FailsWith, Cancels, Polled, Commits
<1>3. CASE ResolveIntent
  BY <1>3, <1>0, <1>c, <1>o, <1>k, Orders DEF ResolveIntent, BeginIntent, DeriveIntent,
       ValidateIntent, AfterIntent, Stop, Continue, Ends, FailsWith, Cancels, Polled,
       Commits
<1>4. CASE ExecutionPlan
  BY <1>4, <1>0, <1>c, <1>o, <1>k, Orders DEF ExecutionPlan, BeginPlan, DerivePlan,
       CheckPlan, Ends, FailsWith, Cancels, Polled, Commits
<1>5. CASE CommitTail
  BY <1>5, <1>0, <1>c, <1>o, <1>k, Orders DEF CommitTail, BeginPatch, PreparePatch,
       EmitDryRun, BeforeDryRun, Rehearse, BeginCommit, BeforeCommit, CommitScene,
       CommitPlain, CommitRefused, CommitLive, Ends, FailsWith, Cancels, Polled, Commits
<1>6. CASE Finish
  BY <1>6, <1>0, <1>c, <1>o, <1>k, Orders DEF Finish, CloseRecord, EmitTerminal, Return,
       Ends, FailsWith, Cancels, Polled, Commits
<1>7. CASE Cancel \/ OtherWriter \/ Escape \/ UNCHANGED vars
  BY <1>7, <1>0, <1>c, <1>o, <1>k, Orders DEF Cancel, OtherWriter, Escape, vars, Ends,
       FailsWith, Cancels, Polled, Commits
<1> QED
  BY <1>1, <1>2, <1>3, <1>4, <1>5, <1>6, <1>7 DEF Next, RunStep

(* Every announcement keeps the shape of the progress. *)
LEMMA ProgressKept ==
  ASSUME TypeOK, Sealed, [Next]_vars
  PROVE  progress' \in [stage: Stages, status: {"queued", "running"} \cup Terminal,
                        revision: 0..MaxRevision, bound: BOOLEAN]
<1>0. /\ progress \in [stage: Stages, status: {"queued", "running"} \cup Terminal,
                        revision: 0..MaxRevision, bound: BOOLEAN]
      /\ base.revision \in 0..MaxRevision
      /\ pc = "last_progress" => ending.stage \in Stages /\ ending.outcome \in Terminal
  BY DEF TypeOK, Scene, Sealed, Ending
<1>e. ASSUME NEW stage \in Stages, NEW status \in {"queued", "running"} \cup Terminal, Emit(stage, status)
      PROVE  progress' \in [stage: Stages, status: {"queued", "running"} \cup Terminal,
                            revision: 0..MaxRevision, bound: BOOLEAN]
  BY <1>0, <1>e DEF Emit
<1>1. CASE ProcessInput
  BY <1>1, <1>0, <1>e, Orders DEF ProcessInput, EmitQueued, Capture, Bind, EmitStarted,
       SelectTarget, BeforeIntent, FailsWith, Cancels, Commits, CallStage, DerivedStage
<1>2. CASE ModelCall
  BY <1>2, <1>0, <1>e, Orders DEF ModelCall, BuildMessages, PollToken, ProviderPends,
       ProviderFails, ProviderCompletes, Cross, Announce, FailsWith, Cancels, Commits,
       CallStage, DerivedStage
<1>3. CASE ResolveIntent
  BY <1>3, <1>0, <1>e, Orders DEF ResolveIntent, BeginIntent, DeriveIntent,
       ValidateIntent, AfterIntent, Stop, Continue, FailsWith, Cancels, Commits,
       CallStage, DerivedStage
<1>4. CASE ExecutionPlan
  BY <1>4, <1>0, <1>e, Orders DEF ExecutionPlan, BeginPlan, DerivePlan, CheckPlan,
       FailsWith, Cancels, Commits, CallStage, DerivedStage
<1>5. CASE CommitTail
  BY <1>5, <1>0, <1>e, Orders DEF CommitTail, BeginPatch, PreparePatch, EmitDryRun,
       BeforeDryRun, Rehearse, BeginCommit, BeforeCommit, CommitScene, CommitPlain,
       CommitRefused, CommitLive, FailsWith, Cancels, Commits, CallStage, DerivedStage
<1>6. CASE Finish
  BY <1>6, <1>0, <1>e, Orders DEF Finish, CloseRecord, EmitTerminal, Return, FailsWith,
       Cancels, Commits, CallStage, DerivedStage
<1>7. CASE Cancel \/ OtherWriter \/ Escape \/ UNCHANGED vars
  BY <1>7, <1>0, <1>e, Orders DEF Cancel, OtherWriter, Escape, vars, FailsWith, Cancels,
       Commits, CallStage, DerivedStage
<1> QED
  BY <1>1, <1>2, <1>3, <1>4, <1>5, <1>6, <1>7 DEF Next, RunStep

(* What a commit hands to its ending is a Scene, no older than the captured. *)
LEMMA CommitsScene ==
  ASSUME TypeOK, Lineage, CommitPlain \/ CommitLive
  PROVE  \E scene \in Scene : scene.patched /\ base.revision <= scene.revision /\ Commits(scene)
<1>0. live \in Scene /\ base \in Scene
  BY DEF TypeOK
<1>1. CASE CommitPlain
  <2>1. PICK revision \in PlainRevisions : Commits([revision |-> revision, patched |-> TRUE])
    BY <1>1 DEF CommitPlain
  <2> DEFINE scene == [revision |-> revision, patched |-> TRUE]
  <2>2. scene \in Scene /\ scene.patched /\ base.revision <= scene.revision
    BY <1>0, RevisionAssumption DEF Scene, PlainRevisions
  <2> QED
    BY <2>1, <2>2
<1>2. CASE CommitLive
  <2> DEFINE installed == [revision |-> live.revision + 1, patched |-> TRUE]
  <2>1. Commits(installed) /\ live.revision < MaxRevision
    BY <1>2 DEF CommitLive
  <2>2. installed \in Scene /\ installed.patched /\ base.revision <= installed.revision
    BY <1>0, <2>1, RevisionAssumption DEF Scene, Lineage
  <2> QED
    BY <2>1, <2>2
<1> QED
  BY <1>1, <1>2

(* The Scenes, and the revision a record names, stay Scenes and revisions. *)
LEMMA ScenesKept ==
  ASSUME TypeOK, Lineage, [Next]_vars
  PROVE  live' \in Scene /\ base' \in Scene /\ after' \in 0..MaxRevision \cup {Nothing}
<1>0. live \in Scene /\ base \in Scene /\ after \in 0..MaxRevision \cup {Nothing}
  BY DEF TypeOK
<1>c. \A scene \in Scene : Commits(scene) => after' \in 0..MaxRevision /\ UNCHANGED base
  BY DEF Commits, Scene
<1>l. CommitLive => live' \in Scene
  BY <1>0, RevisionAssumption DEF CommitLive, Scene
<1>1. CASE ProcessInput
  BY <1>1, <1>0, <1>c, <1>l, CommitsScene, RevisionAssumption DEF ProcessInput, EmitQueued,
       Capture, Bind, EmitStarted, SelectTarget, BeforeIntent, Ends, FailsWith, Cancels,
       Polled, Opens, ClosesWith, Scene, Emit
<1>2. CASE ModelCall
  BY <1>2, <1>0, <1>c, <1>l, CommitsScene, RevisionAssumption DEF ModelCall, BuildMessages,
       PollToken, ProviderPends, ProviderFails, ProviderCompletes, Cross, Announce,
       Ends, FailsWith, Cancels, Polled, Opens, ClosesWith, Scene, Emit
<1>3. CASE ResolveIntent
  BY <1>3, <1>0, <1>c, <1>l, CommitsScene, RevisionAssumption DEF ResolveIntent, BeginIntent,
       DeriveIntent, ValidateIntent, AfterIntent, Stop, Continue, Ends, FailsWith,
       Cancels, Polled, Opens, ClosesWith, Scene, Emit
<1>4. CASE ExecutionPlan
  BY <1>4, <1>0, <1>c, <1>l, CommitsScene, RevisionAssumption DEF ExecutionPlan, BeginPlan,
       DerivePlan, CheckPlan, Ends, FailsWith, Cancels, Polled, Opens, ClosesWith,
       Scene, Emit
<1>5. CASE CommitTail
  BY <1>5, <1>0, <1>c, <1>l, CommitsScene, RevisionAssumption DEF CommitTail, BeginPatch,
       PreparePatch, EmitDryRun, BeforeDryRun, Rehearse, BeginCommit, BeforeCommit,
       CommitScene, CommitPlain, CommitRefused, CommitLive, Ends, FailsWith, Cancels,
       Polled, Opens, ClosesWith, Scene, Emit
<1>6. CASE Finish
  BY <1>6, <1>0, <1>c, <1>l, CommitsScene, RevisionAssumption DEF Finish, CloseRecord,
       EmitTerminal, Return, Ends, FailsWith, Cancels, Polled, Opens, ClosesWith, Scene,
       Emit
<1>7. CASE Cancel \/ OtherWriter \/ Escape \/ UNCHANGED vars
  BY <1>7, <1>0, <1>c, <1>l, CommitsScene, RevisionAssumption DEF Cancel, OtherWriter, Escape,
       vars, Ends, FailsWith, Cancels, Polled, Opens, ClosesWith, Scene, Emit
<1> QED
  BY <1>1, <1>2, <1>3, <1>4, <1>5, <1>6, <1>7 DEF Next, RunStep

(* Every ending is one the terminal facts can describe. *)
LEMMA EndingKept ==
  ASSUME TypeOK, Positions, Lineage, [Next]_vars
  PROVE  ending' \in Ending \cup {Nothing}
<1>0. ending \in Ending \cup {Nothing} /\ base \in Scene
  BY DEF TypeOK
<1>e. ASSUME NEW outcome \in Terminal, NEW stage \in Stages, NEW scene \in Scene,
             NEW checkpoint \in Checkpoints \cup {Nothing}, Ends(outcome, stage, scene, checkpoint)
      PROVE  ending' \in Ending
  BY <1>e DEF Ends, Ending
<1>c. \A scene \in Scene : Commits(scene) => ending' \in Ending
  BY <1>e, Orders DEF Commits, Terminal
<1>1. CASE ProcessInput
  BY <1>1, <1>0, <1>e, <1>c, Orders, CommitsScene DEF ProcessInput, EmitQueued, Capture,
       Bind, EmitStarted, SelectTarget, BeforeIntent, FailsWith, Cancels, Polled,
       Terminal, Checkpoints, CallStage, DerivedStage
<1>2. CASE ModelCall
  BY <1>2, <1>0, <1>e, <1>c, Orders, CommitsScene DEF ModelCall, BuildMessages,
       PollToken, ProviderPends, ProviderFails, ProviderCompletes, Cross, Announce,
       FailsWith, Cancels, Polled, Terminal, Checkpoints, CallStage, DerivedStage
<1>3. CASE ResolveIntent
  BY <1>3, <1>0, <1>e, <1>c, Orders, CommitsScene DEF ResolveIntent, BeginIntent,
       DeriveIntent, ValidateIntent, AfterIntent, Stop, Continue, FailsWith, Cancels,
       Polled, Terminal, Checkpoints, CallStage, DerivedStage
<1>4. CASE ExecutionPlan
  BY <1>4, <1>0, <1>e, <1>c, Orders, CommitsScene DEF ExecutionPlan, BeginPlan,
       DerivePlan, CheckPlan, FailsWith, Cancels, Polled, Terminal, Checkpoints,
       CallStage, DerivedStage
<1>5. CASE CommitTail
  BY <1>5, <1>0, <1>e, <1>c, Orders, CommitsScene DEF CommitTail, BeginPatch,
       PreparePatch, EmitDryRun, BeforeDryRun, Rehearse, BeginCommit, BeforeCommit,
       CommitScene, CommitPlain, CommitRefused, CommitLive, FailsWith, Cancels, Polled,
       Terminal, Checkpoints, CallStage, DerivedStage
<1>6. CASE Finish
  BY <1>6, <1>0, <1>e, <1>c, Orders, CommitsScene DEF Finish, CloseRecord, EmitTerminal,
       Return, FailsWith, Cancels, Polled, Terminal, Checkpoints, CallStage,
       DerivedStage
<1>7. CASE Cancel \/ OtherWriter \/ Escape \/ UNCHANGED vars
  BY <1>7, <1>0, <1>e, <1>c, Orders, CommitsScene DEF Cancel, OtherWriter, Escape, vars,
       FailsWith, Cancels, Polled, Terminal, Checkpoints, CallStage, DerivedStage
<1> QED
  BY <1>1, <1>2, <1>3, <1>4, <1>5, <1>6, <1>7 DEF Next, RunStep

(* A request lands at a point of the running Run. *)
LEMMA RequestKept ==
  ASSUME TypeOK, [Next]_vars
  PROVE  requested' \in Running \cup {Nothing}
<1>0. requested \in Running \cup {Nothing} /\ pc \in Running \cup Finished
  BY DEF TypeOK
<1>1. CASE ProcessInput
  BY <1>1, <1>0 DEF ProcessInput, EmitQueued, Capture, Bind, EmitStarted, SelectTarget,
       BeforeIntent, Ends, FailsWith, Cancels, Polled, Commits
<1>2. CASE ModelCall
  BY <1>2, <1>0 DEF ModelCall, BuildMessages, PollToken, ProviderPends, ProviderFails,
       ProviderCompletes, Cross, Announce, Ends, FailsWith, Cancels, Polled, Commits
<1>3. CASE ResolveIntent
  BY <1>3, <1>0 DEF ResolveIntent, BeginIntent, DeriveIntent, ValidateIntent,
       AfterIntent, Stop, Continue, Ends, FailsWith, Cancels, Polled, Commits
<1>4. CASE ExecutionPlan
  BY <1>4, <1>0 DEF ExecutionPlan, BeginPlan, DerivePlan, CheckPlan, Ends, FailsWith,
       Cancels, Polled, Commits
<1>5. CASE CommitTail
  BY <1>5, <1>0 DEF CommitTail, BeginPatch, PreparePatch, EmitDryRun, BeforeDryRun,
       Rehearse, BeginCommit, BeforeCommit, CommitScene, CommitPlain, CommitRefused,
       CommitLive, Ends, FailsWith, Cancels, Polled, Commits
<1>6. CASE Finish
  BY <1>6, <1>0 DEF Finish, CloseRecord, EmitTerminal, Return, Ends, FailsWith, Cancels,
       Polled, Commits
<1>7. CASE Cancel \/ OtherWriter \/ Escape \/ UNCHANGED vars
  BY <1>7, <1>0 DEF Cancel, OtherWriter, Escape, vars, Ends, FailsWith, Cancels, Polled,
       Commits
<1> QED
  BY <1>1, <1>2, <1>3, <1>4, <1>5, <1>6, <1>7 DEF Next, RunStep

(* Only the two proposal phases poll a provider. *)
LEMMA InvokedKept ==
  ASSUME TypeOK, Positions, [Next]_vars
  PROVE  invoked' \subseteq {"intent", "execution_plan"}
<1>0. invoked \subseteq {"intent", "execution_plan"}
  BY DEF TypeOK
<1>p. ASSUME pc = "poll_provider", Polled
      PROVE  invoked' \subseteq {"intent", "execution_plan"}
  <2>1. Inside(1) \/ Inside(2)
    BY <1>p DEF Positions
  <2>2. open.name \in {"intent", "execution_plan"}
    BY <2>1, Orders DEF Inside
  <2> QED
    BY <1>0, <1>p, <2>2 DEF Polled
<1>1. CASE ProcessInput
  BY <1>1, <1>0, <1>p DEF ProcessInput, EmitQueued, Capture, Bind, EmitStarted,
       SelectTarget, BeforeIntent, Ends, FailsWith, Cancels, Commits
<1>2. CASE ModelCall
  BY <1>2, <1>0, <1>p DEF ModelCall, BuildMessages, PollToken, ProviderPends,
       ProviderFails, ProviderCompletes, Cross, Announce, Ends, FailsWith, Cancels,
       Commits
<1>3. CASE ResolveIntent
  BY <1>3, <1>0, <1>p DEF ResolveIntent, BeginIntent, DeriveIntent, ValidateIntent,
       AfterIntent, Stop, Continue, Ends, FailsWith, Cancels, Commits
<1>4. CASE ExecutionPlan
  BY <1>4, <1>0, <1>p DEF ExecutionPlan, BeginPlan, DerivePlan, CheckPlan, Ends,
       FailsWith, Cancels, Commits
<1>5. CASE CommitTail
  BY <1>5, <1>0, <1>p DEF CommitTail, BeginPatch, PreparePatch, EmitDryRun,
       BeforeDryRun, Rehearse, BeginCommit, BeforeCommit, CommitScene, CommitPlain,
       CommitRefused, CommitLive, Ends, FailsWith, Cancels, Commits
<1>6. CASE Finish
  BY <1>6, <1>0, <1>p DEF Finish, CloseRecord, EmitTerminal, Return, Ends, FailsWith,
       Cancels, Commits
<1>7. CASE Cancel \/ OtherWriter \/ Escape \/ UNCHANGED vars
  BY <1>7, <1>0, <1>p DEF Cancel, OtherWriter, Escape, vars, Ends, FailsWith, Cancels,
       Commits
<1> QED
  BY <1>1, <1>2, <1>3, <1>4, <1>5, <1>6, <1>7 DEF Next, RunStep

(* Together: every step keeps the types. *)
LEMMA TypesKept ==
  ASSUME TypeOK, Positions, Sealed, Lineage, [Next]_vars
  PROVE  TypeOK'
  BY PointsKept, StepsKept, OpenKept, ProgressKept, ScenesKept, EndingKept, RequestKept, InvokedKept
     DEF TypeOK

-----------------------------------------------------------------------------
(* Every step keeps the record coherent *)

(* The record grows by the steps the points open and close. *)
LEMMA PositionsKept ==
  ASSUME TypeOK, Positions, [Next]_vars
  PROVE  Positions'
<1>0. open \in Open \cup {Nothing} /\ Len(steps) \in Nat
  BY DEF TypeOK
<1>c. \A status, call : ClosesWith(status, call) => Len(steps') = Len(steps) + 1 /\ open' = Nothing
  BY DEF ClosesWith, TypeOK
<1>o. \A name \in StepNames :
        Opens(name) => open' # Nothing /\ open'.name = name /\ Len(steps') = Len(steps)
  BY Opening
<1>k. open # Nothing /\ open' = [open EXCEPT !.call = "accepted"] =>
        open' # Nothing /\ open'.name = open.name
  BY <1>0, NothingAssumption DEF Open
<1>1. CASE ProcessInput
  <2>1. CASE EmitQueued
    BY <2>1, <1>0, <1>c, <1>o, <1>k, Orders DEF EmitQueued, Positions, Between, Inside,
         Ends, FailsWith, Cancels, Polled, Commits, ForIntent
  <2>2. CASE Capture
    <3>1. pc' = "bind" /\ Inside(0)'
      <4>1. Opens("process_input") /\ Between(0) /\ pc' = "bind"
        BY <2>2 DEF Capture, Positions
      <4>2. open' # Nothing /\ open'.name = StepOrder[1] /\ Len(steps') = 0
        BY <1>o, <4>1, Orders DEF Between
      <4> QED
        BY <4>1, <4>2 DEF Inside
    <3> QED
      BY <3>1 DEF Positions
  <2>3. CASE Bind
    BY <2>3, <1>0, <1>c, <1>o, <1>k, Orders DEF Bind, Positions, Between, Inside, Ends,
         FailsWith, Cancels, Polled, Commits, ForIntent
  <2>4. CASE EmitStarted
    BY <2>4, <1>0, <1>c, <1>o, <1>k, Orders DEF EmitStarted, Positions, Between, Inside,
         Ends, FailsWith, Cancels, Polled, Commits, ForIntent
  <2>5. CASE SelectTarget
    BY <2>5, <1>0, <1>c, <1>o, <1>k, Orders DEF SelectTarget, Positions, Between,
         Inside, Ends, FailsWith, Cancels, Polled, Commits, ForIntent
  <2>6. CASE BeforeIntent
    BY <2>6, <1>0, <1>c, <1>o, <1>k, Orders DEF BeforeIntent, Positions, Between,
         Inside, Ends, FailsWith, Cancels, Polled, Commits, ForIntent
  <2> QED
    BY <1>1, <2>1, <2>2, <2>3, <2>4, <2>5, <2>6 DEF ProcessInput
<1>2. CASE ModelCall
  BY <1>2, <1>0, <1>c, <1>o, <1>k, Orders DEF ModelCall, BuildMessages, PollToken,
       ProviderPends, ProviderFails, ProviderCompletes, Cross, Announce, Positions,
       Between, Inside, Ends, FailsWith, Cancels, Polled, Commits, ForIntent
<1>3. CASE ResolveIntent
  <2>1. CASE BeginIntent
    BY <2>1, <1>0, <1>c, <1>o, <1>k, Orders DEF BeginIntent, Positions, Between, Inside,
         Ends, FailsWith, Cancels, Polled, Commits, ForIntent
  <2>2. CASE DeriveIntent
    BY <2>2, <1>0, <1>c, <1>o, <1>k, Orders DEF DeriveIntent, Positions, Between,
         Inside, Ends, FailsWith, Cancels, Polled, Commits, ForIntent
  <2>3. CASE ValidateIntent
    BY <2>3, <1>0, <1>c, <1>o, <1>k, Orders DEF ValidateIntent, Positions, Between,
         Inside, Ends, FailsWith, Cancels, Polled, Commits, ForIntent
  <2>4. CASE AfterIntent
    BY <2>4, <1>0, <1>c, <1>o, <1>k, Orders DEF AfterIntent, Positions, Between, Inside,
         Ends, FailsWith, Cancels, Polled, Commits, ForIntent
  <2>5. CASE Stop
    BY <2>5, <1>0, <1>c, <1>o, <1>k, Orders DEF Stop, Positions, Between, Inside, Ends,
         FailsWith, Cancels, Polled, Commits, ForIntent
  <2>6. CASE Continue
    <3>1. CASE pc' = "record"
      BY <3>1 DEF Positions
    <3>2. CASE pc' = "plan" /\ ClosesWith("success", open.call)
      <4>1. Inside(1)
        BY <2>6 DEF Continue, Positions
      <4>2. Between(2)'
        BY <1>0, <1>c, <3>2, <4>1 DEF Between, Inside
      <4> QED
        BY <3>2, <4>2 DEF Positions
    <3> QED
      BY <2>6, <3>1, <3>2 DEF Continue, FailsWith, Ends
  <2> QED
    BY <1>3, <2>1, <2>2, <2>3, <2>4, <2>5, <2>6 DEF ResolveIntent
<1>4. CASE ExecutionPlan
  <2>1. CASE BeginPlan
    BY <2>1, <1>0, <1>c, <1>o, <1>k, Orders DEF BeginPlan, Positions, Between, Inside,
         Ends, FailsWith, Cancels, Polled, Commits, ForIntent
  <2>2. CASE DerivePlan
    BY <2>2, <1>0, <1>c, <1>o, <1>k, Orders DEF DerivePlan, Positions, Between, Inside,
         Ends, FailsWith, Cancels, Polled, Commits, ForIntent
  <2>3. CASE CheckPlan
    <3>1. CASE pc' = "record"
      BY <3>1 DEF Positions
    <3>2. CASE pc' = "patch" /\ ClosesWith("success", open.call)
      <4>1. Inside(2)
        BY <2>3 DEF CheckPlan, Positions
      <4>2. Between(3)'
        BY <1>0, <1>c, <3>2, <4>1 DEF Between, Inside
      <4> QED
        BY <3>2, <4>2 DEF Positions
    <3> QED
      BY <2>3, <3>1, <3>2 DEF CheckPlan, FailsWith, Ends
  <2> QED
    BY <1>4, <2>1, <2>2, <2>3 DEF ExecutionPlan
<1>5. CASE CommitTail
  <2>1. CASE BeginPatch
    BY <2>1, <1>0, <1>c, <1>o, <1>k, Orders DEF BeginPatch, Positions, Between, Inside,
         Ends, FailsWith, Cancels, Polled, Commits, ForIntent
  <2>2. CASE PreparePatch
    BY <2>2, <1>0, <1>c, <1>o, <1>k, Orders DEF PreparePatch, Positions, Between,
         Inside, Ends, FailsWith, Cancels, Polled, Commits, ForIntent
  <2>3. CASE EmitDryRun
    BY <2>3, <1>0, <1>c, <1>o, <1>k, Orders DEF EmitDryRun, Positions, Between, Inside,
         Ends, FailsWith, Cancels, Polled, Commits, ForIntent
  <2>4. CASE BeforeDryRun
    BY <2>4, <1>0, <1>c, <1>o, <1>k, Orders DEF BeforeDryRun, Positions, Between,
         Inside, Ends, FailsWith, Cancels, Polled, Commits, ForIntent
  <2>5. CASE Rehearse
    <3>1. CASE pc' = "record"
      BY <3>1 DEF Positions
    <3>2. CASE pc' = "commit" /\ ClosesWith("success", open.call)
      <4>1. Inside(3)
        BY <2>5 DEF Rehearse, Positions
      <4>2. Between(4)'
        BY <1>0, <1>c, <3>2, <4>1 DEF Between, Inside
      <4> QED
        BY <3>2, <4>2 DEF Positions
    <3> QED
      BY <2>5, <3>1, <3>2 DEF Rehearse, FailsWith, Ends
  <2>6. CASE BeginCommit
    BY <2>6, <1>0, <1>c, <1>o, <1>k, Orders DEF BeginCommit, Positions, Between, Inside,
         Ends, FailsWith, Cancels, Polled, Commits, ForIntent
  <2>7. CASE BeforeCommit
    BY <2>7, <1>0, <1>c, <1>o, <1>k, Orders DEF BeforeCommit, Positions, Between,
         Inside, Ends, FailsWith, Cancels, Polled, Commits, ForIntent
  <2>8. CASE CommitPlain
    BY <2>8, <1>0, <1>c, <1>o, <1>k, Orders DEF CommitPlain, Positions, Between, Inside,
         Ends, FailsWith, Cancels, Polled, Commits, ForIntent
  <2>9. CASE CommitRefused
    BY <2>9, <1>0, <1>c, <1>o, <1>k, Orders DEF CommitRefused, Positions, Between,
         Inside, Ends, FailsWith, Cancels, Polled, Commits, ForIntent
  <2>10. CASE CommitLive
    BY <2>10, <1>0, <1>c, <1>o, <1>k, Orders DEF CommitLive, Positions, Between, Inside,
         Ends, FailsWith, Cancels, Polled, Commits, ForIntent
  <2> QED
    BY <1>5, <2>1, <2>2, <2>3, <2>4, <2>5, <2>6, <2>7, <2>8, <2>9, <2>10 DEF
         CommitTail, CommitScene
<1>6. CASE Finish
  BY <1>6, <1>0, <1>c, <1>o, <1>k, Orders DEF Finish, CloseRecord, EmitTerminal, Return,
       Positions, Between, Inside, Ends, FailsWith, Cancels, Polled, Commits, ForIntent
<1>7. CASE Cancel \/ OtherWriter \/ Escape \/ UNCHANGED vars
  BY <1>7, <1>0, <1>c, <1>o, <1>k, Orders DEF Cancel, OtherWriter, Escape, vars,
       Positions, Between, Inside, Ends, FailsWith, Cancels, Polled, Commits, ForIntent
<1> QED
  BY <1>1, <1>2, <1>3, <1>4, <1>5, <1>6, <1>7 DEF Next, RunStep

(* Only endings close a step as anything but a success. *)
LEMMA UnsealedKept ==
  ASSUME TypeOK, Positions, Unsealed, [Next]_vars
  PROVE  Unsealed'
<1>c. ASSUME NEW status \in Terminal, NEW call \in CallEvidence, pc \in Unfinished \ Bare,
             ClosesWith(status, call)
      PROVE  status = "success" => InPlace'
  BY <1>c, OpenStep, ClosingInPlace DEF TypeOK, Unsealed
<1>o. \A name \in StepNames : Opens(name) => UNCHANGED <<steps, after>>
  BY Opening
<1>u. UNCHANGED steps => (InPlace' <=> InPlace)
  BY DEF InPlace
<1>0. pc \in Running \cup Finished
  BY DEF TypeOK
<1>1. CASE ProcessInput
  BY <1>1, <1>0, <1>c, <1>o, <1>u, OpenStep, Orders DEF ProcessInput, EmitQueued,
       Capture, Bind, EmitStarted, SelectTarget, BeforeIntent, Unsealed, Terminal,
       CallEvidence, Ends, FailsWith, Cancels, Polled, Commits
<1>2. CASE ModelCall
  BY <1>2, <1>0, <1>c, <1>o, <1>u, OpenStep, Orders DEF ModelCall, BuildMessages,
       PollToken, ProviderPends, ProviderFails, ProviderCompletes, Cross, Announce,
       Unsealed, Terminal, CallEvidence, Ends, FailsWith, Cancels, Polled, Commits
<1>3. CASE ResolveIntent
  BY <1>3, <1>0, <1>c, <1>o, <1>u, OpenStep, Orders DEF ResolveIntent, BeginIntent,
       DeriveIntent, ValidateIntent, AfterIntent, Stop, Continue, Unsealed, Terminal,
       CallEvidence, Ends, FailsWith, Cancels, Polled, Commits
<1>4. CASE ExecutionPlan
  BY <1>4, <1>0, <1>c, <1>o, <1>u, OpenStep, Orders DEF ExecutionPlan, BeginPlan,
       DerivePlan, CheckPlan, Unsealed, Terminal, CallEvidence, Ends, FailsWith,
       Cancels, Polled, Commits
<1>5. CASE CommitTail
  BY <1>5, <1>0, <1>c, <1>o, <1>u, OpenStep, Orders DEF CommitTail, BeginPatch,
       PreparePatch, EmitDryRun, BeforeDryRun, Rehearse, BeginCommit, BeforeCommit,
       CommitScene, CommitPlain, CommitRefused, CommitLive, Unsealed, Terminal,
       CallEvidence, Ends, FailsWith, Cancels, Polled, Commits
<1>6. CASE Finish
  BY <1>6, <1>0, <1>c, <1>o, <1>u, OpenStep, Orders DEF Finish, CloseRecord,
       EmitTerminal, Return, Unsealed, Terminal, CallEvidence, Ends, FailsWith, Cancels,
       Polled, Commits
<1>7. CASE Cancel \/ OtherWriter \/ Escape \/ UNCHANGED vars
  BY <1>7, <1>0, <1>c, <1>o, <1>u, OpenStep, Orders DEF Cancel, OtherWriter, Escape,
       vars, Unsealed, Terminal, CallEvidence, Ends, FailsWith, Cancels, Polled, Commits
<1> QED
  BY <1>1, <1>2, <1>3, <1>4, <1>5, <1>6, <1>7 DEF Next, RunStep

(* An ending that closes the open step seals a coherent record. *)
LEMMA SealsWith ==
  ASSUME TypeOK, Positions, Unsealed, pc \in Unfinished \ Bare,
         NEW outcome \in Terminal, NEW call \in CallEvidence, NEW stage \in Stages,
         NEW scene \in Scene, NEW checkpoint \in Checkpoints \cup {Nothing},
         ClosesWith(outcome, call), Ends(outcome, stage, scene, checkpoint),
         (checkpoint # Nothing) <=> (outcome = "cancelled"),
         stage \in StagesOf(outcome, open.name), UNCHANGED base,
         \/ outcome # "success" /\ UNCHANGED after
         \/ outcome = "success" /\ open.name = "intent" /\ after' = base.revision
         \/ outcome = "success" /\ open.name = "commit" /\ after' \in base.revision..MaxRevision
  PROVE  Sealed'
<1>0. /\ steps \in Seq(Step) /\ open \in Open
      /\ open.name = StepOrder[Len(steps) + 1] /\ InPlace /\ after = Nothing
  BY OpenStep DEF TypeOK, Unsealed
<1>1. ending' = [outcome |-> outcome, stage |-> stage, scene |-> scene, checkpoint |-> checkpoint]
  BY DEF Ends
<1>2. ending' # Nothing
  BY <1>1, NothingAssumption DEF Ending
<1>3. CancellationMatchesOutcome'
  BY <1>1 DEF CancellationMatchesOutcome
<1>4. TransitionMatchesPath'
  BY <1>0, <1>1, ClosingInPlace DEF TransitionMatchesPath, Terminal
<1>5. RunRecordCoherent'
  BY <1>0, <1>1, <1>4, ClosingInPlace DEF RunRecordCoherent, FinalStepMatchesOutcome
<1>6. ResultStageCoherent'
  BY <1>0, <1>1, ClosingInPlace DEF ResultStageCoherent
<1> QED
  BY <1>2, <1>3, <1>5, <1>6 DEF Sealed

(* The checkpoint between two steps seals the record with its first step. *)
LEMMA SealsBetween ==
  ASSUME TypeOK, Positions, Unsealed, At("before_intent"), UNCHANGED <<base, steps, after>>,
         Ends("cancelled", "started", base, "before_intent")
  PROVE  Sealed'
<1>1. ending' = [outcome |-> "cancelled", stage |-> "started", scene |-> base,
                 checkpoint |-> "before_intent"]
  BY DEF Ends
<1>2. steps \in Seq(Step) /\ Len(steps) = 1 /\ after = Nothing /\ InPlace
  BY DEF TypeOK, Positions, Between, Unsealed
<1>3. DOMAIN steps = 1..1 /\ steps # <<>> /\ LastStep' = steps[1]
  BY <1>2 DEF LastStep
<1>4. steps[1].name = "process_input" /\ steps[1].status = "success"
  BY <1>2, <1>3, Orders DEF InPlace
<1>5. "before_intent" # Nothing /\ ending' # Nothing
  <2>1. base \in Scene
    BY DEF TypeOK
  <2> QED
    BY <1>1, <2>1, Orders, NothingAssumption DEF Ending, Terminal, Checkpoints
<1>6. CancellationMatchesOutcome'
  BY <1>1, <1>5 DEF CancellationMatchesOutcome
<1>7. RunRecordCoherent'
  BY <1>1, <1>2, <1>3, <1>4
     DEF RunRecordCoherent, FinalStepMatchesOutcome, TransitionMatchesPath, InPlace
<1>8. ResultStageCoherent'
  BY <1>1, <1>3, <1>4, StageTable DEF ResultStageCoherent
<1> QED
  BY <1>5, <1>6, <1>7, <1>8 DEF Sealed

(* Every ending seals a coherent record, and nothing breaks the seal. *)
LEMMA SealedKept ==
  ASSUME TypeOK, Positions, Unsealed, Sealed, Lineage, [Next]_vars
  PROVE  Sealed'
<1>0. pc \in Running \cup Finished /\ base \in Scene
  BY DEF TypeOK
<1>f. ASSUME NEW call \in CallEvidence, NEW stage \in Stages, pc \in Unfinished \ Bare,
             stage \in StagesOf("failure", open.name), FailsWith(call, stage)
      PROVE  Sealed'
  BY <1>0, <1>f, SealsWith DEF FailsWith, Terminal
<1>x. ASSUME NEW stage \in Stages, NEW checkpoint \in Checkpoints, pc \in Unfinished \ Bare,
             stage \in StagesOf("cancelled", open.name), Cancels(stage, checkpoint)
      PROVE  Sealed'
  BY <1>0, <1>x, OpenStep, SealsWith, NothingAssumption DEF Cancels, Terminal
<1>p. UNCHANGED <<steps, after, ending, base>> /\ pc \in Sealing => Sealed'
  BY DEF Sealed, CancellationMatchesOutcome, RunRecordCoherent, ResultStageCoherent,
         FinalStepMatchesOutcome, TransitionMatchesPath, LastStep
<1>q. pc' \notin Sealing => Sealed'
  BY DEF Sealed
<1>y. ASSUME NEW scene \in Scene, base.revision <= scene.revision, pc = "commit_scene",
             open.name = "commit", Commits(scene)
      PROVE  Sealed'
  <2>1. after' \in base.revision..MaxRevision
    BY <1>0, <1>y, RevisionAssumption DEF Commits, Scene
  <2> QED
    BY <1>y, <2>1, OpenStep, SealsWith, Orders, StageTable DEF Commits, Terminal
<1>n. /\ pc = "select" => open.name = "process_input"
      /\ pc \in InIntent => open.name = "intent"
      /\ pc \in CallPoints => open.name \in {"intent", "execution_plan"}
      /\ pc \in InPlan => open.name = "execution_plan"
      /\ pc \in InPatch => open.name = "patch"
      /\ pc \in {"before_commit", "commit_scene"} => open.name = "commit"
  BY Orders DEF Positions, Inside
<1>1. CASE ProcessInput
  <2>1. CASE EmitQueued
    BY <2>1, <1>0, <1>f, <1>p, <1>q, <1>x, <1>n, OpenStep, Orders, StageTable DEF
         EmitQueued
  <2>2. CASE Capture
    BY <2>2, <1>0, <1>f, <1>p, <1>q, <1>x, <1>n, OpenStep, Orders, StageTable DEF
         Capture
  <2>3. CASE Bind
    BY <2>3, <1>0, <1>f, <1>p, <1>q, <1>x, <1>n, OpenStep, Orders, StageTable DEF Bind
  <2>4. CASE EmitStarted
    BY <2>4, <1>0, <1>f, <1>p, <1>q, <1>x, <1>n, OpenStep, Orders, StageTable DEF
         EmitStarted
  <2>5. CASE SelectTarget
    BY <2>5, <1>0, <1>f, <1>p, <1>q, <1>x, <1>n, OpenStep, Orders, StageTable DEF
         SelectTarget
  <2>6. CASE BeforeIntent
    BY <2>6, SealsBetween, <1>0, <1>f, <1>p, <1>q, <1>x, <1>n, OpenStep, Orders,
         StageTable DEF BeforeIntent, Terminal
  <2> QED
    BY <1>1, <2>1, <2>2, <2>3, <2>4, <2>5, <2>6 DEF ProcessInput
<1>2. CASE ModelCall
  <2>1. CASE BuildMessages
    BY <2>1, <1>0, <1>f, <1>p, <1>q, <1>x, <1>n, OpenStep, Orders, StageTable DEF
         BuildMessages, CallStage, ForIntent
  <2>2. CASE PollToken
    BY <2>2, SealsWith, NothingAssumption, <1>0, <1>f, <1>p, <1>q, <1>x, <1>n, OpenStep,
         Orders, StageTable DEF PollToken, CallStage, ForIntent, Terminal, CallEvidence,
         Checkpoints
  <2>3. CASE ProviderPends
    BY <2>3, <1>0, <1>f, <1>p, <1>q, <1>x, <1>n, OpenStep, Orders, StageTable DEF
         ProviderPends
  <2>4. CASE ProviderFails
    BY <2>4, SealsWith, <1>0, <1>f, <1>p, <1>q, <1>x, <1>n, OpenStep, Orders, StageTable
         DEF ProviderFails, CallStage, ForIntent, Terminal, CallEvidence
  <2>5. CASE ProviderCompletes
    BY <2>5, <1>0, <1>f, <1>p, <1>q, <1>x, <1>n, OpenStep, Orders, StageTable DEF
         ProviderCompletes
  <2>6. CASE Cross
    BY <2>6, <1>0, <1>f, <1>p, <1>q, <1>x, <1>n, OpenStep, Orders, StageTable DEF Cross,
         CallStage, ForIntent, CallEvidence
  <2>7. CASE Announce
    BY <2>7, <1>0, <1>f, <1>p, <1>q, <1>x, <1>n, OpenStep, Orders, StageTable DEF
         Announce
  <2> QED
    BY <1>2, <2>1, <2>2, <2>3, <2>4, <2>5, <2>6, <2>7 DEF ModelCall
<1>3. CASE ResolveIntent
  <2>1. CASE BeginIntent
    BY <2>1, <1>0, <1>f, <1>p, <1>q, <1>x, <1>n, OpenStep, Orders, StageTable DEF
         BeginIntent
  <2>2. CASE DeriveIntent
    BY <2>2, <1>0, <1>f, <1>p, <1>q, <1>x, <1>n, OpenStep, Orders, StageTable DEF
         DeriveIntent
  <2>3. CASE ValidateIntent
    BY <2>3, <1>0, <1>f, <1>p, <1>q, <1>x, <1>n, OpenStep, Orders, StageTable DEF
         ValidateIntent
  <2>4. CASE AfterIntent
    BY <2>4, <1>0, <1>f, <1>p, <1>q, <1>x, <1>n, OpenStep, Orders, StageTable DEF
         AfterIntent, Checkpoints
  <2>5. CASE Stop
    BY <2>5, SealsWith, <1>0, <1>f, <1>p, <1>q, <1>x, <1>n, OpenStep, Orders, StageTable
         DEF Stop, Terminal
  <2>6. CASE Continue
    BY <2>6, <1>0, <1>f, <1>p, <1>q, <1>x, <1>n, OpenStep, Orders, StageTable DEF
         Continue
  <2> QED
    BY <1>3, <2>1, <2>2, <2>3, <2>4, <2>5, <2>6 DEF ResolveIntent
<1>4. CASE ExecutionPlan
  BY <1>4, <1>0, <1>f, <1>p, <1>q, <1>x, <1>n, OpenStep, Orders, StageTable DEF
       ExecutionPlan, BeginPlan, DerivePlan, CheckPlan
<1>5. CASE CommitTail
  <2>1. CASE BeginPatch
    BY <2>1, <1>0, <1>f, <1>p, <1>q, <1>x, <1>n, OpenStep, Orders, StageTable DEF
         BeginPatch
  <2>2. CASE PreparePatch
    BY <2>2, <1>0, <1>f, <1>p, <1>q, <1>x, <1>n, OpenStep, Orders, StageTable DEF
         PreparePatch
  <2>3. CASE EmitDryRun
    BY <2>3, <1>0, <1>f, <1>p, <1>q, <1>x, <1>n, OpenStep, Orders, StageTable DEF
         EmitDryRun
  <2>4. CASE BeforeDryRun
    BY <2>4, <1>0, <1>f, <1>p, <1>q, <1>x, <1>n, OpenStep, Orders, StageTable DEF
         BeforeDryRun, Checkpoints
  <2>5. CASE Rehearse
    BY <2>5, <1>0, <1>f, <1>p, <1>q, <1>x, <1>n, OpenStep, Orders, StageTable DEF
         Rehearse
  <2>6. CASE BeginCommit
    BY <2>6, <1>0, <1>f, <1>p, <1>q, <1>x, <1>n, OpenStep, Orders, StageTable DEF
         BeginCommit
  <2>7. CASE BeforeCommit
    BY <2>7, <1>0, <1>f, <1>p, <1>q, <1>x, <1>n, OpenStep, Orders, StageTable DEF
         BeforeCommit, Checkpoints
  <2>8. CASE CommitPlain
    BY <2>8, <1>n, <1>y, CommitsScene DEF CommitPlain
  <2>9. CASE CommitRefused
    BY <2>9, <1>0, <1>f, <1>p, <1>q, <1>x, <1>n, OpenStep, Orders, StageTable DEF
         CommitRefused
  <2>10. CASE CommitLive
    BY <2>10, <1>n, <1>y, CommitsScene DEF CommitLive
  <2> QED
    BY <1>5, <2>1, <2>2, <2>3, <2>4, <2>5, <2>6, <2>7, <2>8, <2>9, <2>10 DEF
         CommitTail, CommitScene
<1>6. CASE Finish
  BY <1>6, <1>0, <1>f, <1>p, <1>q, <1>x, <1>n, OpenStep, Orders, StageTable DEF Finish,
       CloseRecord, EmitTerminal, Return
<1>7. CASE Cancel \/ OtherWriter \/ Escape \/ UNCHANGED vars
  BY <1>7, <1>0, <1>f, <1>p, <1>q, <1>x, <1>n, OpenStep, Orders, StageTable DEF Cancel,
       OtherWriter, Escape, vars
<1> QED
  BY <1>1, <1>2, <1>3, <1>4, <1>5, <1>6, <1>7 DEF Next, RunStep

-----------------------------------------------------------------------------
(* Every step keeps the Scenes, the result and the progress together *)

(* The live Scene never falls behind the captured one. *)
LEMMA LineageKept ==
  ASSUME TypeOK, Lineage, AllOrNothing, Unsealed, [Next]_vars
  PROVE  Lineage'
<1>0. live \in Scene /\ base \in Scene /\ pc \in Running \cup Finished
  BY DEF TypeOK
<1>1. CASE Capture
  BY <1>1, <1>0 DEF Capture, Lineage, AllOrNothing, Unsealed, Committed, Concluded, Scene
<1>2. CASE CommitLive
  BY <1>2, <1>0 DEF CommitLive, Commits, Lineage, Scene
<1>3. CASE OtherWriter
  BY <1>3, <1>0 DEF OtherWriter, Lineage, Scene
<1>4. CASE UNCHANGED <<base, live>>
  BY <1>4 DEF Lineage
<1>5. [Next]_vars => Capture \/ CommitLive \/ OtherWriter \/ UNCHANGED <<base, live>>
  BY DEF Next, RunStep, Cancel, Escape, vars, ProcessInput, ModelCall, ResolveIntent,
       ExecutionPlan, CommitTail, Finish, EmitQueued, Bind, EmitStarted, SelectTarget,
       BeforeIntent, BuildMessages, PollToken, ProviderPends, ProviderFails,
       ProviderCompletes, Cross, Announce, BeginIntent, DeriveIntent, ValidateIntent,
       AfterIntent, Stop, Continue, BeginPlan, DerivePlan, CheckPlan, BeginPatch,
       PreparePatch, EmitDryRun, BeforeDryRun, Rehearse, BeginCommit, BeforeCommit,
       CommitScene, CommitPlain, CommitRefused, CloseRecord, EmitTerminal, Return, Ends,
       FailsWith, Cancels, Polled, Commits
<1> QED
  BY <1>1, <1>2, <1>3, <1>4, <1>5

(* Only a commit installs the Patch, and it concludes the Run. *)
LEMMA AllOrNothingKept ==
  ASSUME TypeOK, Unsealed, Sealed, Lineage, AllOrNothing, [Next]_vars
  PROVE  AllOrNothing'
<1>0. /\ live \in Scene /\ base \in Scene /\ pc \in Running \cup Finished
      /\ after \in 0..MaxRevision \cup {Nothing} /\ ending \in Ending \cup {Nothing}
  BY DEF TypeOK
<1>e. \A outcome, stage, scene, checkpoint :
        Ends(outcome, stage, scene, checkpoint) =>
          /\ ending'.outcome = outcome /\ ending'.stage = stage /\ ending'.scene = scene
  BY DEF Ends
<1>i. pc \in Unfinished => ~live.patched
  BY DEF AllOrNothing, Unsealed, Committed, Concluded
<1>1. CASE ProcessInput
  BY <1>1, <1>0, <1>e, <1>i, NothingAssumption, RevisionAssumption DEF ProcessInput,
       EmitQueued, Capture, Bind, EmitStarted, SelectTarget, BeforeIntent, AllOrNothing,
       Unsealed, Committed, Concluded, FailsWith, Cancels, Commits, Scene
<1>2. CASE ModelCall
  BY <1>2, <1>0, <1>e, <1>i, NothingAssumption, RevisionAssumption DEF ModelCall,
       BuildMessages, PollToken, ProviderPends, ProviderFails, ProviderCompletes, Cross,
       Announce, AllOrNothing, Unsealed, Committed, Concluded, FailsWith, Cancels,
       Commits, Scene
<1>3. CASE ResolveIntent
  BY <1>3, <1>0, <1>e, <1>i, NothingAssumption, RevisionAssumption DEF ResolveIntent,
       BeginIntent, DeriveIntent, ValidateIntent, AfterIntent, Stop, Continue,
       AllOrNothing, Unsealed, Committed, Concluded, FailsWith, Cancels, Commits, Scene
<1>4. CASE ExecutionPlan
  BY <1>4, <1>0, <1>e, <1>i, NothingAssumption, RevisionAssumption DEF ExecutionPlan,
       BeginPlan, DerivePlan, CheckPlan, AllOrNothing, Unsealed, Committed, Concluded,
       FailsWith, Cancels, Commits, Scene
<1>5. CASE CommitTail
  <2>1. CASE BeginPatch
    BY <2>1, <1>0, <1>e, <1>i, NothingAssumption, RevisionAssumption DEF BeginPatch,
         AllOrNothing, Unsealed, Committed, Concluded, FailsWith, Cancels, Commits,
         Scene
  <2>2. CASE PreparePatch
    BY <2>2, <1>0, <1>e, <1>i, NothingAssumption, RevisionAssumption DEF PreparePatch,
         AllOrNothing, Unsealed, Committed, Concluded, FailsWith, Cancels, Commits,
         Scene
  <2>3. CASE EmitDryRun
    BY <2>3, <1>0, <1>e, <1>i, NothingAssumption, RevisionAssumption DEF EmitDryRun,
         AllOrNothing, Unsealed, Committed, Concluded, FailsWith, Cancels, Commits,
         Scene
  <2>4. CASE BeforeDryRun
    BY <2>4, <1>0, <1>e, <1>i, NothingAssumption, RevisionAssumption DEF BeforeDryRun,
         AllOrNothing, Unsealed, Committed, Concluded, FailsWith, Cancels, Commits,
         Scene
  <2>5. CASE Rehearse
    BY <2>5, <1>0, <1>e, <1>i, NothingAssumption, RevisionAssumption DEF Rehearse,
         AllOrNothing, Unsealed, Committed, Concluded, FailsWith, Cancels, Commits,
         Scene
  <2>6. CASE BeginCommit
    BY <2>6, <1>0, <1>e, <1>i, NothingAssumption, RevisionAssumption DEF BeginCommit,
         AllOrNothing, Unsealed, Committed, Concluded, FailsWith, Cancels, Commits,
         Scene
  <2>7. CASE BeforeCommit
    BY <2>7, <1>0, <1>e, <1>i, NothingAssumption, RevisionAssumption DEF BeforeCommit,
         AllOrNothing, Unsealed, Committed, Concluded, FailsWith, Cancels, Commits,
         Scene
  <2>8. CASE CommitPlain
    BY <2>8, <1>0, <1>e, <1>i, NothingAssumption, RevisionAssumption DEF CommitPlain,
         AllOrNothing, Unsealed, Committed, Concluded, FailsWith, Cancels, Commits,
         Scene
  <2>9. CASE CommitRefused
    BY <2>9, <1>0, <1>e, <1>i, NothingAssumption, RevisionAssumption DEF CommitRefused,
         AllOrNothing, Unsealed, Committed, Concluded, FailsWith, Cancels, Commits,
         Scene
  <2>10. CASE CommitLive
    <3> DEFINE installed == [revision |-> live.revision + 1, patched |-> TRUE]
    <3>1. live' = installed /\ config.source = "live" /\ Commits(installed)
      BY <2>10 DEF CommitLive
    <3>2. /\ UNCHANGED <<config, base>> /\ after' = live'.revision
          /\ ending' = [outcome |-> "success", stage |-> "commit", scene |-> live', checkpoint |-> Nothing]
      BY <3>1 DEF Commits, Ends
    <3>3. ending' # Nothing
      <4>1. installed \in Scene
        BY <1>0, <2>10, RevisionAssumption DEF CommitLive, Scene
      <4>2. live' \in Scene
        BY <3>1, <4>1
      <4> QED
        BY <3>2, <4>2, Orders, NothingAssumption DEF Ending, Terminal
    <3>4. after' \in (base'.revision + 1)..live'.revision
      BY <1>0, <3>1, <3>2 DEF Lineage, Scene
    <3> QED
      BY <3>1, <3>2, <3>3, <3>4 DEF AllOrNothing, Committed, Concluded
  <2> QED
    BY <1>5, <2>1, <2>2, <2>3, <2>4, <2>5, <2>6, <2>7, <2>8, <2>9, <2>10 DEF
         CommitTail, CommitScene
<1>6. CASE Finish
  BY <1>6, <1>0, <1>e, <1>i, NothingAssumption, RevisionAssumption DEF Finish,
       CloseRecord, EmitTerminal, Return, AllOrNothing, Unsealed, Committed, Concluded,
       FailsWith, Cancels, Commits, Scene
<1>7. CASE Cancel \/ OtherWriter \/ Escape \/ UNCHANGED vars
  BY <1>7, <1>0, <1>e, <1>i, NothingAssumption, RevisionAssumption DEF Cancel,
       OtherWriter, Escape, vars, AllOrNothing, Unsealed, Committed, Concluded,
       FailsWith, Cancels, Commits, Scene
<1> QED
  BY <1>1, <1>2, <1>3, <1>4, <1>5, <1>6, <1>7 DEF Next, RunStep

(* From the binding on, the progress carries the captured revision. *)
LEMMA BoundKept ==
  ASSUME TypeOK, Bound, [Next]_vars
  PROVE  Bound'
<1>0. /\ progress \in [stage: Stages, status: {"queued", "running"} \cup Terminal,
                        revision: 0..MaxRevision, bound: BOOLEAN]
      /\ pc \in Running \cup Finished
  BY DEF TypeOK
<1>1. CASE ProcessInput
  BY <1>1, <1>0 DEF ProcessInput, EmitQueued, Capture, Bind, EmitStarted, SelectTarget,
       BeforeIntent, Bound, Emit, Ends, FailsWith, Cancels, Polled, Commits
<1>2. CASE ModelCall
  BY <1>2, <1>0 DEF ModelCall, BuildMessages, PollToken, ProviderPends, ProviderFails,
       ProviderCompletes, Cross, Announce, Bound, Emit, Ends, FailsWith, Cancels,
       Polled, Commits
<1>3. CASE ResolveIntent
  BY <1>3, <1>0 DEF ResolveIntent, BeginIntent, DeriveIntent, ValidateIntent,
       AfterIntent, Stop, Continue, Bound, Emit, Ends, FailsWith, Cancels, Polled,
       Commits
<1>4. CASE ExecutionPlan
  BY <1>4, <1>0 DEF ExecutionPlan, BeginPlan, DerivePlan, CheckPlan, Bound, Emit, Ends,
       FailsWith, Cancels, Polled, Commits
<1>5. CASE CommitTail
  BY <1>5, <1>0 DEF CommitTail, BeginPatch, PreparePatch, EmitDryRun, BeforeDryRun,
       Rehearse, BeginCommit, BeforeCommit, CommitScene, CommitPlain, CommitRefused,
       CommitLive, Bound, Emit, Ends, FailsWith, Cancels, Polled, Commits
<1>6. CASE Finish
  BY <1>6, <1>0 DEF Finish, CloseRecord, EmitTerminal, Return, Bound, Emit, Ends,
       FailsWith, Cancels, Polled, Commits
<1>7. CASE Cancel \/ OtherWriter \/ Escape \/ UNCHANGED vars
  BY <1>7, <1>0 DEF Cancel, OtherWriter, Escape, vars, Bound, Emit, Ends, FailsWith,
       Cancels, Polled, Commits
<1> QED
  BY <1>1, <1>2, <1>3, <1>4, <1>5, <1>6, <1>7 DEF Next, RunStep

(* The terminal progress says what the result says. *)
LEMMA ResultKept ==
  ASSUME TypeOK, Sealed, Bound, ResultMatchesProgress, [Next]_vars
  PROVE  ResultMatchesProgress'
<1>0. /\ progress \in [stage: Stages, status: {"queued", "running"} \cup Terminal,
                        revision: 0..MaxRevision, bound: BOOLEAN]
      /\ pc \in Running \cup Finished
  BY DEF TypeOK
<1>1. CASE ProcessInput
  BY <1>1, <1>0 DEF ProcessInput, EmitQueued, Capture, Bind, EmitStarted, SelectTarget,
       BeforeIntent, ResultMatchesProgress, Bound, Emit, Ends, FailsWith, Cancels,
       Polled, Commits
<1>2. CASE ModelCall
  BY <1>2, <1>0 DEF ModelCall, BuildMessages, PollToken, ProviderPends, ProviderFails,
       ProviderCompletes, Cross, Announce, ResultMatchesProgress, Bound, Emit, Ends,
       FailsWith, Cancels, Polled, Commits
<1>3. CASE ResolveIntent
  BY <1>3, <1>0 DEF ResolveIntent, BeginIntent, DeriveIntent, ValidateIntent,
       AfterIntent, Stop, Continue, ResultMatchesProgress, Bound, Emit, Ends, FailsWith,
       Cancels, Polled, Commits
<1>4. CASE ExecutionPlan
  BY <1>4, <1>0 DEF ExecutionPlan, BeginPlan, DerivePlan, CheckPlan,
       ResultMatchesProgress, Bound, Emit, Ends, FailsWith, Cancels, Polled, Commits
<1>5. CASE CommitTail
  BY <1>5, <1>0 DEF CommitTail, BeginPatch, PreparePatch, EmitDryRun, BeforeDryRun,
       Rehearse, BeginCommit, BeforeCommit, CommitScene, CommitPlain, CommitRefused,
       CommitLive, ResultMatchesProgress, Bound, Emit, Ends, FailsWith, Cancels, Polled,
       Commits
<1>6. CASE Finish
  BY <1>6, <1>0 DEF Finish, CloseRecord, EmitTerminal, Return, ResultMatchesProgress,
       Bound, Emit, Ends, FailsWith, Cancels, Polled, Commits
<1>7. CASE Cancel \/ OtherWriter \/ Escape \/ UNCHANGED vars
  BY <1>7, <1>0 DEF Cancel, OtherWriter, Escape, vars, ResultMatchesProgress, Bound,
       Emit, Ends, FailsWith, Cancels, Polled, Commits
<1> QED
  BY <1>1, <1>2, <1>3, <1>4, <1>5, <1>6, <1>7 DEF Next, RunStep

-----------------------------------------------------------------------------
(* Every step honours a cancellation, and keeps the evidence of calls *)

(* No step carries a Run past the checkpoint that follows its request. *)
LEMMA RequestsKept ==
  ASSUME TypeOK, Positions, Requests, [Next]_vars
  PROVE  Requests'
<1>0. /\ pc \in Running \cup Finished /\ requested \in Running \cup {Nothing}
      /\ open \in Open \cup {Nothing}
  BY DEF TypeOK
<1>c. \A status, call : ClosesWith(status, call) => open' = Nothing
  BY DEF ClosesWith
<1>o. \A name \in StepNames :
        Opens(name) => open' # Nothing /\ open'.name = name /\ open'.call = "none"
  BY Opening
<1>k. open # Nothing /\ open' = [open EXCEPT !.call = "accepted"] =>
        open' # Nothing /\ open'.name = open.name /\ open'.call = "accepted"
  BY <1>0, NothingAssumption DEF Open
<1>1. CASE ProcessInput
  BY <1>1, <1>0, <1>c, <1>o, <1>k, Orders, NothingAssumption DEF ProcessInput,
       EmitQueued, Capture, Bind, EmitStarted, SelectTarget, BeforeIntent, Requests,
       Positions, Inside, Between, ForIntent, Ends, FailsWith, Cancels, Polled, Commits
<1>2. CASE ModelCall
  BY <1>2, <1>0, <1>c, <1>o, <1>k, Orders, NothingAssumption DEF ModelCall,
       BuildMessages, PollToken, ProviderPends, ProviderFails, ProviderCompletes, Cross,
       Announce, Requests, Positions, Inside, Between, ForIntent, Ends, FailsWith,
       Cancels, Polled, Commits
<1>3. CASE ResolveIntent
  BY <1>3, <1>0, <1>c, <1>o, <1>k, Orders, NothingAssumption DEF ResolveIntent,
       BeginIntent, DeriveIntent, ValidateIntent, AfterIntent, Stop, Continue, Requests,
       Positions, Inside, Between, ForIntent, Ends, FailsWith, Cancels, Polled, Commits
<1>4. CASE ExecutionPlan
  BY <1>4, <1>0, <1>c, <1>o, <1>k, Orders, NothingAssumption DEF ExecutionPlan,
       BeginPlan, DerivePlan, CheckPlan, Requests, Positions, Inside, Between,
       ForIntent, Ends, FailsWith, Cancels, Polled, Commits
<1>5. CASE CommitTail
  BY <1>5, <1>0, <1>c, <1>o, <1>k, Orders, NothingAssumption DEF CommitTail, BeginPatch,
       PreparePatch, EmitDryRun, BeforeDryRun, Rehearse, BeginCommit, BeforeCommit,
       CommitScene, CommitPlain, CommitRefused, CommitLive, Requests, Positions, Inside,
       Between, ForIntent, Ends, FailsWith, Cancels, Polled, Commits
<1>6. CASE Finish
  BY <1>6, <1>0, <1>c, <1>o, <1>k, Orders, NothingAssumption DEF Finish, CloseRecord,
       EmitTerminal, Return, Requests, Positions, Inside, Between, ForIntent, Ends,
       FailsWith, Cancels, Polled, Commits
<1>7. CASE Cancel \/ OtherWriter \/ Escape \/ UNCHANGED vars
  BY <1>7, <1>0, <1>c, <1>o, <1>k, Orders, NothingAssumption DEF Cancel, OtherWriter,
       Escape, vars, Requests, Positions, Inside, Between, ForIntent, Ends, FailsWith,
       Cancels, Polled, Commits
<1> QED
  BY <1>1, <1>2, <1>3, <1>4, <1>5, <1>6, <1>7 DEF Next, RunStep

(* A provider is polled only at the points of its own phase. *)
LEMMA PollsKept ==
  ASSUME TypeOK, Positions, Polls, [Next]_vars
  PROVE  Polls'
<1>0. pc \in Running \cup Finished /\ open \in Open \cup {Nothing}
  BY DEF TypeOK
<1>c. \A status, call : ClosesWith(status, call) => open' = Nothing
  BY DEF ClosesWith
<1>o. \A name \in StepNames :
        Opens(name) => open' # Nothing /\ open'.name = name /\ open'.call = "none"
  BY Opening
<1>k. open # Nothing /\ open' = [open EXCEPT !.call = "accepted"] =>
        open' # Nothing /\ open'.name = open.name /\ open'.call = "accepted"
  BY <1>0, NothingAssumption DEF Open
<1>1. CASE ProcessInput
  BY <1>1, <1>0, <1>c, <1>o, <1>k, Orders, NothingAssumption DEF ProcessInput,
       EmitQueued, Capture, Bind, EmitStarted, SelectTarget, BeforeIntent, Polls,
       Positions, Inside, Between, ForIntent, Ends, FailsWith, Cancels, Polled, Commits
<1>2. CASE ModelCall
  BY <1>2, <1>0, <1>c, <1>o, <1>k, Orders, NothingAssumption DEF ModelCall,
       BuildMessages, PollToken, ProviderPends, ProviderFails, ProviderCompletes, Cross,
       Announce, Polls, Positions, Inside, Between, ForIntent, Ends, FailsWith, Cancels,
       Polled, Commits
<1>3. CASE ResolveIntent
  BY <1>3, <1>0, <1>c, <1>o, <1>k, Orders, NothingAssumption DEF ResolveIntent,
       BeginIntent, DeriveIntent, ValidateIntent, AfterIntent, Stop, Continue, Polls,
       Positions, Inside, Between, ForIntent, Ends, FailsWith, Cancels, Polled, Commits
<1>4. CASE ExecutionPlan
  BY <1>4, <1>0, <1>c, <1>o, <1>k, Orders, NothingAssumption DEF ExecutionPlan,
       BeginPlan, DerivePlan, CheckPlan, Polls, Positions, Inside, Between, ForIntent,
       Ends, FailsWith, Cancels, Polled, Commits
<1>5. CASE CommitTail
  BY <1>5, <1>0, <1>c, <1>o, <1>k, Orders, NothingAssumption DEF CommitTail, BeginPatch,
       PreparePatch, EmitDryRun, BeforeDryRun, Rehearse, BeginCommit, BeforeCommit,
       CommitScene, CommitPlain, CommitRefused, CommitLive, Polls, Positions, Inside,
       Between, ForIntent, Ends, FailsWith, Cancels, Polled, Commits
<1>6. CASE Finish
  BY <1>6, <1>0, <1>c, <1>o, <1>k, Orders, NothingAssumption DEF Finish, CloseRecord,
       EmitTerminal, Return, Polls, Positions, Inside, Between, ForIntent, Ends,
       FailsWith, Cancels, Polled, Commits
<1>7. CASE Cancel \/ OtherWriter \/ Escape \/ UNCHANGED vars
  BY <1>7, <1>0, <1>c, <1>o, <1>k, Orders, NothingAssumption DEF Cancel, OtherWriter,
       Escape, vars, Polls, Positions, Inside, Between, ForIntent, Ends, FailsWith,
       Cancels, Polled, Commits
<1> QED
  BY <1>1, <1>2, <1>3, <1>4, <1>5, <1>6, <1>7 DEF Next, RunStep

(* Every step honours a request that came in time. *)
LEMMA CancellationKept ==
  ASSUME TypeOK, Positions, Unsealed, Requests, Polls, CancellationHonoured, [Next]_vars
  PROVE  CancellationHonoured'
<1>0. /\ pc \in Running \cup Finished /\ requested \in Running \cup {Nothing}
      /\ open \in Open \cup {Nothing} /\ invoked \subseteq {"intent", "execution_plan"}
  BY DEF TypeOK
<1>c. \A status, call : ClosesWith(status, call) => open' = Nothing
  BY DEF ClosesWith
<1>o. \A name \in StepNames :
        Opens(name) => open' # Nothing /\ open'.name = name /\ open'.call = "none"
  BY Opening
<1>k. open # Nothing /\ open' = [open EXCEPT !.call = "accepted"] =>
        open' # Nothing /\ open'.name = open.name /\ open'.call = "accepted"
  BY <1>0, NothingAssumption DEF Open
<1>1. CASE ProcessInput
  BY <1>1, <1>0, <1>c, <1>o, <1>k, Orders, NothingAssumption DEF ProcessInput,
       EmitQueued, Capture, Bind, EmitStarted, SelectTarget, BeforeIntent,
       CancellationHonoured, Unsealed, Concluded, Requests, Polls, Positions, Inside,
       ForIntent, CallStage, Ends, FailsWith, Cancels, Polled, Commits
<1>2. CASE ModelCall
  BY <1>2, <1>0, <1>c, <1>o, <1>k, Orders, NothingAssumption DEF ModelCall,
       BuildMessages, PollToken, ProviderPends, ProviderFails, ProviderCompletes, Cross,
       Announce, CancellationHonoured, Unsealed, Concluded, Requests, Polls, Positions,
       Inside, ForIntent, CallStage, Ends, FailsWith, Cancels, Polled, Commits
<1>3. CASE ResolveIntent
  BY <1>3, <1>0, <1>c, <1>o, <1>k, Orders, NothingAssumption DEF ResolveIntent,
       BeginIntent, DeriveIntent, ValidateIntent, AfterIntent, Stop, Continue,
       CancellationHonoured, Unsealed, Concluded, Requests, Polls, Positions, Inside,
       ForIntent, CallStage, Ends, FailsWith, Cancels, Polled, Commits
<1>4. CASE ExecutionPlan
  BY <1>4, <1>0, <1>c, <1>o, <1>k, Orders, NothingAssumption DEF ExecutionPlan,
       BeginPlan, DerivePlan, CheckPlan, CancellationHonoured, Unsealed, Concluded,
       Requests, Polls, Positions, Inside, ForIntent, CallStage, Ends, FailsWith,
       Cancels, Polled, Commits
<1>5. CASE CommitTail
  BY <1>5, <1>0, <1>c, <1>o, <1>k, Orders, NothingAssumption DEF CommitTail, BeginPatch,
       PreparePatch, EmitDryRun, BeforeDryRun, Rehearse, BeginCommit, BeforeCommit,
       CommitScene, CommitPlain, CommitRefused, CommitLive, CancellationHonoured,
       Unsealed, Concluded, Requests, Polls, Positions, Inside, ForIntent, CallStage,
       Ends, FailsWith, Cancels, Polled, Commits
<1>6. CASE Finish
  BY <1>6, <1>0, <1>c, <1>o, <1>k, Orders, NothingAssumption DEF Finish, CloseRecord,
       EmitTerminal, Return, CancellationHonoured, Unsealed, Concluded, Requests, Polls,
       Positions, Inside, ForIntent, CallStage, Ends, FailsWith, Cancels, Polled,
       Commits
<1>7. CASE Cancel \/ OtherWriter \/ Escape \/ UNCHANGED vars
  BY <1>7, <1>0, <1>c, <1>o, <1>k, Orders, NothingAssumption DEF Cancel, OtherWriter,
       Escape, vars, CancellationHonoured, Unsealed, Concluded, Requests, Polls,
       Positions, Inside, ForIntent, CallStage, Ends, FailsWith, Cancels, Polled,
       Commits
<1> QED
  BY <1>1, <1>2, <1>3, <1>4, <1>5, <1>6, <1>7 DEF Next, RunStep

(* The open step's evidence follows the call it belongs to. *)
LEMMA OpenEvidenceKept ==
  ASSUME TypeOK, Positions, Polls, OpenEvidence, [Next]_vars
  PROVE  OpenEvidence'
<1>0. /\ pc \in Running \cup Finished /\ open \in Open \cup {Nothing}
      /\ invoked \subseteq {"intent", "execution_plan"}
  BY DEF TypeOK
<1>c. \A status, call : ClosesWith(status, call) => open' = Nothing
  BY DEF ClosesWith
<1>o. \A name \in StepNames :
        Opens(name) => open' # Nothing /\ open'.name = name /\ open'.call = "none"
  BY Opening
<1>k. open # Nothing /\ open' = [open EXCEPT !.call = "accepted"] =>
        open' # Nothing /\ open'.name = open.name /\ open'.call = "accepted"
  BY <1>0, NothingAssumption DEF Open
<1>1. CASE ProcessInput
  BY <1>1, <1>0, <1>c, <1>o, <1>k, Orders, NothingAssumption DEF ProcessInput,
       EmitQueued, Capture, Bind, EmitStarted, SelectTarget, BeforeIntent, OpenEvidence,
       Polls, Positions, Inside, ForIntent, Ends, FailsWith, Cancels, Polled, Commits
<1>2. CASE ModelCall
  BY <1>2, <1>0, <1>c, <1>o, <1>k, Orders, NothingAssumption DEF ModelCall,
       BuildMessages, PollToken, ProviderPends, ProviderFails, ProviderCompletes, Cross,
       Announce, OpenEvidence, Polls, Positions, Inside, ForIntent, Ends, FailsWith,
       Cancels, Polled, Commits
<1>3. CASE ResolveIntent
  BY <1>3, <1>0, <1>c, <1>o, <1>k, Orders, NothingAssumption DEF ResolveIntent,
       BeginIntent, DeriveIntent, ValidateIntent, AfterIntent, Stop, Continue,
       OpenEvidence, Polls, Positions, Inside, ForIntent, Ends, FailsWith, Cancels,
       Polled, Commits
<1>4. CASE ExecutionPlan
  BY <1>4, <1>0, <1>c, <1>o, <1>k, Orders, NothingAssumption DEF ExecutionPlan,
       BeginPlan, DerivePlan, CheckPlan, OpenEvidence, Polls, Positions, Inside,
       ForIntent, Ends, FailsWith, Cancels, Polled, Commits
<1>5. CASE CommitTail
  <2>1. CASE BeginPatch
    BY <2>1, <1>0, <1>c, <1>o, <1>k, Orders, NothingAssumption DEF BeginPatch,
         OpenEvidence, Positions, Inside, FailsWith, Cancels, Commits
  <2>2. CASE PreparePatch
    BY <2>2, <1>0, <1>c, <1>o, <1>k, Orders, NothingAssumption DEF PreparePatch,
         OpenEvidence, Positions, Inside, FailsWith, Cancels, Commits
  <2>3. CASE EmitDryRun
    BY <2>3, <1>0, <1>c, <1>o, <1>k, Orders, NothingAssumption DEF EmitDryRun,
         OpenEvidence, Positions, Inside, FailsWith, Cancels, Commits
  <2>4. CASE BeforeDryRun
    BY <2>4, <1>0, <1>c, <1>o, <1>k, Orders, NothingAssumption DEF BeforeDryRun,
         OpenEvidence, Positions, Inside, FailsWith, Cancels, Commits
  <2>5. CASE Rehearse
    BY <2>5, <1>0, <1>c, <1>o, <1>k, Orders, NothingAssumption DEF Rehearse,
         OpenEvidence, Positions, Inside, FailsWith, Cancels, Commits
  <2>6. CASE BeginCommit
    BY <2>6, <1>0, <1>c, <1>o, <1>k, Orders, NothingAssumption DEF BeginCommit,
         OpenEvidence, Positions, Inside, FailsWith, Cancels, Commits
  <2>7. CASE BeforeCommit
    BY <2>7, <1>0, <1>c, <1>o, <1>k, Orders, NothingAssumption DEF BeforeCommit,
         OpenEvidence, Positions, Inside, FailsWith, Cancels, Commits
  <2>8. CASE CommitPlain
    BY <2>8, <1>0, <1>c, <1>o, <1>k, Orders, NothingAssumption DEF CommitPlain,
         OpenEvidence, Positions, Inside, FailsWith, Cancels, Commits
  <2>9. CASE CommitRefused
    BY <2>9, <1>0, <1>c, <1>o, <1>k, Orders, NothingAssumption DEF CommitRefused,
         OpenEvidence, Positions, Inside, FailsWith, Cancels, Commits
  <2>10. CASE CommitLive
    BY <2>10, <1>0, <1>c, <1>o, <1>k, Orders, NothingAssumption DEF CommitLive,
         OpenEvidence, Positions, Inside, FailsWith, Cancels, Commits
  <2> QED
    BY <1>5, <2>1, <2>2, <2>3, <2>4, <2>5, <2>6, <2>7, <2>8, <2>9, <2>10 DEF
         CommitTail, CommitScene
<1>6. CASE Finish
  BY <1>6, <1>0, <1>c, <1>o, <1>k, Orders, NothingAssumption DEF Finish, CloseRecord,
       EmitTerminal, Return, OpenEvidence, Polls, Positions, Inside, ForIntent, Ends,
       FailsWith, Cancels, Polled, Commits
<1>7. CASE Cancel \/ OtherWriter \/ Escape \/ UNCHANGED vars
  BY <1>7, <1>0, <1>c, <1>o, <1>k, Orders, NothingAssumption DEF Cancel, OtherWriter,
       Escape, vars, OpenEvidence, Polls, Positions, Inside, ForIntent, Ends, FailsWith,
       Cancels, Polled, Commits
<1> QED
  BY <1>1, <1>2, <1>3, <1>4, <1>5, <1>6, <1>7 DEF Next, RunStep

(* A closing step whose evidence is truthful keeps all evidence truthful. *)
LEMMA ClosingEvidence ==
  ASSUME TypeOK, Positions, Unsealed, CallEvidenceTruthful, pc \in Unfinished \ Bare,
         NEW status \in Terminal, NEW call \in CallEvidence, ClosesWith(status, call),
         UNCHANGED config, UNCHANGED invoked \/ Polled,
         open.name \in invoked' => call # "none",
         call \in {"failed", "rejected", "accepted"} => open.name \in invoked',
         call = "request" => ending' # Nothing /\ ending'.checkpoint = "task_cancelled",
         status = "success" /\ call # "accepted" =>
            \/ open.name \notin {"intent", "execution_plan"}
            \/ open.name = "intent" /\ config.passthrough
  PROVE  CallEvidenceTruthful'
<1>1. /\ open \in Open /\ open.name = StepOrder[Len(steps) + 1] /\ Len(steps) \in 0..4
      /\ steps \in Seq(Step) /\ ending = Nothing /\ InPlace
  BY OpenStep DEF TypeOK, Unsealed
<1>2. /\ steps' \in Seq(Step) /\ Len(steps') = Len(steps) + 1
      /\ steps'[Len(steps')] = [name |-> open.name, status |-> status, call |-> call]
      /\ \A i \in 1..Len(steps) : steps'[i] = steps[i]
  BY <1>1, Closing
<1>3. SUFFICES ASSUME NEW i \in DOMAIN steps'
               PROVE  /\ steps'[i].name \in invoked' => steps'[i].call # "none"
                      /\ steps'[i].call \in {"failed", "rejected", "accepted"} =>
                            steps'[i].name \in invoked'
                      /\ steps'[i].call = "request" =>
                            /\ ending' # Nothing /\ ending'.checkpoint = "task_cancelled"
                            /\ i = Len(steps')
                      /\ steps'[i].status = "success" /\ steps'[i].call # "accepted" =>
                            \/ steps'[i].name \notin {"intent", "execution_plan"}
                            \/ steps'[i].name = "intent" /\ config'.passthrough
  BY DEF CallEvidenceTruthful
<1>4. CASE i = Len(steps')
  BY <1>2, <1>4
<1>5. CASE i \in 1..Len(steps)
  <2>1. steps'[i] = steps[i] /\ i \in DOMAIN steps
    BY <1>1, <1>2, <1>5
  <2>2. steps[i].name # open.name
    <3>1. steps[i].name = StepOrder[i] /\ i \in 1..5 /\ Len(steps) + 1 \in 1..5 /\ i # Len(steps) + 1
      BY <1>1, <1>5, <2>1 DEF InPlace
    <3> QED
      BY <1>1, <3>1, OrderInjective
  <2>3. steps[i].call # "request"
    BY <1>1, <2>1 DEF CallEvidenceTruthful
  <2> QED
    BY <2>1, <2>2, <2>3 DEF CallEvidenceTruthful, Polled
<1> QED
  BY <1>2, <1>4, <1>5

(* Every closing step leaves truthful evidence. *)
LEMMA CallEvidenceKept ==
  ASSUME TypeOK, Positions, Unsealed, OpenEvidence, Polls, CallEvidenceTruthful, [Next]_vars
  PROVE  CallEvidenceTruthful'
<1>0. pc \in Running \cup Finished /\ steps \in Seq(Step) /\ config \in Config
  BY DEF TypeOK
<1>f. ASSUME NEW call \in CallEvidence \ {"request"}, NEW stage, pc \in Unfinished \ Bare,
             FailsWith(call, stage), open.name \in invoked => call # "none",
             call \in {"failed", "rejected", "accepted"} => open.name \in invoked
      PROVE  CallEvidenceTruthful'
  BY <1>f, ClosingEvidence DEF FailsWith, Terminal
<1>r. ASSUME NEW status \in {"failure", "cancelled", "success"}, UNCHANGED <<config, invoked>>,
             pc \in Unfinished \ Bare, ClosesWith(status, open.call),
             open.name \in invoked <=> open.call = "accepted",
             status = "success" /\ open.call # "accepted" =>
                \/ open.name \notin {"intent", "execution_plan"}
                \/ open.name = "intent" /\ config.passthrough
      PROVE  CallEvidenceTruthful'
  BY <1>r, OpenStep, ClosingEvidence DEF Terminal
<1>u. UNCHANGED <<config, steps, ending>> /\ UNCHANGED invoked => CallEvidenceTruthful'
  BY DEF CallEvidenceTruthful
<1>v. UNCHANGED <<config, steps, invoked>> /\ ending = Nothing => CallEvidenceTruthful'
  BY DEF CallEvidenceTruthful
<1>o. \A name \in StepNames : Opens(name) => UNCHANGED steps
  BY Opening
<1>n. /\ pc = "select" => open.name = "process_input"
      /\ pc \in InIntent => open.name = "intent"
      /\ pc \in CallPoints => open.name \in {"intent", "execution_plan"}
      /\ pc \in InPlan => open.name = "execution_plan"
      /\ pc \in InPatch => open.name = "patch"
      /\ pc \in {"before_commit", "commit_scene"} => open.name = "commit"
  BY Orders DEF Positions, Inside
<1>e. /\ pc \in Unfinished \ Bare /\ pc \notin {"poll_token", "poll_provider", "cross"} =>
            (open.name \in invoked <=> open.call = "accepted")
      /\ pc = "cross" => open.name \in invoked
      /\ pc \in InIntent /\ ~config.passthrough => open.call = "accepted"
      /\ pc \in InPlan => open.call = "accepted"
  BY OpenStep, NothingAssumption DEF OpenEvidence
<1>i. pc \in Unfinished => ending = Nothing
  BY DEF Unsealed
<1>1. CASE ProcessInput
  <2>1. CASE EmitQueued
    BY <2>1, <1>0, <1>f, <1>r, <1>u, <1>o, <1>n, <1>e, OpenStep, Orders DEF EmitQueued
  <2>2. CASE Capture
    BY <2>2, <1>0, <1>f, <1>r, <1>u, <1>o, <1>n, <1>e, OpenStep, Orders DEF Capture
  <2>3. CASE Bind
    BY <2>3, <1>0, <1>f, <1>r, <1>u, <1>o, <1>n, <1>e, OpenStep, Orders DEF Bind
  <2>4. CASE EmitStarted
    BY <2>4, <1>0, <1>f, <1>r, <1>u, <1>o, <1>n, <1>e, OpenStep, Orders DEF EmitStarted
  <2>5. CASE SelectTarget
    BY <2>5, <1>0, <1>f, <1>r, <1>u, <1>o, <1>n, <1>e, OpenStep, Orders DEF SelectTarget
  <2>6. CASE BeforeIntent
    BY <2>6, <1>i, <1>v, <1>0, <1>f, <1>r, <1>u, <1>o, <1>n, <1>e, OpenStep, Orders DEF
         BeforeIntent
  <2> QED
    BY <1>1, <2>1, <2>2, <2>3, <2>4, <2>5, <2>6 DEF ProcessInput
<1>2. CASE ModelCall
  <2>1. CASE BuildMessages
    BY <2>1, <1>0, <1>f, <1>r, <1>u, <1>o, <1>n, <1>e, OpenStep, Orders DEF
         BuildMessages
  <2>2. CASE PollToken
    <3>1. CASE Passes("poll_provider")
      BY <3>1, <1>u
    <3>2. CASE /\ ClosesWith("cancelled", "request") /\ UNCHANGED <<config, invoked>>
               /\ Ends("cancelled", CallStage, base, "task_cancelled")
      <4>1. ending'.checkpoint = "task_cancelled"
        BY <3>2 DEF Ends
      <4>2. ending' # Nothing
        BY <3>2, <1>0, Orders, NothingAssumption DEF Ends, Ending, TypeOK, Terminal, Checkpoints, CallStage
      <4> QED
        BY <2>2, <3>2, <4>1, <4>2, ClosingEvidence DEF PollToken, Terminal, CallEvidence
    <3> QED
      BY <2>2, <3>1, <3>2 DEF PollToken
  <2>3. CASE ProviderPends
    <3>1. UNCHANGED <<config, steps, ending>> /\ invoked' = invoked \cup {open.name}
      BY <2>3 DEF ProviderPends, Polled
    <3>2. \A i \in DOMAIN steps : steps[i].name # open.name
      BY <2>3, <1>0, OpenStep, Orders DEF ProviderPends, Unsealed, InPlace
    <3> QED
      BY <3>1, <3>2 DEF CallEvidenceTruthful
  <2>4. CASE ProviderFails
    BY <2>4, <1>0, <1>n, ClosingEvidence, Orders DEF ProviderFails, Terminal, CallEvidence, Polled
  <2>5. CASE ProviderCompletes
    <3>1. UNCHANGED <<config, steps, ending>> /\ invoked' = invoked \cup {open.name}
      BY <2>5 DEF ProviderCompletes, Polled
    <3>2. \A i \in DOMAIN steps : steps[i].name # open.name
      BY <2>5, <1>0, OpenStep, Orders DEF ProviderCompletes, Unsealed, InPlace
    <3> QED
      BY <3>1, <3>2 DEF CallEvidenceTruthful
  <2>6. CASE Cross
    BY <2>6, <1>0, <1>f, <1>r, <1>u, <1>o, <1>n, <1>e, OpenStep, Orders DEF Cross,
         CallEvidence
  <2>7. CASE Announce
    BY <2>7, <1>0, <1>f, <1>r, <1>u, <1>o, <1>n, <1>e, OpenStep, Orders DEF Announce
  <2> QED
    BY <1>2, <2>1, <2>2, <2>3, <2>4, <2>5, <2>6, <2>7 DEF ModelCall
<1>3. CASE ResolveIntent
  <2>1. CASE BeginIntent
    BY <2>1, <1>0, <1>f, <1>r, <1>u, <1>o, <1>n, <1>e, OpenStep, Orders DEF BeginIntent
  <2>2. CASE DeriveIntent
    BY <2>2, <1>0, <1>f, <1>r, <1>u, <1>o, <1>n, <1>e, OpenStep, Orders DEF DeriveIntent
  <2>3. CASE ValidateIntent
    BY <2>3, <1>0, <1>f, <1>r, <1>u, <1>o, <1>n, <1>e, OpenStep, Orders DEF
         ValidateIntent
  <2>4. CASE AfterIntent
    BY <2>4, <1>0, <1>f, <1>r, <1>u, <1>o, <1>n, <1>e, OpenStep, Orders DEF AfterIntent,
         Cancels
  <2>5. CASE Stop
    BY <2>5, <1>0, <1>f, <1>r, <1>u, <1>o, <1>n, <1>e, OpenStep, Orders DEF Stop
  <2>6. CASE Continue
    BY <2>6, <1>0, <1>f, <1>r, <1>u, <1>o, <1>n, <1>e, OpenStep, Orders DEF Continue
  <2> QED
    BY <1>3, <2>1, <2>2, <2>3, <2>4, <2>5, <2>6 DEF ResolveIntent
<1>4. CASE ExecutionPlan
  <2>1. CASE BeginPlan
    BY <2>1, <1>0, <1>f, <1>r, <1>u, <1>o, <1>n, <1>e, OpenStep, Orders DEF BeginPlan
  <2>2. CASE DerivePlan
    BY <2>2, <1>0, <1>f, <1>r, <1>u, <1>o, <1>n, <1>e, OpenStep, Orders DEF DerivePlan
  <2>3. CASE CheckPlan
    BY <2>3, <1>0, <1>f, <1>r, <1>u, <1>o, <1>n, <1>e, OpenStep, Orders DEF CheckPlan
  <2> QED
    BY <1>4, <2>1, <2>2, <2>3 DEF ExecutionPlan
<1>5. CASE CommitTail
  <2>1. CASE BeginPatch
    BY <2>1, <1>0, <1>f, <1>r, <1>u, <1>o, <1>n, <1>e, OpenStep, Orders DEF BeginPatch
  <2>2. CASE PreparePatch
    BY <2>2, <1>0, <1>f, <1>r, <1>u, <1>o, <1>n, <1>e, OpenStep, Orders DEF PreparePatch
  <2>3. CASE EmitDryRun
    BY <2>3, <1>0, <1>f, <1>r, <1>u, <1>o, <1>n, <1>e, OpenStep, Orders DEF EmitDryRun
  <2>4. CASE BeforeDryRun
    BY <2>4, <1>0, <1>f, <1>r, <1>u, <1>o, <1>n, <1>e, OpenStep, Orders DEF
         BeforeDryRun, Cancels
  <2>5. CASE Rehearse
    BY <2>5, <1>0, <1>f, <1>r, <1>u, <1>o, <1>n, <1>e, OpenStep, Orders DEF Rehearse
  <2>6. CASE BeginCommit
    BY <2>6, <1>0, <1>f, <1>r, <1>u, <1>o, <1>n, <1>e, OpenStep, Orders DEF BeginCommit
  <2>7. CASE BeforeCommit
    BY <2>7, <1>0, <1>f, <1>r, <1>u, <1>o, <1>n, <1>e, OpenStep, Orders DEF
         BeforeCommit, Cancels
  <2>8. CASE CommitPlain
    <3>1. \A scene : Commits(scene) => ClosesWith("success", open.call) /\ UNCHANGED <<config, invoked>>
      BY DEF Commits
    <3> QED
      BY <2>8, <3>1, <1>n, <1>e, <1>r DEF CommitPlain
  <2>9. CASE CommitRefused
    BY <2>9, <1>0, <1>f, <1>r, <1>u, <1>o, <1>n, <1>e, OpenStep, Orders DEF
         CommitRefused
  <2>10. CASE CommitLive
    <3>1. ClosesWith("success", open.call) /\ UNCHANGED <<config, invoked>>
      BY <2>10 DEF CommitLive, Commits
    <3> QED
      BY <2>10, <3>1, <1>n, <1>e, <1>r DEF CommitLive
  <2> QED
    BY <1>5, <2>1, <2>2, <2>3, <2>4, <2>5, <2>6, <2>7, <2>8, <2>9, <2>10 DEF
         CommitTail, CommitScene
<1>6. CASE Finish
  BY <1>6, <1>0, <1>f, <1>r, <1>u, <1>o, <1>n, <1>e, OpenStep, Orders DEF Finish,
       CloseRecord, EmitTerminal, Return
<1>7. CASE Cancel \/ OtherWriter \/ Escape \/ UNCHANGED vars
  BY <1>7, <1>0, <1>f, <1>r, <1>u, <1>o, <1>n, <1>e, OpenStep, Orders DEF Cancel,
       OtherWriter, Escape, vars
<1> QED
  BY <1>1, <1>2, <1>3, <1>4, <1>5, <1>6, <1>7 DEF Next, RunStep

-----------------------------------------------------------------------------
(* The theorems *)

(* A Run starts in the inductive invariant... *)
LEMMA InitInv == Init => IInv
<1> SUFFICES ASSUME Init PROVE IInv
  OBVIOUS
<1> USE DEF Init
<1>1. TypeOK
  BY Orders, NothingAssumption, RevisionAssumption DEF TypeOK, Terminal
<1>2. Positions /\ Unsealed /\ Sealed /\ Lineage
  BY DEF Positions, Between, Unsealed, InPlace, Sealed, Lineage, Scene
<1>3. AllOrNothing /\ Requests /\ Polls /\ CancellationHonoured
  BY NothingAssumption DEF AllOrNothing, Committed, Concluded, Requests, Polls, CancellationHonoured
<1>4. OpenEvidence /\ CallEvidenceTruthful /\ Bound /\ ResultMatchesProgress
  BY DEF OpenEvidence, CallEvidenceTruthful, Bound, ResultMatchesProgress
<1> QED
  BY <1>1, <1>2, <1>3, <1>4 DEF IInv

(* ...and every step keeps it. *)
LEMMA NextInv == IInv /\ [Next]_vars => IInv'
<1> SUFFICES ASSUME IInv, [Next]_vars PROVE IInv'
  OBVIOUS
<1>1. TypeOK' /\ Positions' /\ Unsealed' /\ Sealed'
  BY TypesKept, PositionsKept, UnsealedKept, SealedKept DEF IInv
<1>2. Lineage' /\ AllOrNothing' /\ Bound' /\ ResultMatchesProgress'
  BY LineageKept, AllOrNothingKept, BoundKept, ResultKept DEF IInv
<1>3. Requests' /\ Polls' /\ CancellationHonoured'
  BY RequestsKept, PollsKept, CancellationKept DEF IInv
<1>4. OpenEvidence' /\ CallEvidenceTruthful'
  BY OpenEvidenceKept, CallEvidenceKept DEF IInv
<1> QED
  BY <1>1, <1>2, <1>3, <1>4 DEF IInv

(* The inductive invariant holds throughout every Run. *)
THEOREM Invariance == Spec => []IInv
  BY InitInv, NextInv, PTL DEF Spec

(* Every variable of a Run keeps its shape, whatever the revision bound. *)
THEOREM TypeCorrect == Spec => []TypeOK
<1>1. IInv => TypeOK
  BY DEF IInv
<1> QED
  BY <1>1, Invariance, PTL

(* No path to an ending trips an assertion of the Run Record's close        *)
(* (RunRecordCompletion::new, assert_run_record, assert_result_stage).      *)
THEOREM NoCloseEverPanics == Spec => []ClosingNeverPanics
<1>1. IInv => ClosingNeverPanics
  BY DEF IInv, Sealed, ClosingNeverPanics
<1> QED
  BY <1>1, Invariance, PTL

(* The shared Scene holds the Run's Patch exactly when the Run committed,   *)
(* and a committed Run names the Scene it installed (commit_stage).         *)
THEOREM CommitsAllOrNothing == Spec => []AllOrNothing
<1>1. IInv => AllOrNothing
  BY DEF IInv
<1> QED
  BY <1>1, Invariance, PTL

(* A cancellation requested before a checkpoint stops what comes after it,  *)
(* and nothing is cancelled unasked (the checkpoints of the pipeline).      *)
THEOREM RequestsAreHonoured == Spec => []CancellationHonoured
<1>1. IInv => CancellationHonoured
  BY DEF IInv
<1> QED
  BY <1>1, Invariance, PTL

(* The Run Record's model calls tell which providers were polled, and what  *)
(* became of the calls (OpenModelCall, invoke_model and its callers).       *)
THEOREM EvidenceIsTruthful == Spec => []CallEvidenceTruthful
<1>1. IInv => CallEvidenceTruthful
  BY DEF IInv
<1> QED
  BY <1>1, Invariance, PTL

(* When the result is out, the handle's progress names the same stage,      *)
(* status and captured revision (finish in terminal.rs).                    *)
THEOREM ResultsMatchProgress == Spec => []ResultMatchesProgress
<1>1. IInv => ResultMatchesProgress
  BY DEF IInv
<1> QED
  BY <1>1, Invariance, PTL

-----------------------------------------------------------------------------
(* Progress only moves on: the point a Run has reached determines what the  *)
(* handle shows, so that each announcement is the next one in the order.    *)

Shows(stage) == progress.stage = stage

\* What the handle shows at each point, and that a Run is announced as
\* running from its start to its ending.
Announced ==
    /\ pc \in {"queued", "capture", "bind"} =>
          Shows("queued") /\ progress.status = "queued" /\ ~progress.bound
    /\ pc = "started" => Shows("queued") /\ progress.status = "queued" /\ progress.bound
    /\ pc \in {"select", "before_intent", "intent"}   => Shows("started")
    /\ pc \in CallPoints                              => Shows(CallStage)
    /\ pc \in InIntent \cup {"plan"}                  => Shows("intent")
    /\ pc \in InPlan \cup {"patch"}                   => Shows("execution_plan")
    /\ pc \in {"prepare_patch", "dry_run"}            => Shows("patch")
    /\ pc \in {"before_dry_run", "rehearse", "commit"} => Shows("dry_run")
    /\ pc \in {"before_commit", "commit_scene"}       => Shows("commit")
    /\ pc \in {"record", "last_progress"}             => Shows(ending.stage)
    /\ pc \in Running \ {"queued", "capture", "bind", "started", "result"} =>
          progress.status = "running" /\ progress.bound

(* Each stage is announced after those that precede it in the order. *)
LEMMA LaterStages ==
    /\ Earlier("queued", "started")
    /\ Earlier("started", "intent_call") /\ Earlier("started", "intent")
    /\ Earlier("intent_call", "intent")
    /\ Earlier("intent", "plan_call") /\ Earlier("plan_call", "execution_plan")
    /\ Earlier("execution_plan", "patch") /\ Earlier("patch", "dry_run")
    /\ Earlier("dry_run", "commit")
  BY DEF Earlier, StageOrder

(* An announcement changes the stage and the status and nothing else. *)
LEMMA Emitting ==
  ASSUME TypeOK, NEW stage, NEW status, Emit(stage, status)
  PROVE  /\ progress'.stage = stage /\ progress'.status = status
         /\ progress'.bound = progress.bound
         /\ progress.stage = stage /\ progress.status = status => progress' = progress
  BY DEF Emit, TypeOK

(* Every point shows its stage, and every ending closes the stage shown. *)
LEMMA AnnouncedKept ==
  ASSUME TypeOK, Positions, Announced, [Next]_vars
  PROVE  Announced'
<1>0. /\ pc \in Running \cup Finished
      /\ progress \in [stage: Stages, status: {"queued", "running"} \cup Terminal,
                        revision: 0..MaxRevision, bound: BOOLEAN]
      /\ pc \in CallPoints => open \in Open
  BY DEF TypeOK
<1>e. ASSUME NEW stage, NEW status, Emit(stage, status)
      PROVE  progress'.stage = stage /\ progress'.status = status /\ progress'.bound = progress.bound
  BY <1>e, Emitting
<1>n. \A outcome, stage, scene, checkpoint :
          Ends(outcome, stage, scene, checkpoint) => pc' = "record" /\ ending'.stage = stage
  BY DEF Ends
<1>o. \A name : Opens(name) => open'.name = name
  BY DEF Opens
<1>k. open \in Open /\ open' = [open EXCEPT !.call = "accepted"] => open'.name = open.name
  BY DEF Open
<1>b. Bind => /\ progress'.bound /\ progress'.stage = progress.stage
             /\ progress'.status = progress.status
  BY <1>0 DEF Bind
<1>1. CASE ProcessInput
  <2>1. CASE EmitQueued
    BY <2>1, <1>0, <1>b, <1>e, <1>n DEF EmitQueued, FailsWith, Cancels, Announced,
         Shows
  <2>2. CASE Capture
    BY <2>2, <1>0, <1>b, <1>e, <1>n DEF Capture, FailsWith, Cancels, Announced, Shows
  <2>3. CASE Bind
    BY <2>3, <1>0, <1>b, <1>e, <1>n DEF Bind, FailsWith, Cancels, Announced, Shows
  <2>4. CASE EmitStarted
    BY <2>4, <1>0, <1>b, <1>e, <1>n DEF EmitStarted, FailsWith, Cancels, Announced,
         Shows
  <2>5. CASE SelectTarget
    BY <2>5, <1>0, <1>b, <1>e, <1>n DEF SelectTarget, FailsWith, Cancels, Announced,
         Shows
  <2>6. CASE BeforeIntent
    BY <2>6, <1>0, <1>b, <1>e, <1>n DEF BeforeIntent, FailsWith, Cancels, Announced,
         Shows
  <2> QED
    BY <1>1, <2>1, <2>2, <2>3, <2>4, <2>5, <2>6 DEF ProcessInput
<1>2. CASE ModelCall
  BY <1>2, <1>0, <1>e, <1>n, <1>o, <1>k DEF ModelCall, BuildMessages, PollToken,
       ProviderPends, ProviderFails, ProviderCompletes, Cross, Announce, FailsWith,
       Cancels, Polled, Commits, Announced, Shows, CallStage, DerivedStage, ForIntent
<1>3. CASE ResolveIntent
  BY <1>3, <1>0, <1>e, <1>n, <1>o, <1>k DEF ResolveIntent, BeginIntent, DeriveIntent,
       ValidateIntent, AfterIntent, Stop, Continue, FailsWith, Cancels, Polled,
       Commits, Announced, Shows, CallStage, DerivedStage, ForIntent
<1>4. CASE ExecutionPlan
  BY <1>4, <1>0, <1>e, <1>n, <1>o, <1>k DEF ExecutionPlan, BeginPlan, DerivePlan,
       CheckPlan, FailsWith, Cancels, Polled, Commits, Announced, Shows, CallStage,
       DerivedStage, ForIntent
<1>5. CASE CommitTail
  <2>1. CASE BeginPatch
    BY <2>1, <1>0, <1>e, <1>n, <1>o DEF BeginPatch, FailsWith, Cancels, Announced,
         Shows
  <2>2. CASE PreparePatch
    BY <2>2, <1>0, <1>e, <1>n, <1>o DEF PreparePatch, FailsWith, Cancels, Announced,
         Shows
  <2>3. CASE EmitDryRun
    BY <2>3, <1>0, <1>e, <1>n, <1>o DEF EmitDryRun, FailsWith, Cancels, Announced,
         Shows
  <2>4. CASE BeforeDryRun
    BY <2>4, <1>0, <1>e, <1>n, <1>o DEF BeforeDryRun, FailsWith, Cancels, Announced,
         Shows
  <2>5. CASE Rehearse
    BY <2>5, <1>0, <1>e, <1>n, <1>o DEF Rehearse, FailsWith, Cancels, Announced, Shows
  <2>6. CASE BeginCommit
    BY <2>6, <1>0, <1>e, <1>n, <1>o DEF BeginCommit, FailsWith, Cancels, Announced,
         Shows
  <2>7. CASE BeforeCommit
    BY <2>7, <1>0, <1>e, <1>n, <1>o DEF BeforeCommit, FailsWith, Cancels, Announced,
         Shows
  <2>8. CASE CommitScene
    <3>1. \A scene : Commits(scene) =>
              pc' = "record" /\ ending'.stage = "commit" /\ UNCHANGED progress
      BY <1>n DEF Commits
    <3>2. pc = "commit_scene" /\ pc' = "record" /\ ending'.stage = "commit" /\ UNCHANGED progress
      <4>1. CASE CommitPlain
        BY <3>1, <4>1 DEF CommitPlain
      <4>2. CASE CommitRefused
        BY <1>n, <4>2 DEF CommitRefused, FailsWith
      <4>3. CASE CommitLive
        BY <3>1, <4>3 DEF CommitLive
      <4> QED
        BY <2>8, <4>1, <4>2, <4>3 DEF CommitScene
    <3> QED
      BY <1>0, <3>2 DEF Announced, Shows
  <2> QED
    BY <1>5, <2>1, <2>2, <2>3, <2>4, <2>5, <2>6, <2>7, <2>8 DEF CommitTail
<1>6. CASE Finish
  BY <1>6, <1>0, <1>e, <1>n, <1>o, <1>k DEF Finish, CloseRecord, EmitTerminal, Return,
       FailsWith, Cancels, Polled, Commits, Announced, Shows, CallStage, DerivedStage,
       ForIntent
<1>7. CASE Cancel \/ OtherWriter \/ Escape \/ UNCHANGED vars
  BY <1>7, <1>0, <1>e, <1>n, <1>o, <1>k DEF Cancel, OtherWriter, Escape, vars,
       FailsWith, Cancels, Polled, Commits, Announced, Shows, CallStage, DerivedStage,
       ForIntent
<1> QED
  BY <1>1, <1>2, <1>3, <1>4, <1>5, <1>6, <1>7 DEF Next, RunStep

(* Each step announces the next stage, the ending, or nothing. *)
LEMMA MovesOn ==
  ASSUME TypeOK, Announced, Sealed, [Next]_vars, progress' # progress
  PROVE  /\ progress.status \notin Terminal
         /\ \/ ~progress.bound /\ progress'.bound /\ progress.stage = "queued"
            \/ /\ progress.bound /\ progress'.status = "running"
               /\ Earlier(progress.stage, progress'.stage)
            \/ progress'.status \in Terminal /\ progress'.stage = progress.stage
<1>0. /\ pc \in Running \cup Finished
      /\ progress \in [stage: Stages, status: {"queued", "running"} \cup Terminal,
                        revision: 0..MaxRevision, bound: BOOLEAN]
      /\ pc = "last_progress" => ending.outcome \in Terminal
      /\ "queued" \notin Terminal /\ "running" \notin Terminal
  BY DEF TypeOK, Sealed, Ending, Terminal
<1>e. ASSUME NEW stage, NEW status, Emit(stage, status)
      PROVE  /\ progress'.stage = stage /\ progress'.status = status
             /\ progress'.bound = progress.bound
             /\ progress.stage # stage \/ progress.status # status
  BY <1>e, Emitting
<1>b. Bind => /\ progress'.bound /\ progress'.stage = progress.stage
             /\ progress'.status = progress.status
  BY <1>0 DEF Bind
<1>1. CASE ProcessInput
  <2>1. CASE EmitQueued
    BY <2>1, <1>0, <1>b, <1>e, LaterStages DEF EmitQueued, FailsWith, Cancels,
         Announced, Shows
  <2>2. CASE Capture
    BY <2>2, <1>0, <1>b, <1>e, LaterStages DEF Capture, FailsWith, Cancels, Announced,
         Shows
  <2>3. CASE Bind
    BY <2>3, <1>0, <1>b, <1>e, LaterStages DEF Bind, FailsWith, Cancels, Announced,
         Shows
  <2>4. CASE EmitStarted
    BY <2>4, <1>0, <1>b, <1>e, LaterStages DEF EmitStarted, FailsWith, Cancels,
         Announced, Shows
  <2>5. CASE SelectTarget
    BY <2>5, <1>0, <1>b, <1>e, LaterStages DEF SelectTarget, FailsWith, Cancels,
         Announced, Shows
  <2>6. CASE BeforeIntent
    BY <2>6, <1>0, <1>b, <1>e, LaterStages DEF BeforeIntent, FailsWith, Cancels,
         Announced, Shows
  <2> QED
    BY <1>1, <2>1, <2>2, <2>3, <2>4, <2>5, <2>6 DEF ProcessInput
<1>2. CASE ModelCall
  BY <1>2, <1>0, <1>e, LaterStages DEF ModelCall, BuildMessages, PollToken,
       ProviderPends, ProviderFails, ProviderCompletes, Cross, Announce, FailsWith,
       Cancels, Polled, Commits, Announced, Shows, CallStage, DerivedStage, ForIntent
<1>3. CASE ResolveIntent
  BY <1>3, <1>0, <1>e, LaterStages DEF ResolveIntent, BeginIntent, DeriveIntent,
       ValidateIntent, AfterIntent, Stop, Continue, FailsWith, Cancels, Polled,
       Commits, Announced, Shows, CallStage, DerivedStage, ForIntent
<1>4. CASE ExecutionPlan
  BY <1>4, <1>0, <1>e, LaterStages DEF ExecutionPlan, BeginPlan, DerivePlan,
       CheckPlan, FailsWith, Cancels, Polled, Commits, Announced, Shows, CallStage,
       DerivedStage, ForIntent
<1>5. CASE CommitTail
  BY <1>5, <1>0, <1>e, LaterStages DEF CommitTail, BeginPatch, PreparePatch,
       EmitDryRun, BeforeDryRun, Rehearse, BeginCommit, BeforeCommit, CommitScene,
       CommitPlain, CommitRefused, CommitLive, FailsWith, Cancels, Polled, Commits,
       Announced, Shows, CallStage, DerivedStage, ForIntent
<1>6. CASE Finish
  BY <1>6, <1>0, <1>e, LaterStages DEF Finish, CloseRecord, EmitTerminal, Return,
       FailsWith, Cancels, Polled, Commits, Announced, Shows, CallStage, DerivedStage,
       ForIntent
<1>7. CASE Cancel \/ OtherWriter \/ Escape \/ UNCHANGED vars
  BY <1>7, <1>0, <1>e, LaterStages DEF Cancel, OtherWriter, Escape, vars, FailsWith,
       Cancels, Polled, Commits, Announced, Shows, CallStage, DerivedStage, ForIntent
<1> QED
  BY <1>1, <1>2, <1>3, <1>4, <1>5, <1>6, <1>7 DEF Next, RunStep

(* The handle never shows a Run that goes back, repeats a stage or leaves a *)
(* terminal status (ObserverDelivery::observe, ProgressState).              *)
THEOREM ProgressOnlyMovesOn == Spec => ProgressMovesOn
<1>1. Init => Announced
  BY DEF Init, Announced, Shows
<1>2. IInv /\ Announced /\ [Next]_vars => Announced'
  BY AnnouncedKept DEF IInv
<1>3. Spec => []Announced
  BY <1>1, <1>2, Invariance, PTL DEF Spec
<1>4. /\ IInv /\ Announced /\ [Next]_vars
      => [progress' # progress =>
              /\ progress.status \notin Terminal
              /\ \/ ~progress.bound /\ progress'.bound /\ progress.stage = "queued"
                 \/ /\ progress.bound /\ progress'.status = "running"
                    /\ Earlier(progress.stage, progress'.stage)
                 \/ progress'.status \in Terminal /\ progress'.stage = progress.stage]_progress
  BY MovesOn DEF IInv
<1> QED
  BY <1>3, <1>4, Invariance, PTL DEF Spec, ProgressMovesOn
=============================================================================
