----------------------------- MODULE SceneState -----------------------------
(***************************************************************************)
(* The shared live Scene authority (SceneState) and the part of a Run that *)
(* works with it: the locked snapshot at Run start, Patch validation and   *)
(* dry-run on the snapshot, and the commit under the lock (exact, strict   *)
(* refusal, or application rebase), racing with try_edit by the host.      *)
(*                                                                         *)
(* Every use of the authority takes a std::sync::Mutex, so the model has   *)
(* the lock, its poisoning, and one step for each thing done under it that *)
(* another actor would see if the lock were not there: the two reads of a  *)
(* snapshot and the two assignments of an install are steps of their own.  *)
(* An application callback may panic at any point where one runs: the      *)
(* unwinding drops the guard, which releases and poisons the mutex.        *)
(***************************************************************************)
EXTENDS SceneDomain

CONSTANTS
    Runs,       \* concurrent Runs over this authority
    Editors,    \* calls of try_edit by the host application
    Nobody,     \* the mutex is free
    Target,     \* the Target each Run selected: [Runs -> Items]
    Scripts     \* the step sequences compile_patch and rebase may return

Actors == Runs \cup Editors

ASSUME StateAssumption ==
    /\ Runs \cap Editors = {}
    /\ Nobody \notin Actors
    /\ Target \in [Runs -> Items]
    /\ Scripts \subseteq Seq(Operation)

VARIABLES
    scene,      \* LiveInner.scene
    identity,   \* LiveInner.identity
    policy,     \* StalePolicy: "strict" or "rebase"
    ownership,  \* RevisionOwnership: "external" or "embedded"
    holder,     \* the actor whose MutexGuard is live, or Nobody
    poisoned,   \* the mutex's poison flag
    pc,         \* where each actor is
    base,       \* RunScene: base_scene and base_identity of each Run
    expected,   \* the expected_revision argument of each edit
    patch,      \* the Run's compiled Patch
    dry,        \* the after-Scene its rehearsal returned
    candidate,  \* LiveCommitCandidate, or the edited Scene, before install
    outcome     \* what the call returned, with revision_after on success

authorityVars == <<scene, identity, policy, ownership>>
lockVars      == <<holder, poisoned>>
runVars       == <<base, expected, patch, dry, candidate>>
vars          == <<authorityVars, lockVars, runVars, pc, outcome>>

embedded == ownership = "embedded"

Holding  == {"capture_scene", "capture_identity", "read_identity", "decide",
             "rebase", "check_edit", "edit", "install_scene",
             "install_identity"}
Finished == {"done", "panicked"}
Places   == {"start", "tail", "commit", "try_edit"} \cup Holding \cup Finished

Success  == {"exact", "rebased", "edited"}
Refusal  == {"stale", "stale_patch", "revision_exhausted", "rejected",
             "embedded_identity", "merge_conflict", "patch_validation",
             "rehearsal"}
Outcome  == [kind: {"pending"} \cup Refusal, revision: {0}]
              \cup [kind: Success, revision: 0..MaxRevision]

Pending    == [kind |-> "pending", revision |-> 0]
Refused(k) == [kind |-> k, revision |-> 0]

Base      == [scene: Scene, identity: Identity]
Candidate == [scene: Scene, identity: Identity, kind: Success]

-----------------------------------------------------------------------------
(* The mutex *)

\* What an actor does first once it holds the lock.
Entry(a) ==
    CASE pc[a] = "start" /\ a \in Runs    -> "capture_scene"
      [] pc[a] = "start" /\ a \in Editors -> "read_identity"
      [] pc[a] = "commit"                 -> "decide"
      [] pc[a] = "try_edit"               -> "check_edit"

\* A poisoned mutex is entered like any other: into_inner takes the guard.
\* (The variant stays out of a poisoned one.)
LockUnlessPoisoned(a) ==
    /\ holder = Nobody /\ ~poisoned
    /\ pc[a] \in {"start", "commit", "try_edit"}
    /\ holder' = a
    /\ pc' = [pc EXCEPT ![a] = Entry(a)]
    /\ UNCHANGED <<authorityVars, poisoned, runVars, outcome>>

Lock(a) ==
    /\ holder = Nobody
    /\ pc[a] \in {"start", "commit", "try_edit"}
    /\ holder' = a
    /\ pc' = [pc EXCEPT ![a] = Entry(a)]
    /\ UNCHANGED <<authorityVars, poisoned, runVars, outcome>>

\* The guard is dropped normally at the end of the locked scope.
Release == holder' = Nobody /\ UNCHANGED poisoned

Return(a, result) ==
    /\ pc' = [pc EXCEPT ![a] = "done"]
    /\ outcome' = [outcome EXCEPT ![a] = result]

\* The places whose step runs application code: clone_scene, the edit
\* closure, the rebase, the Patch's checks and its rehearsal.  On the way to
\* the install the result is cloned before either assignment, so a panic
\* there still finds the live Scene untouched.
Callbacks == {"capture_scene", "tail", "rebase", "edit", "install_scene"}

Panic(a) ==
    /\ pc[a] \in Callbacks
    /\ pc' = [pc EXCEPT ![a] = "panicked"]
    /\ holder' = IF holder = a THEN Nobody ELSE holder
    /\ poisoned' = (poisoned \/ holder = a)
    /\ UNCHANGED <<authorityVars, runVars, outcome>>

-----------------------------------------------------------------------------
(* Reads: SceneState::snapshot for a Run, SceneState::identity for an edit *)

\* (The variant lets the lock go between the two reads.)
CaptureSceneAlone(r) ==
    /\ pc[r] = "capture_scene"
    /\ base' = [base EXCEPT ![r].scene = scene]
    /\ pc' = [pc EXCEPT ![r] = "capture_identity"]
    /\ holder' = Nobody
    /\ UNCHANGED <<authorityVars, poisoned, expected, patch, dry, candidate, outcome>>

CaptureScene(r) ==
    /\ pc[r] = "capture_scene"
    /\ base' = [base EXCEPT ![r].scene = scene]
    /\ pc' = [pc EXCEPT ![r] = "capture_identity"]
    /\ UNCHANGED <<authorityVars, lockVars, expected, patch, dry, candidate, outcome>>

CaptureIdentity(r) ==
    /\ pc[r] = "capture_identity"
    /\ base' = [base EXCEPT ![r].identity = identity]
    /\ pc' = [pc EXCEPT ![r] = "tail"]
    /\ Release
    /\ UNCHANGED <<authorityVars, expected, patch, dry, candidate, outcome>>

ReadIdentity(e) ==
    /\ pc[e] = "read_identity"
    /\ expected' = [expected EXCEPT ![e] = identity.revision]
    /\ pc' = [pc EXCEPT ![e] = "try_edit"]
    /\ Release
    /\ UNCHANGED <<authorityVars, base, patch, dry, candidate, outcome>>

-----------------------------------------------------------------------------
(* The deterministic tail before commit: no lock, only the Run's snapshot *)

\* The identity the rehearsed payload must carry: none unless embedded.
ExpectedIdentity(next) == IF embedded THEN {next} ELSE {}

\* The identities the application's callbacks may leave in a payload: the
\* one it had, the advanced one, or a foreign Scene's.  It matters, and is
\* read, only where identity is embedded.
PayloadIdentities(id) ==
    IF embedded /\ CanAdvance(id)
    THEN {id, Advanced(id)} \cup {[Advanced(id) EXCEPT !.scene_id = s] : s \in SceneIds}
    ELSE {id}

\* The bases an application-built Patch may carry: right, or of another Scene.
PatchBases(id) == {id} \cup {[id EXCEPT !.scene_id = s] : s \in SceneIds}

Refuses(r, kind) ==
    /\ Return(r, Refused(kind))
    /\ UNCHANGED <<authorityVars, lockVars, base, expected, dry, candidate>>

\* What a payload becomes when the steps are applied to it.
After(steps, before, id) == [items |-> before.items \cup Placed(steps), id |-> id]

\* dry_run against the snapshot the Run captured.
RehearsalAccepts(r, after) ==
    DryRunAccepts(patch'[r].steps, base[r].scene, after,
                  ExpectedIdentity(Advanced(base[r].identity)))

\* compile_patch, an application hook, has returned the Patch.
Compiled(r, steps, patchBase) ==
    /\ pc[r] = "tail"
    /\ patch' = [patch EXCEPT ![r] = [base |-> patchBase, steps |-> steps]]

Valid(r) == PatchValid(patch'[r], base[r].identity, base[r].scene, Target[r])

\* An embedded authority with no revision left is refused before the
\* application is asked to apply.
HasCapacity(r) == embedded => CanAdvance(base[r].identity)

PatchRejected(r) ==
    \/ ~Valid(r) /\ Refuses(r, "patch_validation")
    \/ Valid(r) /\ ~HasCapacity(r) /\ Refuses(r, "revision_exhausted")

Rehearsed(r, after) ==
    /\ Valid(r) /\ HasCapacity(r)
    /\ \/ /\ ~RehearsalAccepts(r, after)
          /\ Refuses(r, "rehearsal")
       \/ /\ RehearsalAccepts(r, after)
          /\ dry' = [dry EXCEPT ![r] = after]
          /\ pc' = [pc EXCEPT ![r] = "commit"]
          /\ UNCHANGED <<authorityVars, lockVars, base, expected, candidate, outcome>>

Rehearse(r) ==
    \E steps \in Scripts, patchBase \in PatchBases(base[r].identity) :
        /\ Compiled(r, steps, patchBase)
        /\ \/ PatchRejected(r)
           \/ \E id \in PayloadIdentities(base[r].scene.id) :
                Rehearsed(r, After(steps, base[r].scene, id))

-----------------------------------------------------------------------------
(* commit_live: everything from here to the return is under one lock *)

\* (The variant installs the new Scene under the old revision.)
PreparedUnadvanced(a, after, kind) ==
    /\ candidate' = [candidate EXCEPT ![a] =
                        [scene |-> after, identity |-> identity, kind |-> kind]]
    /\ pc' = [pc EXCEPT ![a] = "install_scene"]
    /\ UNCHANGED <<authorityVars, lockVars, base, expected, patch, dry, outcome>>

Prepared(a, after, kind) ==
    /\ candidate' = [candidate EXCEPT ![a] =
                        [scene |-> after, identity |-> Advanced(identity), kind |-> kind]]
    /\ pc' = [pc EXCEPT ![a] = "install_scene"]
    /\ UNCHANGED <<authorityVars, lockVars, base, expected, patch, dry, outcome>>

FailsLocked(a, kind) ==
    /\ Return(a, Refused(kind))
    /\ Release
    /\ UNCHANGED <<authorityVars, runVars>>

\* The current identity is the Run's base identity: install the rehearsed
\* Scene, provided the revision can still advance.
CommitExact(r) ==
    /\ pc[r] = "decide"
    /\ identity = base[r].identity
    /\ \/ /\ ~CanAdvance(identity)
          /\ FailsLocked(r, "revision_exhausted")
       \/ /\ CanAdvance(identity)
          /\ Prepared(r, dry[r], "exact")

\* Strict policy: staleness is reported whatever the revision's capacity.
\* (The variant reports exhaustion first, as the rebase policy does.)
CommitStaleIfCapacity(r) ==
    /\ pc[r] = "decide"
    /\ identity # base[r].identity
    /\ policy = "strict"
    /\ FailsLocked(r, IF CanAdvance(identity) THEN "stale_patch" ELSE "revision_exhausted")

CommitStale(r) ==
    /\ pc[r] = "decide"
    /\ identity # base[r].identity
    /\ policy = "strict"
    /\ FailsLocked(r, "stale_patch")

\* Rebase policy: capacity first, then the application's rebase.
ConsultRebase(r) ==
    /\ pc[r] = "decide"
    /\ identity # base[r].identity
    /\ policy = "rebase"
    /\ \/ /\ ~CanAdvance(identity)
          /\ FailsLocked(r, "revision_exhausted")
       \/ /\ CanAdvance(identity)
          /\ pc' = [pc EXCEPT ![r] = "rebase"]
          /\ UNCHANGED <<authorityVars, lockVars, runVars, outcome>>

\* validate_rebased_patch and the second dry-run, all on the current Scene.
\* (The variant trusts the application on admissibility.)
RebaseAcceptedUnchecked(r, rebased, after) ==
    /\ PatchValid(rebased, identity, scene, Target[r])
    /\ SameOperationIds(patch[r], rebased)
    /\ DryRunAccepts(rebased.steps, scene, after, ExpectedIdentity(Advanced(identity)))

RebaseAccepted(r, rebased, after) ==
    /\ PatchValid(rebased, identity, scene, Target[r])
    /\ SameOperationIds(patch[r], rebased)
    /\ OperationsAdmissible(rebased.steps, scene)
    /\ DryRunAccepts(rebased.steps, scene, after, ExpectedIdentity(Advanced(identity)))

RebaseConflict(r) ==
    /\ pc[r] = "rebase"
    /\ FailsLocked(r, "merge_conflict")

Rebased(r, rebased, after) ==
    /\ pc[r] = "rebase"
    /\ \/ /\ ~RebaseAccepted(r, rebased, after)
          /\ FailsLocked(r, "merge_conflict")
       \/ /\ RebaseAccepted(r, rebased, after)
          /\ Prepared(r, after, "rebased")

Rebase(r) ==
    \E steps \in Scripts, rebasedBase \in {identity, base[r].identity},
       id \in PayloadIdentities(scene.id) :
        Rebased(r, [base |-> rebasedBase, steps |-> steps], After(steps, scene, id))

-----------------------------------------------------------------------------
(* try_edit *)

\* The revision is compared before the capacity, and both before the closure
\* is called.
CheckEdit(e) ==
    /\ pc[e] = "check_edit"
    /\ \/ /\ identity.revision # expected[e]
          /\ FailsLocked(e, "stale")
       \/ /\ identity.revision = expected[e]
          /\ ~CanAdvance(identity)
          /\ FailsLocked(e, "revision_exhausted")
       \/ /\ identity.revision = expected[e]
          /\ CanAdvance(identity)
          /\ pc' = [pc EXCEPT ![e] = "edit"]
          /\ UNCHANGED <<authorityVars, lockVars, runVars, outcome>>

EditRejected(e) ==
    /\ pc[e] = "edit"
    /\ FailsLocked(e, "rejected")

\* The closure returns any Scene it likes; an embedded payload must have
\* advanced with the authority.  (The variant takes what the closure returns.)
EditedUnchecked(e, edited) ==
    /\ pc[e] = "edit"
    /\ Prepared(e, edited, "edited")

Edited(e, edited) ==
    LET agrees == embedded => IdentityAgrees(Advanced(identity), edited.id)
    IN /\ pc[e] = "edit"
       /\ \/ ~agrees /\ FailsLocked(e, "embedded_identity")
          \/ agrees /\ Prepared(e, edited, "edited")

EditScene(e) ==
    \E items \in SUBSET Items, id \in PayloadIdentities(scene.id) :
        Edited(e, [items |-> items, id |-> id])

-----------------------------------------------------------------------------
(* The install, shared in shape by commit and edit: Scene, then identity *)

InstallScene(a) ==
    /\ pc[a] = "install_scene"
    /\ scene' = candidate[a].scene
    /\ pc' = [pc EXCEPT ![a] = "install_identity"]
    /\ UNCHANGED <<identity, policy, ownership, lockVars, runVars, outcome>>

InstallIdentity(a) ==
    /\ pc[a] = "install_identity"
    /\ identity' = candidate[a].identity
    /\ Return(a, [kind |-> candidate[a].kind,
                  revision |-> candidate[a].identity.revision])
    /\ Release
    /\ UNCHANGED <<scene, policy, ownership, runVars>>

-----------------------------------------------------------------------------
(* new, embedded, rebasing and embedded_rebasing differ only in the policy  *)
(* and the ownership; embedded authorities read the identity off the Scene. *)
Init ==
    /\ scene \in Scene
    /\ identity \in Identity
    /\ policy \in {"strict", "rebase"}
    /\ ownership \in {"external", "embedded"}
    /\ embedded => identity = scene.id
    /\ holder = Nobody
    /\ poisoned = FALSE
    /\ pc = [a \in Actors |-> "start"]
    /\ base = [r \in Runs |-> [scene |-> scene, identity |-> identity]]
    /\ expected = [e \in Editors |-> 0]
    /\ patch = [r \in Runs |-> [base |-> identity, steps |-> <<>>]]
    /\ dry = [r \in Runs |-> scene]
    /\ candidate = [a \in Actors |->
                      [scene |-> scene, identity |-> identity, kind |-> "edited"]]
    /\ outcome = [a \in Actors |-> Pending]

RunStep(r) ==
    \/ CaptureScene(r) \/ CaptureIdentity(r)
    \/ Rehearse(r)
    \/ CommitExact(r) \/ CommitStale(r) \/ ConsultRebase(r)
    \/ RebaseConflict(r) \/ Rebase(r)

EditStep(e) == 
    \/ ReadIdentity(e) \/ CheckEdit(e) \/ EditRejected(e) \/ EditScene(e)

AnyStep(a) == Lock(a) \/ Panic(a) \/ InstallScene(a) \/ InstallIdentity(a)

Next ==
    \/ \E r \in Runs : RunStep(r)
    \/ \E e \in Editors : EditStep(e)
    \/ \E a \in Actors : AnyStep(a)

Spec == Init /\ [][Next]_vars

\* Each actor is a thread or task that runs until its call returns: the OS
\* schedules it, an application callback returns or panics, and a mutex that
\* stays free is eventually granted.
Fairness ==
    /\ \A r \in Runs : WF_vars(RunStep(r) \/ AnyStep(r))
    /\ \A e \in Editors : WF_vars(EditStep(e) \/ AnyStep(e))

FairSpec == Spec /\ Fairness

-----------------------------------------------------------------------------
(* Properties *)

\* Every variable keeps its shape.
TypeOK ==
    /\ scene \in Scene
    /\ identity \in Identity
    /\ policy \in {"strict", "rebase"}
    /\ ownership \in {"external", "embedded"}
    /\ holder \in Actors \cup {Nobody}
    /\ poisoned \in BOOLEAN
    /\ pc \in [Actors -> Places]
    /\ base \in [Runs -> Base]
    /\ expected \in [Editors -> 0..MaxRevision]
    /\ patch \in [Runs -> Patch]
    /\ dry \in [Runs -> Scene]
    /\ candidate \in [Actors -> Candidate]
    /\ outcome \in [Actors -> Outcome]

\* A guard is held exactly by the actor inside a locked scope.
LockHeld == \A a \in Actors : pc[a] \in Holding <=> holder = a

\* Between the two assignments of an install.
Installing == \E a \in Actors : pc[a] = "install_identity"

WithSnapshot == {"tail", "commit", "decide", "rebase", "install_scene"}

\* The snapshot a Run holds is one Scene with its own identity, so that equal
\* identities mean equal Scenes: this is what lets commit_live install the
\* rehearsed Scene on an identity comparison alone, without losing an edit
\* made since the snapshot (scene_state.rs snapshot, authority.rs exact).
SnapshotSound ==
    \A r \in Runs :
        /\ pc[r] = "capture_identity" => base[r].scene = scene
        /\ pc[r] \in WithSnapshot =>
              /\ base[r].identity.scene_id = identity.scene_id
              /\ base[r].identity.revision <= identity.revision
              /\ ~Installing /\ base[r].identity = identity => base[r].scene = scene

\* With embedded ownership the payload's own identity is the authority's,
\* except inside an install: edits, exact commits and rebased commits each
\* check it against the revision they are about to install.
EmbeddedAgreement == embedded /\ ~Installing => scene.id = identity

Succeeded == {a \in Actors : outcome[a].kind \in Success}

\* No two calls ever report the same committed revision, and none reports one
\* the authority has not reached: each success is one install of its own.
CommittedRevisionsUnique ==
    /\ \A a \in Succeeded : outcome[a].revision <= identity.revision
    /\ \A a, b \in Succeeded : outcome[a].revision = outcome[b].revision => a = b

\* The refusal a Run reports is the one its situation calls for, with the
\* precedence commit_live and try_edit give: strict staleness before
\* exhaustion, exhaustion before the application's rebase is consulted.
RefusalsJustified ==
    /\ \A r \in Runs :
        /\ outcome[r].kind = "stale_patch" =>
              policy = "strict" /\ base[r].identity.revision < identity.revision
        /\ outcome[r].kind = "merge_conflict" =>
              policy = "rebase" /\ base[r].identity.revision < identity.revision
        /\ outcome[r].kind = "revision_exhausted" =>
              /\ identity.revision = MaxRevision
              /\ policy = "strict" => base[r].identity.revision = MaxRevision
        /\ pc[r] = "rebase" => CanAdvance(identity)
    /\ \A e \in Editors :
        /\ outcome[e].kind = "stale" => expected[e] < identity.revision
        /\ outcome[e].kind = "revision_exhausted" => expected[e] = MaxRevision
        /\ outcome[e].kind = "embedded_identity" => embedded

\* Every call returns or unwinds, whoever else panicked under the lock: a
\* poisoned mutex wedges nobody (SceneState::lock).
EveryCallReturns == \A a \in Actors : <>(pc[a] \in Finished)

-----------------------------------------------------------------------------
(* The abstract Scene.  An install takes effect at its first assignment;    *)
(* the lock hides the moment until the identity follows.                    *)

AbstractIdentity == IF Installing THEN Advanced(identity) ELSE identity

AbstractView == [r \in Runs |-> IF pc[r] \in WithSnapshot THEN <<base[r]>> ELSE <<>>]

AbstractNamed ==
    [e \in Editors |-> IF pc[e] \in {"try_edit", "check_edit", "edit", "install_scene"}
                       THEN <<expected[e]>> ELSE <<>>]

AbstractVerdict ==
    [a \in Actors |->
        IF pc[a] = "install_identity" \/ outcome[a].kind \in Success THEN "installed"
        ELSE IF pc[a] \in Finished THEN "refused" ELSE "open"]

Atomic == INSTANCE AtomicScene WITH
    identity <- AbstractIdentity, view <- AbstractView,
    named <- AbstractNamed, verdict <- AbstractVerdict

\* Runs and edits sharing the authority behave as if each commit, edit and
\* refusal happened at one instant on one versioned Scene: no update is lost,
\* every commit is legal on the Scene it replaces, refusals change nothing.
RefinesAtomicScene == Atomic!AtomicSpec

-----------------------------------------------------------------------------
(* The inductive invariant: what the steps between a snapshot and an        *)
(* install have established, which no interleaving can take back.           *)

\* What passed rehearsal on the Run's own snapshot.
DrySound ==
    \A r \in Runs : pc[r] \in {"commit", "decide"} =>
        /\ LegalEffect(Target[r], base[r].scene, dry[r])
        /\ embedded => /\ CanAdvance(base[r].identity)
                       /\ dry[r].id = Advanced(base[r].identity)

\* What the application is consulted on: there is a next revision, and a Run
\* is asked to rebase only when the Scene moved on under the rebase policy.
ConsultSound ==
    /\ \A r \in Runs : pc[r] = "rebase" =>
          /\ CanAdvance(identity)
          /\ policy = "rebase"
          /\ base[r].identity.revision < identity.revision
    /\ \A e \in Editors : pc[e] = "edit" =>
          CanAdvance(identity) /\ expected[e] = identity.revision

\* What is about to be installed follows the current identity...
CandidateSound ==
    \A a \in Actors :
        /\ pc[a] \in {"install_scene", "install_identity"} =>
              /\ CanAdvance(identity)
              /\ candidate[a].identity = Advanced(identity)
              /\ embedded => candidate[a].scene.id = Advanced(identity)
        /\ pc[a] = "install_identity" => scene = candidate[a].scene

\* ...and is what its kind promises on the Scene it replaces.
InstallSound ==
    /\ \A r \in Runs : pc[r] = "install_scene" =>
          /\ LegalEffect(Target[r], scene, candidate[r].scene)
          /\ \/ base[r] = [scene |-> scene, identity |-> identity]
             \/ /\ policy = "rebase"
                /\ base[r].identity.revision < identity.revision
                /\ EffectAdmissible(scene, candidate[r].scene)
    /\ \A e \in Editors : pc[e] = "install_scene" => expected[e] = identity.revision

\* The outcome is decided exactly by the step that returns it.
OutcomeSound ==
    \A a \in Actors :
        /\ outcome[a].kind # "pending" => pc[a] = "done"
        /\ pc[a] = "done" => outcome[a].kind # "pending"

\* Kinds of actor keep to their own places.
PlacesSound ==
    /\ \A r \in Runs : pc[r] \notin {"read_identity", "try_edit", "check_edit", "edit"}
    /\ \A e \in Editors : pc[e] \notin {"capture_scene", "capture_identity", "tail",
                                        "commit", "decide", "rebase"}

IInv ==
    /\ TypeOK /\ LockHeld /\ SnapshotSound /\ EmbeddedAgreement
    /\ DrySound /\ ConsultSound /\ CandidateSound /\ InstallSound
    /\ OutcomeSound /\ PlacesSound

=============================================================================
