-------------------------- MODULE SceneStateProofs --------------------------
(***************************************************************************)
(* Proofs about SceneState, for any Runs, edits, Scenes, scripts and       *)
(* revision bound.  The argument: SnapshotSound (equal identities mean     *)
(* equal Scenes) is not inductive alone.  It needs mutual exclusion        *)
(* (LockHeld), and it needs to know that whatever is about to be installed *)
(* carries the advanced identity (CandidateSound), so that a Scene never   *)
(* changes under an identity some Run has already captured.  IInv is the   *)
(* conjunction of these facts; everything else follows from it.            *)
(***************************************************************************)
EXTENDS SceneState, SequenceTheorems, TLAPS

(***************************************************************************)
(* Facts about the values (scene_state.rs advance_identity, safety.rs).    *)
(***************************************************************************)

\* The next identity is an identity, one revision on, of the same Scene.
LEMMA AdvancedIdentity ==
    ASSUME NEW id \in Identity, CanAdvance(id)
    PROVE  /\ Advanced(id) \in Identity
           /\ Advanced(id).scene_id = id.scene_id
           /\ Advanced(id).revision = id.revision + 1
           /\ Advanced(id) # id
<1>1. id.revision \in 0..MaxRevision /\ id.revision < MaxRevision
  BY DEF Identity, CanAdvance
<1>2. id.revision + 1 \in 0..MaxRevision
  BY <1>1, DomainAssumption
<1>. QED  BY <1>1, <1>2 DEF Advanced, Identity

\* Two identities that agree field by field are equal.
LEMMA AgreeingIdentities ==
    ASSUME NEW a \in Identity, NEW b \in Identity
    PROVE  IdentityAgrees(a, b) <=> a = b
BY DEF Identity, IdentityAgrees

\* An accepted rehearsal of a non-empty script is a legal effect.
LEMMA DryRunIsLegal ==
    ASSUME NEW steps \in Seq(Operation), NEW before \in Scene, NEW after \in Scene,
           NEW target \in Items, NEW expectedIds,
           steps # <<>>, HasTarget(before, target),
           DryRunAccepts(steps, before, after, expectedIds)
    PROVE  LegalEffect(target, before, after)
<1>1. 1 \in DOMAIN steps
  BY EmptySeq
<1>2. steps[1].item \in after.items /\ steps[1].item \notin before.items
  BY <1>1 DEF DryRunAccepts, Applies, Placed
<1>. QED  BY <1>2 DEF LegalEffect, DryRunAccepts

\* Admissible Operations have an admissible effect.
LEMMA AdmissibleEffect ==
    ASSUME NEW steps, NEW before \in Scene, NEW after \in Scene, NEW expectedIds,
           OperationsAdmissible(steps, before),
           DryRunAccepts(steps, before, after, expectedIds)
    PROVE  EffectAdmissible(before, after)
BY DEF OperationsAdmissible, Admissible, DryRunAccepts, Placed, EffectAdmissible

-----------------------------------------------------------------------------
(***************************************************************************)
(* Type correctness.                                                       *)
(***************************************************************************)

\* Every Init state has the declared shape.
LEMMA InitTypeOK == Init => TypeOK
<1> SUFFICES ASSUME Init PROVE TypeOK
  OBVIOUS
<1>1. 0 \in 0..MaxRevision
  BY DomainAssumption
<1>2. <<>> \in Seq(Operation)
  BY EmptySeq
<1>. QED
  BY <1>1, <1>2 DEF Init, TypeOK, Base, Patch, Candidate, Outcome, Pending, Places, Success

\* The payload identities the application may leave behind are identities.
LEMMA PayloadIdentitiesType ==
    ASSUME NEW id \in Identity
    PROVE  PayloadIdentities(id) \subseteq Identity
<1>1. CASE embedded /\ CanAdvance(id)
  <2>1. Advanced(id) \in Identity
    BY <1>1, AdvancedIdentity
  <2>2. \A s \in SceneIds : [Advanced(id) EXCEPT !.scene_id = s] \in Identity
    BY <2>1 DEF Identity
  <2>. QED  BY <2>1, <2>2 DEF PayloadIdentities
<1>2. CASE ~(embedded /\ CanAdvance(id))
  BY <1>2 DEF PayloadIdentities
<1>. QED  BY <1>1, <1>2

\* Scripts only place items.
LEMMA PlacedType ==
    ASSUME NEW steps \in Scripts
    PROVE  steps \in Seq(Operation) /\ Placed(steps) \subseteq Items
<1>1. steps \in Seq(Operation)
  BY StateAssumption
<1>2. \A i \in DOMAIN steps : steps[i] \in Operation
  BY <1>1, ElementOfSeq, LenProperties
<1>3. \A i \in DOMAIN steps : steps[i].item \in Items
  BY <1>2 DEF Operation
<1>. QED  BY <1>1, <1>3, Zenon DEF Placed

\* Every step keeps the declared shape.  The revision stays a revision because
\* the application is only consulted while there is a next one.
LEMMA StepTypeOK == TypeOK /\ ConsultSound /\ [Next]_vars => TypeOK'
<1> SUFFICES ASSUME TypeOK, ConsultSound, [Next]_vars PROVE TypeOK'
  OBVIOUS
<1> USE DEF TypeOK, authorityVars, lockVars, runVars, Actors
<1>1. ASSUME NEW a \in Actors, Lock(a) PROVE TypeOK'
  <2>1. Entry(a) \in Places
    BY <1>1 DEF Lock, Entry, Places, Holding
  <2>. QED  BY <1>1, <2>1 DEF Lock
<1>2. ASSUME NEW a \in Actors, Panic(a) PROVE TypeOK'
  <2>1. "panicked" \in Places
    BY DEF Places, Finished
  <2>2. holder' \in Actors \cup {Nobody} /\ poisoned' \in BOOLEAN
    BY <1>2, Zenon DEF Panic
  <2>. QED  BY <1>2, <2>1, <2>2 DEF Panic
<1>3. ASSUME NEW r \in Runs, CaptureScene(r) PROVE TypeOK'
  BY <1>3 DEF CaptureScene, Places, Holding, Base
<1>4. ASSUME NEW r \in Runs, CaptureIdentity(r) PROVE TypeOK'
  BY <1>4 DEF CaptureIdentity, Release, Places, Base
<1>5. ASSUME NEW e \in Editors, ReadIdentity(e) PROVE TypeOK'
  BY <1>5 DEF ReadIdentity, Release, Places, Identity
<1>6. ASSUME NEW a \in Actors, NEW k \in Refusal, Return(a, Refused(k))
      PROVE  pc' \in [Actors -> Places] /\ outcome' \in [Actors -> Outcome]
  BY <1>6 DEF Return, Refused, Outcome, Places, Finished
<1>7. ASSUME NEW a \in Actors, NEW k \in Refusal, FailsLocked(a, k) PROVE TypeOK'
  BY <1>6, <1>7 DEF FailsLocked, Release
<1>8. ASSUME NEW a \in Actors, NEW after \in Scene, NEW k \in Success,
             CanAdvance(identity), Prepared(a, after, k)
      PROVE  TypeOK'
  <2>1. [scene |-> after, identity |-> Advanced(identity), kind |-> k] \in Candidate
    BY <1>8, AdvancedIdentity DEF Candidate
  <2>. QED  BY <1>8, <2>1 DEF Prepared, Places, Holding
<1>9. ASSUME NEW r \in Runs, Rehearse(r) PROVE TypeOK'
  <2>1. PICK steps \in Scripts, patchBase \in PatchBases(base[r].identity) :
            /\ Compiled(r, steps, patchBase)
            /\ \/ PatchRejected(r)
               \/ \E id \in PayloadIdentities(base[r].scene.id) :
                    Rehearsed(r, After(steps, base[r].scene, id))
    BY <1>9 DEF Rehearse
  <2>2. base[r].scene \in Scene /\ base[r].identity \in Identity
    BY DEF Base
  <2>3. patch' \in [Runs -> Patch]
    <3>1. patchBase \in Identity
      BY <2>2 DEF PatchBases, Identity
    <3>2. [base |-> patchBase, steps |-> steps] \in Patch
      BY <3>1, PlacedType DEF Patch
    <3>. QED  BY <2>1, <3>2 DEF Compiled
  <2>4. ASSUME NEW k \in Refusal, Refuses(r, k) PROVE TypeOK'
    BY <1>6, <2>3, <2>4 DEF Refuses
  <2>5. CASE PatchRejected(r)
    BY <2>4, <2>5 DEF PatchRejected, Refusal
  <2>6. ASSUME NEW id \in PayloadIdentities(base[r].scene.id),
               Rehearsed(r, After(steps, base[r].scene, id))
        PROVE  TypeOK'
    <3>1. After(steps, base[r].scene, id) \in Scene
      BY <2>2, PlacedType, PayloadIdentitiesType DEF After, Scene
    <3>. QED  BY <2>3, <2>4, <2>6, <3>1 DEF Rehearsed, Refusal, Places
  <2>. QED  BY <2>1, <2>5, <2>6
<1>10. ASSUME NEW r \in Runs, CommitExact(r) PROVE TypeOK'
  BY <1>7, <1>8, <1>10 DEF CommitExact, Refusal, Success
<1>11. ASSUME NEW r \in Runs, CommitStale(r) PROVE TypeOK'
  BY <1>7, <1>11 DEF CommitStale, Refusal
<1>12. ASSUME NEW r \in Runs, ConsultRebase(r) PROVE TypeOK'
  <2>1. CASE FailsLocked(r, "revision_exhausted")
    BY <1>7, <2>1 DEF Refusal
  <2>2. CASE ~FailsLocked(r, "revision_exhausted")
    BY <1>12, <2>2 DEF ConsultRebase, Places, Holding
  <2>. QED  BY <2>1, <2>2
<1>13. ASSUME NEW r \in Runs, RebaseConflict(r) PROVE TypeOK'
  BY <1>7, <1>13 DEF RebaseConflict, Refusal
<1>14. ASSUME NEW r \in Runs, Rebase(r) PROVE TypeOK'
  <2>1. PICK steps \in Scripts, rebasedBase \in {identity, base[r].identity},
             id \in PayloadIdentities(scene.id) :
            Rebased(r, [base |-> rebasedBase, steps |-> steps], After(steps, scene, id))
    BY <1>14 DEF Rebase
  <2>2. After(steps, scene, id) \in Scene
    BY PlacedType, PayloadIdentitiesType DEF After, Scene
  <2>3. CanAdvance(identity)
    BY <2>1 DEF Rebased, ConsultSound
  <2>. QED  BY <1>7, <1>8, <2>1, <2>2, <2>3 DEF Rebased, Refusal, Success
<1>15. ASSUME NEW e \in Editors, CheckEdit(e) PROVE TypeOK'
  <2>1. CASE FailsLocked(e, "stale") \/ FailsLocked(e, "revision_exhausted")
    BY <1>7, <2>1 DEF Refusal
  <2>2. CASE ~(FailsLocked(e, "stale") \/ FailsLocked(e, "revision_exhausted"))
    BY <1>15, <2>2 DEF CheckEdit, Places, Holding
  <2>. QED  BY <2>1, <2>2
<1>16. ASSUME NEW e \in Editors, EditRejected(e) PROVE TypeOK'
  BY <1>7, <1>16 DEF EditRejected, Refusal
<1>17. ASSUME NEW e \in Editors, EditScene(e) PROVE TypeOK'
  <2>1. PICK items \in SUBSET Items, id \in PayloadIdentities(scene.id) :
            Edited(e, [items |-> items, id |-> id])
    BY <1>17 DEF EditScene
  <2>2. [items |-> items, id |-> id] \in Scene
    BY PayloadIdentitiesType DEF Scene
  <2>3. CanAdvance(identity)
    BY <2>1 DEF Edited, ConsultSound
  <2>. QED  BY <1>7, <1>8, <2>1, <2>2, <2>3 DEF Edited, Refusal, Success
<1>18. ASSUME NEW a \in Actors, InstallScene(a) PROVE TypeOK'
  BY <1>18 DEF InstallScene, Places, Holding, Candidate
<1>19. ASSUME NEW a \in Actors, InstallIdentity(a) PROVE TypeOK'
  <2>1. candidate[a] \in Candidate
    OBVIOUS
  <2>2. [kind |-> candidate[a].kind, revision |-> candidate[a].identity.revision] \in Outcome
    BY <2>1 DEF Outcome, Candidate, Identity
  <2>. QED
    BY <1>19, <2>1, <2>2 DEF InstallIdentity, Return, Release, Places, Finished, Candidate
<1>20. CASE UNCHANGED vars
  BY <1>20 DEF vars
<1> HIDE DEF TypeOK, authorityVars, lockVars, runVars, Actors
<1>. QED
  BY <1>1, <1>2, <1>3, <1>4, <1>5, <1>9, <1>10, <1>11, <1>12, <1>13, <1>14, <1>15,
     <1>16, <1>17, <1>18, <1>19, <1>20 DEF Next, RunStep, EditStep, AnyStep

-----------------------------------------------------------------------------
(***************************************************************************)
(* What a step amounts to, with the callback's choices forgotten.  Each    *)
(* form is a consequence of IInv and one or several actions; the invariant *)
(* and the refinement are proved over these forms.                         *)
(***************************************************************************)

\* A rehearsal either refuses the Run or leaves a legal effect on its snapshot.
Rehearses(r) ==
    /\ pc[r] = "tail"
    /\ UNCHANGED <<authorityVars, lockVars, base, expected, candidate>>
    /\ \/ \E k \in Refusal : Return(r, Refused(k)) /\ UNCHANGED dry
       \/ \E after \in Scene :
             /\ LegalEffect(Target[r], base[r].scene, after)
             /\ embedded => /\ CanAdvance(base[r].identity)
                            /\ after.id = Advanced(base[r].identity)
             /\ dry' = [dry EXCEPT ![r] = after]
             /\ pc' = [pc EXCEPT ![r] = "commit"]
             /\ UNCHANGED outcome

\* A locked scope returns a refusal.
Fails(a) ==
    /\ pc[a] \in {"decide", "rebase", "check_edit", "edit"}
    /\ \E k \in Refusal : FailsLocked(a, k)

\* The application is called under the lock, with a next revision to fill.
Consults(a) ==
    /\ CanAdvance(identity)
    /\ \/ /\ a \in Runs /\ pc[a] = "decide"
          /\ policy = "rebase"
          /\ base[a].identity.revision < identity.revision
          /\ pc' = [pc EXCEPT ![a] = "rebase"]
       \/ /\ a \in Editors /\ pc[a] = "check_edit"
          /\ expected[a] = identity.revision
          /\ pc' = [pc EXCEPT ![a] = "edit"]
    /\ UNCHANGED <<authorityVars, lockVars, runVars, outcome>>

\* What a Run or an edit may install.
MayInstall(a, after) ==
    /\ CanAdvance(identity)
    /\ embedded => after.id = Advanced(identity)
    /\ \/ /\ a \in Runs
          /\ LegalEffect(Target[a], scene, after)
          /\ \/ base[a] = [scene |-> scene, identity |-> identity]
             \/ /\ policy = "rebase"
                /\ base[a].identity.revision < identity.revision
                /\ EffectAdmissible(scene, after)
       \/ a \in Editors /\ expected[a] = identity.revision

Prepares(a) ==
    /\ pc[a] \in {"decide", "rebase", "edit"}
    /\ \E after \in Scene, k \in Success : MayInstall(a, after) /\ Prepared(a, after, k)

\* The rehearsal refuses or leaves a legal effect (deterministic.rs dry_run_stage).
LEMMA RehearseForm ==
    ASSUME TypeOK, NEW r \in Runs, Rehearse(r)
    PROVE  Rehearses(r)
<1>1. PICK steps \in Scripts, patchBase \in PatchBases(base[r].identity) :
          /\ Compiled(r, steps, patchBase)
          /\ \/ PatchRejected(r)
             \/ \E id \in PayloadIdentities(base[r].scene.id) :
                  Rehearsed(r, After(steps, base[r].scene, id))
  BY DEF Rehearse
<1>2. base[r].scene \in Scene /\ base[r].identity \in Identity
  BY DEF TypeOK, Base
<1>3. patch'[r].steps = steps /\ steps \in Seq(Operation)
  BY <1>1, PlacedType DEF Compiled, TypeOK
<1>4. pc[r] = "tail"
  BY <1>1 DEF Compiled
<1>5. ASSUME NEW k \in Refusal, Refuses(r, k) PROVE Rehearses(r)
  BY <1>4, <1>5 DEF Refuses, Rehearses
<1>6. CASE PatchRejected(r)
  BY <1>5, <1>6 DEF PatchRejected, Refusal
<1>7. ASSUME NEW id \in PayloadIdentities(base[r].scene.id),
             Rehearsed(r, After(steps, base[r].scene, id))
      PROVE  Rehearses(r)
  <2> DEFINE after == After(steps, base[r].scene, id)
  <2>1. after \in Scene
    BY <1>2, PlacedType, PayloadIdentitiesType DEF After, Scene
  <2>2. CASE Refuses(r, "rehearsal")
    BY <1>5, <2>2 DEF Refusal
  <2>3. CASE ~Refuses(r, "rehearsal")
    <3>1. /\ Valid(r) /\ HasCapacity(r) /\ RehearsalAccepts(r, after)
          /\ dry' = [dry EXCEPT ![r] = after]
          /\ pc' = [pc EXCEPT ![r] = "commit"]
          /\ UNCHANGED <<authorityVars, lockVars, base, expected, candidate, outcome>>
      BY <1>7, <2>3 DEF Rehearsed
    <3>2. LegalEffect(Target[r], base[r].scene, after)
      <4>1. Target[r] \in Items
        BY StateAssumption
      <4>2. steps # <<>> /\ HasTarget(base[r].scene, Target[r])
        BY <1>3, <3>1 DEF Valid, PatchValid
      <4>. QED
        BY <1>2, <1>3, <2>1, <3>1, <4>1, <4>2, DryRunIsLegal DEF RehearsalAccepts
    <3>3. embedded => CanAdvance(base[r].identity) /\ after.id = Advanced(base[r].identity)
      <4> SUFFICES ASSUME embedded
                   PROVE  CanAdvance(base[r].identity) /\ after.id = Advanced(base[r].identity)
        OBVIOUS
      <4>1. CanAdvance(base[r].identity)
        BY <3>1 DEF HasCapacity
      <4>2. IdentityAgrees(Advanced(base[r].identity), after.id)
        BY <3>1 DEF RehearsalAccepts, DryRunAccepts, ExpectedIdentity
      <4>. QED
        BY <1>2, <2>1, <4>1, <4>2, AdvancedIdentity, AgreeingIdentities DEF Scene
    <3>. QED  BY <1>4, <2>1, <3>1, <3>2, <3>3 DEF Rehearses
  <2>. QED  BY <2>2, <2>3
<1>. QED  BY <1>1, <1>6, <1>7

\* Where identities are equal, so are Scenes: the exact commit installs the
\* effect the Run rehearsed on its snapshot (authority.rs prepare_exact_commit).
LEMMA CommitExactForm ==
    ASSUME IInv, NEW r \in Runs, CommitExact(r)
    PROVE  Fails(r) \/ Prepares(r)
<1>1. pc[r] = "decide" /\ identity = base[r].identity
  BY DEF CommitExact
<1>2. CASE FailsLocked(r, "revision_exhausted")
  BY <1>1, <1>2 DEF Fails, Refusal
<1>3. CASE CanAdvance(identity) /\ Prepared(r, dry[r], "exact")
  <2>1. base[r] \in Base /\ dry[r] \in Scene
    BY DEF IInv, TypeOK
  <2>2. ~Installing
    BY <1>1 DEF IInv, LockHeld, Installing, Holding, Actors
  <2>3. base[r].scene = scene
    BY <1>1, <2>2 DEF IInv, SnapshotSound, WithSnapshot
  <2>4. base[r] = [scene |-> scene, identity |-> identity]
    BY <1>1, <2>1, <2>3 DEF Base
  <2>5. LegalEffect(Target[r], scene, dry[r]) /\ (embedded => dry[r].id = Advanced(identity))
    BY <1>1, <2>3 DEF IInv, DrySound
  <2>. QED  BY <1>1, <1>3, <2>1, <2>4, <2>5 DEF Prepares, MayInstall, Success
<1>. QED  BY <1>2, <1>3 DEF CommitExact

\* A rebase is refused or leaves an effect legal and admissible on the Scene
\* it replaces (authority.rs validate_rebased_patch, prepare_rebased_commit).
LEMMA RebaseForm ==
    ASSUME IInv, NEW r \in Runs, Rebase(r)
    PROVE  Fails(r) \/ Prepares(r)
<1>1. PICK steps \in Scripts, rebasedBase \in {identity, base[r].identity},
           id \in PayloadIdentities(scene.id) :
          Rebased(r, [base |-> rebasedBase, steps |-> steps], After(steps, scene, id))
  BY DEF Rebase
<1> DEFINE rebased == [base |-> rebasedBase, steps |-> steps]
           after == After(steps, scene, id)
<1>2. pc[r] = "rebase"
  BY <1>1 DEF Rebased
<1>3. /\ CanAdvance(identity) /\ policy = "rebase"
      /\ base[r].identity.revision < identity.revision
  BY <1>2 DEF IInv, ConsultSound
<1>4. scene \in Scene /\ identity \in Identity
  BY DEF IInv, TypeOK
<1>5. after \in Scene
  BY <1>4, PlacedType, PayloadIdentitiesType DEF After, Scene
<1>6. CASE FailsLocked(r, "merge_conflict")
  BY <1>2, <1>6 DEF Fails, Refusal
<1>7. CASE RebaseAccepted(r, rebased, after) /\ Prepared(r, after, "rebased")
  <2>1. /\ steps \in Seq(Operation) /\ steps # <<>>
        /\ HasTarget(scene, Target[r]) /\ Target[r] \in Items
    BY <1>7, PlacedType, StateAssumption DEF RebaseAccepted, PatchValid
  <2>2. /\ OperationsAdmissible(steps, scene)
        /\ DryRunAccepts(steps, scene, after, ExpectedIdentity(Advanced(identity)))
    BY <1>7 DEF RebaseAccepted
  <2>3. LegalEffect(Target[r], scene, after)
    BY <1>4, <1>5, <2>1, <2>2, DryRunIsLegal
  <2>4. EffectAdmissible(scene, after)
    BY <1>4, <1>5, <2>2, AdmissibleEffect
  <2>5. embedded => after.id = Advanced(identity)
    <3> SUFFICES ASSUME embedded PROVE after.id = Advanced(identity)
      OBVIOUS
    <3>1. IdentityAgrees(Advanced(identity), after.id)
      BY <2>2 DEF DryRunAccepts, ExpectedIdentity
    <3>. QED
      BY <1>3, <1>4, <1>5, <3>1, AdvancedIdentity, AgreeingIdentities DEF Scene
  <2>. QED  BY <1>2, <1>3, <1>5, <1>7, <2>3, <2>4, <2>5 DEF Prepares, MayInstall, Success
<1>. QED  BY <1>1, <1>6, <1>7 DEF Rebased

\* An edit is refused or leaves a payload that advanced with the authority
\* (scene_state.rs try_edit).
LEMMA EditSceneForm ==
    ASSUME IInv, NEW e \in Editors, EditScene(e)
    PROVE  Fails(e) \/ Prepares(e)
<1>1. PICK items \in SUBSET Items, id \in PayloadIdentities(scene.id) :
          Edited(e, [items |-> items, id |-> id])
  BY DEF EditScene
<1> DEFINE edited == [items |-> items, id |-> id]
<1>2. pc[e] = "edit"
  BY <1>1 DEF Edited
<1>3. CanAdvance(identity) /\ expected[e] = identity.revision
  BY <1>2 DEF IInv, ConsultSound
<1>4. scene \in Scene /\ identity \in Identity
  BY DEF IInv, TypeOK
<1>5. edited \in Scene
  BY <1>4, PayloadIdentitiesType DEF Scene
<1>6. CASE FailsLocked(e, "embedded_identity")
  BY <1>2, <1>6 DEF Fails, Refusal
<1>7. CASE /\ embedded => IdentityAgrees(Advanced(identity), edited.id)
           /\ Prepared(e, edited, "edited")
  <2>1. embedded => edited.id = Advanced(identity)
    BY <1>3, <1>4, <1>5, <1>7, AdvancedIdentity, AgreeingIdentities DEF Scene
  <2>. QED  BY <1>2, <1>3, <1>5, <1>7, <2>1 DEF Prepares, MayInstall, Success
<1>. QED  BY <1>1, <1>6, <1>7 DEF Edited

\* The application is asked to rebase only over a Scene that moved on.
LEMMA ConsultRebaseForm ==
    ASSUME IInv, NEW r \in Runs, ConsultRebase(r)
    PROVE  Fails(r) \/ Consults(r)
<1>1. pc[r] = "decide" /\ identity # base[r].identity /\ policy = "rebase"
  BY DEF ConsultRebase
<1>2. CASE FailsLocked(r, "revision_exhausted")
  BY <1>1, <1>2 DEF Fails, Refusal
<1>3. CASE ~FailsLocked(r, "revision_exhausted")
  <2>1. base[r].identity \in Identity /\ identity \in Identity
    BY DEF IInv, TypeOK, Base
  <2>2. /\ base[r].identity.scene_id = identity.scene_id
        /\ base[r].identity.revision <= identity.revision
    BY <1>1 DEF IInv, SnapshotSound, WithSnapshot
  <2>3. base[r].identity.revision < identity.revision
    BY <1>1, <2>1, <2>2, DomainAssumption DEF Identity
  <2>. QED  BY <1>1, <1>3, <2>3 DEF ConsultRebase, Consults
<1>. QED  BY <1>2, <1>3

\* The closure is called only over the revision the caller named.
LEMMA CheckEditForm ==
    ASSUME NEW e \in Editors, CheckEdit(e)
    PROVE  Fails(e) \/ Consults(e)
<1>1. pc[e] = "check_edit"
  BY DEF CheckEdit
<1>2. CASE FailsLocked(e, "stale") \/ FailsLocked(e, "revision_exhausted")
  BY <1>1, <1>2 DEF Fails, Refusal
<1>3. CASE ~(FailsLocked(e, "stale") \/ FailsLocked(e, "revision_exhausted"))
  BY <1>1, <1>3 DEF CheckEdit, Consults
<1>. QED  BY <1>2, <1>3

\* Every step is one of these forms.
LEMMA StepForms ==
    ASSUME IInv, Next
    PROVE  \/ \E r \in Runs : CaptureScene(r) \/ CaptureIdentity(r) \/ Rehearses(r)
           \/ \E e \in Editors : ReadIdentity(e)
           \/ \E a \in Actors : \/ Lock(a) \/ Panic(a) \/ Fails(a) \/ Consults(a)
                               \/ Prepares(a) \/ InstallScene(a) \/ InstallIdentity(a)
<1>1. ASSUME NEW r \in Runs, CommitStale(r) PROVE Fails(r)
  BY <1>1 DEF CommitStale, Fails, Refusal
<1>2. ASSUME NEW r \in Runs, RebaseConflict(r) PROVE Fails(r)
  BY <1>2 DEF RebaseConflict, Fails, Refusal
<1>3. ASSUME NEW e \in Editors, EditRejected(e) PROVE Fails(e)
  BY <1>3 DEF EditRejected, Fails, Refusal
<1>4. TypeOK
  BY DEF IInv
<1>5. Runs \subseteq Actors /\ Editors \subseteq Actors
  BY DEF Actors
<1>. QED
  BY <1>1, <1>2, <1>3, <1>4, <1>5, RehearseForm, CommitExactForm, RebaseForm, EditSceneForm,
     ConsultRebaseForm, CheckEditForm DEF Next, RunStep, EditStep, AnyStep

-----------------------------------------------------------------------------
(***************************************************************************)
(* Invariance, one conjunct of IInv at a time.                             *)
(***************************************************************************)

\* Runs and edits are different actors.
LEMMA ActorKinds ==
    /\ Runs \subseteq Actors /\ Editors \subseteq Actors
    /\ \A r \in Runs : r \notin Editors
    /\ \A a \in Actors : a \in Runs \/ a \in Editors
    /\ Nobody \notin Actors
BY StateAssumption DEF Actors

\* The lock and the place of every actor move together.
LEMMA StepLockHeld == ASSUME IInv, Next PROVE LockHeld'
<1> USE ActorKinds DEF IInv, TypeOK, LockHeld, Holding
<1>1. ASSUME NEW r \in Runs, CaptureScene(r) \/ CaptureIdentity(r) \/ Rehearses(r)
      PROVE  LockHeld'
  BY <1>1 DEF CaptureScene, CaptureIdentity, Rehearses, Release, Return, lockVars
<1>2. ASSUME NEW e \in Editors, ReadIdentity(e) PROVE LockHeld'
  BY <1>2 DEF ReadIdentity, Release
<1>3. ASSUME NEW a \in Actors, Lock(a) PROVE LockHeld'
  <2>1. Entry(a) \in Holding
    BY <1>3 DEF Lock, Entry, Holding
  <2>. QED  BY <1>3, <2>1 DEF Lock
<1>4. ASSUME NEW a \in Actors, Panic(a) PROVE LockHeld'
  BY <1>4 DEF Panic
<1>5. ASSUME NEW a \in Actors, Fails(a) PROVE LockHeld'
  BY <1>5 DEF Fails, FailsLocked, Return, Release
<1>6. ASSUME NEW a \in Actors, Consults(a) PROVE LockHeld'
  BY <1>6 DEF Consults, lockVars
<1>7. ASSUME NEW a \in Actors, Prepares(a) PROVE LockHeld'
  BY <1>7 DEF Prepares, Prepared, lockVars
<1>8. ASSUME NEW a \in Actors, InstallScene(a) \/ InstallIdentity(a) PROVE LockHeld'
  BY <1>8 DEF InstallScene, InstallIdentity, Return, Release, lockVars
<1> HIDE DEF IInv, TypeOK, LockHeld, Holding
<1>. QED  BY <1>1, <1>2, <1>3, <1>4, <1>5, <1>6, <1>7, <1>8, StepForms

\* Each kind of actor keeps to its own places, and the outcome appears with
\* the return that decides it.
LEMMA StepPlacesOutcome == ASSUME IInv, Next PROVE PlacesSound' /\ OutcomeSound'
<1> DEFINE P == PlacesSound' /\ OutcomeSound'
<1> USE ActorKinds DEF IInv, TypeOK, PlacesSound, OutcomeSound
<1>1. ASSUME NEW r \in Runs, CaptureScene(r) \/ CaptureIdentity(r) \/ Rehearses(r)
      PROVE  P
  BY <1>1 DEF CaptureScene, CaptureIdentity, Rehearses, Return, Refused, Refusal
<1>2. ASSUME NEW e \in Editors, ReadIdentity(e) PROVE P
  BY <1>2 DEF ReadIdentity
<1>3. ASSUME NEW a \in Actors, Lock(a) PROVE P
  BY <1>3 DEF Lock, Entry
<1>4. ASSUME NEW a \in Actors, Panic(a) PROVE P
  BY <1>4 DEF Panic, Callbacks
<1>5. ASSUME NEW a \in Actors, Fails(a) PROVE P
  BY <1>5 DEF Fails, FailsLocked, Return, Refused, Refusal
<1>6. ASSUME NEW a \in Actors, Consults(a) PROVE P
  BY <1>6 DEF Consults
<1>7. ASSUME NEW a \in Actors, Prepares(a) PROVE P
  BY <1>7 DEF Prepares, Prepared
<1>8. ASSUME NEW a \in Actors, InstallScene(a) \/ InstallIdentity(a) PROVE P
  <2>1. candidate[a].kind \in Success
    BY DEF Candidate
  <2>. QED  BY <1>8, <2>1 DEF InstallScene, InstallIdentity, Return, Success
<1> HIDE DEF IInv, TypeOK, PlacesSound, OutcomeSound
<1>. QED  BY <1>1, <1>2, <1>3, <1>4, <1>5, <1>6, <1>7, <1>8, StepForms

\* Outside the two assignments of an install nothing touches the authority.
LEMMA AuthorityKept ==
    ASSUME Next
    PROVE  \/ UNCHANGED authorityVars
           \/ \E a \in Actors : InstallScene(a) \/ InstallIdentity(a)
BY DEF Next, RunStep, EditStep, AnyStep, CaptureScene, CaptureIdentity, Rehearse, PatchRejected,
       Rehearsed, Refuses, CommitExact, CommitStale, ConsultRebase, RebaseConflict, Rebase,
       Rebased, Prepared, FailsLocked, ReadIdentity, CheckEdit, EditRejected, EditScene, Edited,
       Lock, Panic

\* While one actor is inside a locked scope, no other is.
LEMMA Exclusive ==
    ASSUME IInv, NEW a \in Actors, pc[a] \in Holding
    PROVE  \A b \in Actors : b # a => pc[b] \notin Holding
BY DEF IInv, LockHeld

\* What is prepared for install follows the current identity and stays so
\* until it is installed.
LEMMA StepCandidate == ASSUME IInv, Next PROVE CandidateSound'
<1> USE ActorKinds DEF IInv, TypeOK, CandidateSound
<1>1. ASSUME NEW r \in Runs, CaptureScene(r) \/ CaptureIdentity(r) \/ Rehearses(r)
      PROVE  CandidateSound'
  BY <1>1 DEF CaptureScene, CaptureIdentity, Rehearses, Return, authorityVars, embedded, CanAdvance, Advanced
<1>2. ASSUME NEW e \in Editors, ReadIdentity(e) PROVE CandidateSound'
  BY <1>2 DEF ReadIdentity, authorityVars, embedded, CanAdvance, Advanced
<1>3. ASSUME NEW a \in Actors, Lock(a) PROVE CandidateSound'
  BY <1>3 DEF Lock, Entry, runVars, authorityVars, embedded, CanAdvance, Advanced
<1>4. ASSUME NEW a \in Actors, Panic(a) PROVE CandidateSound'
  BY <1>4 DEF Panic, runVars, authorityVars, embedded, CanAdvance, Advanced
<1>5. ASSUME NEW a \in Actors, Fails(a) PROVE CandidateSound'
  BY <1>5 DEF Fails, FailsLocked, Return, runVars, authorityVars, embedded, CanAdvance, Advanced
<1>6. ASSUME NEW a \in Actors, Consults(a) PROVE CandidateSound'
  BY <1>6 DEF Consults, runVars, authorityVars, embedded, CanAdvance, Advanced
<1>7. ASSUME NEW a \in Actors, Prepares(a) PROVE CandidateSound'
  BY <1>7 DEF Prepares, MayInstall, Prepared, authorityVars, embedded, CanAdvance, Advanced
<1>8. ASSUME NEW a \in Actors, InstallScene(a) PROVE CandidateSound'
  <2>1. \A b \in Actors : b # a => pc[b] \notin Holding
    BY <1>8, Exclusive DEF InstallScene, Holding
  <2>. QED  BY <1>8, <2>1 DEF InstallScene, Holding, runVars, embedded, CanAdvance, Advanced
<1>9. ASSUME NEW a \in Actors, InstallIdentity(a) PROVE CandidateSound'
  <2>1. \A b \in Actors : b # a => pc[b] \notin Holding
    BY <1>9, Exclusive DEF InstallIdentity, Holding
  <2>. QED  BY <1>9, <2>1 DEF InstallIdentity, Return, Holding
<1> HIDE DEF IInv, TypeOK, CandidateSound
<1>. QED  BY <1>1, <1>2, <1>3, <1>4, <1>5, <1>6, <1>7, <1>8, <1>9, StepForms

\* What a Run rehearsed on its snapshot stays with the snapshot.
LEMMA StepDry == ASSUME IInv, Next PROVE DrySound'
<1> USE ActorKinds DEF IInv, TypeOK, DrySound, CanAdvance, Advanced
<1>1. ASSUME NEW r \in Runs, Rehearses(r) PROVE DrySound'
  BY <1>1 DEF Rehearses, Return, authorityVars, embedded
<1>2. ASSUME NEW r \in Runs, CaptureScene(r) \/ CaptureIdentity(r) PROVE DrySound'
  BY <1>2 DEF CaptureScene, CaptureIdentity, authorityVars, embedded
<1>3. ASSUME NEW e \in Editors, ReadIdentity(e) PROVE DrySound'
  BY <1>3 DEF ReadIdentity, authorityVars, embedded
<1>4. ASSUME NEW a \in Actors, Lock(a) PROVE DrySound'
  BY <1>4 DEF Lock, Entry, runVars, authorityVars, embedded
<1>5. ASSUME NEW a \in Actors, Panic(a) PROVE DrySound'
  BY <1>5 DEF Panic, runVars, authorityVars, embedded
<1>6. ASSUME NEW a \in Actors, Fails(a) \/ Consults(a) PROVE DrySound'
  BY <1>6 DEF Fails, FailsLocked, Consults, Return, runVars, authorityVars, embedded
<1>7. ASSUME NEW a \in Actors, Prepares(a) PROVE DrySound'
  BY <1>7 DEF Prepares, Prepared, authorityVars, embedded
<1>8. ASSUME NEW a \in Actors, InstallScene(a) \/ InstallIdentity(a) PROVE DrySound'
  BY <1>8 DEF InstallScene, InstallIdentity, Return, runVars, embedded
<1> HIDE DEF IInv, TypeOK, DrySound
<1>. QED  BY <1>1, <1>2, <1>3, <1>4, <1>5, <1>6, <1>7, <1>8, StepForms

\* What the application is consulted on cannot change while it is consulted.
LEMMA StepConsult == ASSUME IInv, Next PROVE ConsultSound'
<1> USE ActorKinds DEF IInv, TypeOK, ConsultSound, CanAdvance
<1>1. ASSUME NEW r \in Runs, CaptureScene(r) \/ CaptureIdentity(r) \/ Rehearses(r)
      PROVE  ConsultSound'
  <2>1. \A q \in Runs : pc[q] = "rebase" => q # r
    BY <1>1 DEF CaptureScene, CaptureIdentity, Rehearses
  <2>. QED  BY <1>1, <2>1 DEF CaptureScene, CaptureIdentity, Rehearses, Return, authorityVars
<1>2. ASSUME NEW e \in Editors, ReadIdentity(e) PROVE ConsultSound'
  BY <1>2 DEF ReadIdentity, authorityVars
<1>3. ASSUME NEW a \in Actors, Lock(a) PROVE ConsultSound'
  BY <1>3 DEF Lock, Entry, runVars, authorityVars
<1>4. ASSUME NEW a \in Actors, Panic(a) PROVE ConsultSound'
  BY <1>4 DEF Panic, runVars, authorityVars
<1>5. ASSUME NEW a \in Actors, Fails(a) PROVE ConsultSound'
  BY <1>5 DEF Fails, FailsLocked, Return, runVars, authorityVars
<1>6. ASSUME NEW a \in Actors, Consults(a) PROVE ConsultSound'
  BY <1>6 DEF Consults, runVars, authorityVars
<1>7. ASSUME NEW a \in Actors, Prepares(a) PROVE ConsultSound'
  BY <1>7 DEF Prepares, Prepared, authorityVars
<1>8. ASSUME NEW a \in Actors, InstallScene(a) \/ InstallIdentity(a) PROVE ConsultSound'
  <2>1. \A b \in Actors : b # a => pc[b] \notin Holding
    BY <1>8, Exclusive DEF InstallScene, InstallIdentity, Holding
  <2>. QED  BY <1>8, <2>1 DEF InstallScene, InstallIdentity, Return, Holding, runVars
<1> HIDE DEF IInv, TypeOK, ConsultSound, CanAdvance
<1>. QED  BY <1>1, <1>2, <1>3, <1>4, <1>5, <1>6, <1>7, <1>8, StepForms

\* What may be installed when it is prepared may still be when it is installed.
LEMMA StepInstall == ASSUME IInv, Next PROVE InstallSound'
<1> USE ActorKinds DEF IInv, TypeOK, InstallSound
<1>1. ASSUME NEW r \in Runs, CaptureScene(r) \/ CaptureIdentity(r) \/ Rehearses(r)
      PROVE  InstallSound'
  BY <1>1 DEF CaptureScene, CaptureIdentity, Rehearses, Return, authorityVars
<1>2. ASSUME NEW e \in Editors, ReadIdentity(e) PROVE InstallSound'
  BY <1>2 DEF ReadIdentity, authorityVars
<1>3. ASSUME NEW a \in Actors, Lock(a) PROVE InstallSound'
  BY <1>3 DEF Lock, Entry, runVars, authorityVars
<1>4. ASSUME NEW a \in Actors, Panic(a) PROVE InstallSound'
  BY <1>4 DEF Panic, runVars, authorityVars
<1>5. ASSUME NEW a \in Actors, Fails(a) \/ Consults(a) PROVE InstallSound'
  BY <1>5 DEF Fails, FailsLocked, Consults, Return, runVars, authorityVars
<1>6. ASSUME NEW a \in Actors, Prepares(a) PROVE InstallSound'
  BY <1>6 DEF Prepares, MayInstall, Prepared, authorityVars
<1>7. ASSUME NEW a \in Actors, InstallScene(a) \/ InstallIdentity(a) PROVE InstallSound'
  <2>1. \A b \in Actors : b # a => pc[b] \notin Holding
    BY <1>7, Exclusive DEF InstallScene, InstallIdentity, Holding
  <2>. QED  BY <1>7, <2>1 DEF InstallScene, InstallIdentity, Return, Holding, runVars
<1> HIDE DEF IInv, TypeOK, InstallSound
<1>. QED  BY <1>1, <1>2, <1>3, <1>4, <1>5, <1>6, <1>7, StepForms

\* The embedded payload and the authority advance together.
LEMMA StepEmbedded == ASSUME IInv, Next PROVE EmbeddedAgreement'
<1> USE ActorKinds DEF IInv, TypeOK, EmbeddedAgreement, embedded, Installing
<1>1. ASSUME UNCHANGED authorityVars, ~Installing PROVE EmbeddedAgreement'
  BY <1>1 DEF authorityVars
<1>2. ASSUME UNCHANGED authorityVars, Installing,
             ~\E a \in Actors : Panic(a) \/ InstallIdentity(a)
      PROVE  Installing'
  <2>1. PICK a \in Actors : pc[a] = "install_identity"
    BY <1>2
  <2>2. \A b \in Actors : b # a => pc[b] \notin Holding
    BY <2>1, Exclusive DEF Holding
  <2>3. pc'[a] = pc[a]
    <3>1. ASSUME NEW r \in Runs, CaptureScene(r) \/ CaptureIdentity(r) \/ Rehearses(r)
          PROVE  pc'[a] = pc[a]
      BY <3>1, <2>1 DEF CaptureScene, CaptureIdentity, Rehearses, Return
    <3>2. ASSUME NEW e \in Editors, ReadIdentity(e) PROVE pc'[a] = pc[a]
      BY <3>2, <2>1 DEF ReadIdentity
    <3>3. ASSUME NEW b \in Actors,
                 Lock(b) \/ Fails(b) \/ Consults(b) \/ Prepares(b) \/ InstallScene(b)
          PROVE  pc'[a] = pc[a]
      BY <3>3, <2>1 DEF Lock, Fails, FailsLocked, Return, Consults, Prepares, Prepared, InstallScene
    <3> HIDE DEF IInv, TypeOK, EmbeddedAgreement, embedded, Installing
    <3>. QED  BY <1>2, <3>1, <3>2, <3>3, StepForms
  <2>. QED  BY <2>1, <2>3
<1>3. ASSUME NEW a \in Actors, Panic(a) PROVE EmbeddedAgreement'
  BY <1>3 DEF Panic, Callbacks, authorityVars
<1>4. ASSUME NEW a \in Actors, InstallScene(a) PROVE EmbeddedAgreement'
  BY <1>4 DEF InstallScene
<1>5. ASSUME NEW a \in Actors, InstallIdentity(a) PROVE EmbeddedAgreement'
  BY <1>5 DEF InstallIdentity, Return, CandidateSound
<1>6. Installing' => EmbeddedAgreement'
  OBVIOUS
<1> HIDE DEF IInv, TypeOK, EmbeddedAgreement, embedded, Installing
<1>. QED  BY <1>1, <1>2, <1>3, <1>4, <1>5, <1>6, AuthorityKept

\* A captured snapshot stays one Scene with its own identity: nobody can
\* install a Scene under an identity that is already captured.
LEMMA StepSnapshot == ASSUME IInv, Next PROVE SnapshotSound'
<1> USE ActorKinds DEF IInv, TypeOK, SnapshotSound, WithSnapshot, Installing
<1>1. ASSUME NEW r \in Runs, CaptureScene(r) PROVE SnapshotSound'
  <2>1. \A b \in Actors : b # r => pc[b] \notin Holding
    BY <1>1, Exclusive DEF CaptureScene, Holding
  <2>. QED  BY <1>1, <2>1 DEF CaptureScene, authorityVars, Holding
<1>2. ASSUME NEW r \in Runs, CaptureIdentity(r) PROVE SnapshotSound'
  <2>1. \A b \in Actors : b # r => pc[b] \notin Holding
    BY <1>2, Exclusive DEF CaptureIdentity, Holding
  <2>2. base'[r].identity = identity /\ base'[r].scene = base[r].scene
    BY <1>2 DEF CaptureIdentity, Base
  <2>3. identity.revision <= identity.revision
    BY DomainAssumption DEF Identity
  <2>. QED  BY <1>2, <2>1, <2>2, <2>3 DEF CaptureIdentity, authorityVars, Holding
<1>3. ASSUME NEW r \in Runs, Rehearses(r) PROVE SnapshotSound'
  BY <1>3 DEF Rehearses, Return, authorityVars
<1>4. ASSUME NEW e \in Editors, ReadIdentity(e) PROVE SnapshotSound'
  BY <1>4 DEF ReadIdentity, authorityVars
<1>5. ASSUME NEW a \in Actors, Lock(a) PROVE SnapshotSound'
  BY <1>5 DEF Lock, Entry, runVars, authorityVars
<1>6. ASSUME NEW a \in Actors, Panic(a) PROVE SnapshotSound'
  BY <1>6 DEF Panic, Callbacks, runVars, authorityVars
<1>7. ASSUME NEW a \in Actors, Fails(a) PROVE SnapshotSound'
  BY <1>7 DEF Fails, FailsLocked, Return, runVars, authorityVars
<1>8. ASSUME NEW a \in Actors, Consults(a) PROVE SnapshotSound'
  BY <1>8 DEF Consults, runVars, authorityVars
<1>9. ASSUME NEW a \in Actors, Prepares(a) PROVE SnapshotSound'
  <2>1. /\ pc' = [pc EXCEPT ![a] = "install_scene"]
        /\ pc[a] \in {"decide", "rebase", "edit"}
        /\ UNCHANGED <<scene, identity, base>>
    BY <1>9 DEF Prepares, Prepared, authorityVars
  <2>2. \A b \in Actors : b # a => pc[b] \notin Holding
    BY <2>1, Exclusive DEF Holding
  <2>3. ~Installing
    BY <2>1, <2>2 DEF Holding
  <2>4. \A r \in Runs : pc'[r] \in WithSnapshot => pc[r] \in WithSnapshot
    BY <2>1 DEF PlacesSound
  <2>5. \A r \in Runs : pc'[r] # "capture_identity"
    BY <2>1, <2>2 DEF Holding
  <2>. QED  BY <2>1, <2>3, <2>4, <2>5
<1>10. ASSUME NEW a \in Actors, InstallScene(a) PROVE SnapshotSound'
  <2>1. \A b \in Actors : b # a => pc[b] \notin Holding
    BY <1>10, Exclusive DEF InstallScene, Holding
  <2>2. Installing'
    BY <1>10 DEF InstallScene
  <2>. QED  BY <1>10, <2>1, <2>2 DEF InstallScene, Holding, runVars
<1>11. ASSUME NEW a \in Actors, InstallIdentity(a) PROVE SnapshotSound'
  <2>1. \A b \in Actors : b # a => pc[b] \notin Holding
    BY <1>11, Exclusive DEF InstallIdentity, Holding
  <2>2. /\ identity' = Advanced(identity)
        /\ identity'.scene_id = identity.scene_id
        /\ identity'.revision = identity.revision + 1
    BY <1>11, AdvancedIdentity DEF InstallIdentity, CandidateSound
  <2>3. identity.revision \in Nat
    BY DomainAssumption DEF Identity
  <2>4. \A r \in Runs : base[r].identity.revision \in Nat
    BY DomainAssumption DEF Base, Identity
  <2>. QED
    BY <1>11, <2>1, <2>2, <2>3, <2>4 DEF InstallIdentity, Return, Holding, runVars
<1> HIDE DEF IInv, TypeOK, SnapshotSound, WithSnapshot, Installing
<1>. QED  BY <1>1, <1>2, <1>3, <1>4, <1>5, <1>6, <1>7, <1>8, <1>9, <1>10, <1>11, StepForms

-----------------------------------------------------------------------------
(***************************************************************************)
(* The invariance theorems.                                                *)
(***************************************************************************)

\* Before anyone has taken the lock everything IInv says is trivially so.
LEMMA InitIInv == Init => IInv
<1> SUFFICES ASSUME Init PROVE IInv
  OBVIOUS
<1>1. TypeOK
  BY InitTypeOK
<1>2. \A a \in Actors : pc[a] = "start" /\ outcome[a].kind = "pending"
  BY DEF Init, Pending
<1>3. holder = Nobody /\ (embedded => scene.id = identity)
  BY DEF Init
<1>. QED
  BY <1>1, <1>2, <1>3, ActorKinds
  DEF IInv, LockHeld, Holding, SnapshotSound, WithSnapshot, EmbeddedAgreement, DrySound,
      ConsultSound, CandidateSound, InstallSound, OutcomeSound, PlacesSound

\* IInv is inductive.
LEMMA StepIInv == IInv /\ [Next]_vars => IInv'
<1> SUFFICES ASSUME IInv, [Next]_vars PROVE IInv'
  OBVIOUS
<1>1. TypeOK'
  BY StepTypeOK DEF IInv
<1>2. CASE Next
  BY <1>1, <1>2, StepLockHeld, StepSnapshot, StepEmbedded, StepDry, StepConsult, StepCandidate,
     StepInstall, StepPlacesOutcome DEF IInv
<1>3. CASE UNCHANGED vars
  <2> USE <1>3 DEF vars, authorityVars, lockVars, runVars, IInv, Installing, embedded, CanAdvance, Advanced
  <2>1. LockHeld' /\ OutcomeSound' /\ PlacesSound'
    BY DEF LockHeld, OutcomeSound, PlacesSound
  <2>2. SnapshotSound' /\ EmbeddedAgreement'
    BY DEF SnapshotSound, EmbeddedAgreement
  <2>3. DrySound' /\ ConsultSound'
    BY DEF DrySound, ConsultSound
  <2>4. CandidateSound' /\ InstallSound'
    BY DEF CandidateSound, InstallSound
  <2>. QED  BY <1>1, <2>1, <2>2, <2>3, <2>4
<1>. QED  BY <1>2, <1>3

\* The inductive invariant holds in every reachable state.
THEOREM Invariance == Spec => []IInv
<1>1. Init => IInv
  BY InitIInv
<1>2. IInv /\ [Next]_vars => IInv'
  BY StepIInv
<1>. QED  BY <1>1, <1>2, PTL DEF Spec

\* Type correctness: in particular no interleaving of callbacks advances the
\* revision past its maximum.
THEOREM TypeCorrect == Spec => []TypeOK
<1>1. IInv => TypeOK
  BY DEF IInv
<1>. QED  BY <1>1, Invariance, PTL

\* Equal identities mean equal Scenes for every snapshot any Run holds.
THEOREM SnapshotsAreSound == Spec => []SnapshotSound
<1>1. IInv => SnapshotSound
  BY DEF IInv
<1>. QED  BY <1>1, Invariance, PTL

\* The embedded payload never disagrees with the authority beside it.
THEOREM EmbeddedPayloadsAgree == Spec => []EmbeddedAgreement
<1>1. IInv => EmbeddedAgreement
  BY DEF IInv
<1>. QED  BY <1>1, Invariance, PTL

-----------------------------------------------------------------------------
(***************************************************************************)
(* SceneState implements AtomicScene.                                      *)
(***************************************************************************)

\* The constructors build an abstract Scene nobody has looked at yet.
LEMMA InitRefines == Init => Atomic!AtomicInit
<1> SUFFICES ASSUME Init PROVE Atomic!AtomicInit
  OBVIOUS
<1>1. \A a \in Actors : pc[a] = "start" /\ outcome[a].kind = "pending"
  BY DEF Init, Pending
<1>2. AbstractIdentity = identity
  BY <1>1 DEF AbstractIdentity, Installing
<1>3. AbstractView = [r \in Runs |-> <<>>]
  BY <1>1, ActorKinds DEF AbstractView, WithSnapshot
<1>4. AbstractNamed = [e \in Editors |-> <<>>]
  BY <1>1, ActorKinds DEF AbstractNamed
<1>5. AbstractVerdict = [a \in Actors |-> "open"]
  BY <1>1 DEF AbstractVerdict, Success, Finished
<1>6. Atomic!Scene = Scene /\ Atomic!Identity = Identity
  BY DEF Scene, Identity, Atomic!Scene, Atomic!Identity
<1>. QED
  BY <1>2, <1>3, <1>4, <1>5, <1>6 DEF Init, embedded, Atomic!AtomicInit, Atomic!Clients, Actors

\* An actor that leaves for good closes its abstract client with its verdict.
LEMMA Closes ==
    ASSUME IInv, NEW a \in Actors, NEW p \in {"done", "panicked", "install_identity"}, NEW v,
           pc[a] \notin Finished \cup {"install_identity"},
           pc' = [pc EXCEPT ![a] = p],
           \A b \in Actors \ {a} : outcome'[b] = outcome[b],
           v = IF p = "install_identity" \/ outcome'[a].kind \in Success
               THEN "installed" ELSE "refused",
           UNCHANGED <<policy, ownership, base, expected>>
    PROVE  Atomic!Close(a, v)
<1> USE DEF IInv, TypeOK
<1>1. outcome[a].kind = "pending"
  BY DEF OutcomeSound, Finished
<1>2. AbstractVerdict[a] = "open"
  BY <1>1 DEF AbstractVerdict, Success, Finished
<1>3. AbstractVerdict' = [AbstractVerdict EXCEPT ![a] = v]
  BY DEF AbstractVerdict, Finished
<1>4. AbstractView' = [r \in Runs |-> IF r = a THEN <<>> ELSE AbstractView[r]]
  BY ActorKinds DEF AbstractView, WithSnapshot
<1>5. AbstractNamed' = [e \in Editors |-> IF e = a THEN <<>> ELSE AbstractNamed[e]]
  BY ActorKinds DEF AbstractNamed
<1>. QED  BY <1>2, <1>3, <1>4, <1>5 DEF Atomic!Close

\* While an actor is inside a locked scope no install is under way elsewhere.
LEMMA HolderSeesWhole ==
    ASSUME IInv, NEW a \in Actors, pc[a] \in Holding \ {"install_identity"}
    PROVE  ~Installing
BY Exclusive DEF Installing, Holding

\* The moves inside a Run's attempt or an edit's attempt.
Hidden(a, p) ==
    \/ /\ pc[a] \in {"start", "capture_scene", "read_identity"}
       /\ p \in {"capture_scene", "capture_identity", "read_identity"}
    \/ /\ a \in Runs /\ pc[a] \in {"tail", "commit", "decide", "rebase"}
       /\ p \in {"commit", "decide", "rebase", "install_scene"}
    \/ /\ a \in Editors /\ pc[a] \in {"try_edit", "check_edit", "edit"}
       /\ p \in {"check_edit", "edit", "install_scene"}

\* Moving between places the abstract Scene does not tell apart is a stutter.
LEMMA Stutters ==
    ASSUME IInv, NEW a \in Actors, NEW p,
           pc' = [pc EXCEPT ![a] = p],
           Hidden(a, p),
           \/ UNCHANGED base
           \/ p = "capture_identity" /\ \A q \in Runs \ {a} : base'[q] = base[q],
           UNCHANGED <<authorityVars, expected, outcome>>
    PROVE  UNCHANGED Atomic!atomicVars
<1> USE DEF IInv, TypeOK, authorityVars, Hidden
<1>1. Installing' = Installing
  BY DEF Installing
<1>2. AbstractIdentity' = AbstractIdentity
  BY <1>1 DEF AbstractIdentity, Advanced
<1>3. AbstractView' = AbstractView
  BY ActorKinds DEF AbstractView, WithSnapshot
<1>4. AbstractNamed' = AbstractNamed
  BY ActorKinds DEF AbstractNamed
<1>5. AbstractVerdict' = AbstractVerdict
  BY DEF AbstractVerdict, Finished
<1>. QED  BY <1>2, <1>3, <1>4, <1>5 DEF Atomic!atomicVars

\* Every step is a step of the abstract Scene or a stutter.
LEMMA StepRefines ==
    ASSUME IInv, IInv', Next
    PROVE  Atomic!AtomicNext \/ UNCHANGED Atomic!atomicVars
<1> DEFINE Goal == Atomic!AtomicNext \/ UNCHANGED Atomic!atomicVars
<1> USE DEF IInv, TypeOK
<1>1. \A a \in Actors : a \in Atomic!Clients
  BY DEF Actors, Atomic!Clients
<1>2. ASSUME NEW a \in Actors, Atomic!Refuse(a) PROVE Goal
  BY <1>1, <1>2 DEF Atomic!AtomicNext
<1>3. ASSUME NEW r \in Runs, CaptureScene(r) PROVE Goal
  <2>1. \A q \in Runs \ {r} : base'[q] = base[q]
    BY <1>3 DEF CaptureScene
  <2>. QED  BY <1>3, <2>1, ActorKinds, Stutters DEF Hidden, CaptureScene, authorityVars
<1>4. ASSUME NEW r \in Runs, CaptureIdentity(r) PROVE Goal
  <2>1. ~Installing
    BY <1>4, ActorKinds, HolderSeesWhole DEF CaptureIdentity, Holding
  <2>2. ~Installing'
    BY <1>4, <2>1, ActorKinds DEF CaptureIdentity, Installing
  <2>3. AbstractIdentity = identity /\ AbstractIdentity' = identity
    BY <1>4, <2>1, <2>2 DEF AbstractIdentity, CaptureIdentity, authorityVars
  <2>4. base'[r] = [scene |-> scene, identity |-> identity]
    BY <1>4 DEF CaptureIdentity, SnapshotSound, Base
  <2>5. /\ AbstractView[r] = <<>>
        /\ AbstractView' = [AbstractView EXCEPT ![r] = <<base'[r]>>]
    BY <1>4, ActorKinds DEF AbstractView, WithSnapshot, CaptureIdentity
  <2>6. AbstractNamed' = AbstractNamed
    BY <1>4, ActorKinds DEF AbstractNamed, CaptureIdentity
  <2>7. AbstractVerdict[r] = "open" /\ AbstractVerdict' = AbstractVerdict
    BY <1>4, ActorKinds DEF AbstractVerdict, CaptureIdentity, OutcomeSound, Success, Finished
  <2>8. UNCHANGED authorityVars
    BY <1>4 DEF CaptureIdentity
  <2>9. Atomic!Observe(r)
    BY <2>3, <2>4, <2>5, <2>6, <2>7, <2>8 DEF Atomic!Observe, authorityVars
  <2>. QED  BY <2>9 DEF Atomic!AtomicNext
<1>5. ASSUME NEW e \in Editors, ReadIdentity(e) PROVE Goal
  <2>1. ~Installing
    BY <1>5, ActorKinds, HolderSeesWhole DEF ReadIdentity, Holding
  <2>2. ~Installing'
    BY <1>5, <2>1, ActorKinds DEF ReadIdentity, Installing
  <2>3. AbstractIdentity = identity /\ AbstractIdentity' = identity
    BY <1>5, <2>1, <2>2 DEF AbstractIdentity, ReadIdentity, authorityVars
  <2>4. expected'[e] = identity.revision
    BY <1>5 DEF ReadIdentity
  <2>5. AbstractView' = AbstractView
    BY <1>5, ActorKinds DEF AbstractView, WithSnapshot, ReadIdentity
  <2>6. /\ AbstractNamed[e] = <<>>
        /\ AbstractNamed' = [AbstractNamed EXCEPT ![e] = <<expected'[e]>>]
    BY <1>5, ActorKinds DEF AbstractNamed, ReadIdentity
  <2>7. AbstractVerdict[e] = "open" /\ AbstractVerdict' = AbstractVerdict
    BY <1>5, ActorKinds DEF AbstractVerdict, ReadIdentity, OutcomeSound, Success, Finished
  <2>8. UNCHANGED authorityVars
    BY <1>5 DEF ReadIdentity
  <2>9. Atomic!Name(e)
    BY <2>3, <2>4, <2>5, <2>6, <2>7, <2>8 DEF Atomic!Name, authorityVars
  <2>. QED  BY <2>9 DEF Atomic!AtomicNext
<1>6. ASSUME NEW a \in Actors, NEW p \in {"done", "panicked"},
             pc[a] \notin Finished \cup {"install_identity"},
             pc' = [pc EXCEPT ![a] = p],
             \A b \in Actors \ {a} : outcome'[b] = outcome[b],
             outcome'[a].kind \notin Success,
             UNCHANGED authorityVars, UNCHANGED <<base, expected>>
      PROVE  Goal
  <2>1. Atomic!Close(a, "refused")
    BY <1>6, Closes DEF authorityVars
  <2>2. Installing' = Installing
    BY <1>6 DEF Installing
  <2>3. AbstractIdentity' = AbstractIdentity
    BY <1>6, <2>2 DEF AbstractIdentity, authorityVars, Advanced
  <2>. QED  BY <1>2, <1>6, <2>1, <2>3 DEF Atomic!Refuse, authorityVars
<1>7. ASSUME NEW r \in Runs, Rehearses(r) PROVE Goal
  <2>1. CASE \E k \in Refusal : Return(r, Refused(k)) /\ UNCHANGED dry
    <3>1. outcome'[r].kind \notin Success /\ pc' = [pc EXCEPT ![r] = "done"]
      BY <2>1, ActorKinds DEF Return, Refused, Refusal, Success
    <3>2. \A b \in Actors \ {r} : outcome'[b] = outcome[b]
      BY <2>1, ActorKinds DEF Return
    <3>. QED
      BY <1>6, <1>7, <3>1, <3>2, ActorKinds DEF Rehearses, Finished
  <2>2. CASE pc' = [pc EXCEPT ![r] = "commit"] /\ UNCHANGED outcome
    BY <1>7, <2>2, ActorKinds, Stutters DEF Hidden, Rehearses
  <2>. QED  BY <1>7, <2>1, <2>2 DEF Rehearses
<1>8. ASSUME NEW a \in Actors, Lock(a) PROVE Goal
  <2>1. /\ pc' = [pc EXCEPT ![a] = Entry(a)]
        /\ UNCHANGED authorityVars /\ UNCHANGED <<base, expected, outcome>>
    BY <1>8 DEF Lock, runVars
  <2>2. \/ pc[a] = "start" /\ Entry(a) \in {"capture_scene", "read_identity"}
        \/ a \in Runs /\ pc[a] = "commit" /\ Entry(a) = "decide"
        \/ a \in Editors /\ pc[a] = "try_edit" /\ Entry(a) = "check_edit"
    BY <1>8, ActorKinds DEF Lock, Entry, PlacesSound
  <2>. QED  BY <2>1, <2>2, Stutters DEF Hidden
<1>9. ASSUME NEW a \in Actors, Panic(a) PROVE Goal
  <2>1. /\ pc[a] \notin Finished \cup {"install_identity"}
        /\ pc' = [pc EXCEPT ![a] = "panicked"]
        /\ UNCHANGED authorityVars /\ UNCHANGED <<base, expected, outcome>>
    BY <1>9 DEF Panic, Callbacks, Finished, runVars
  <2>2. outcome[a].kind \notin Success
    BY <2>1 DEF OutcomeSound, Finished, Success
  <2>. QED  BY <1>6, <2>1, <2>2
<1>10. ASSUME NEW a \in Actors, Fails(a) PROVE Goal
  <2>1. PICK k \in Refusal : FailsLocked(a, k)
    BY <1>10 DEF Fails
  <2>2. outcome'[a].kind \notin Success /\ pc' = [pc EXCEPT ![a] = "done"]
    BY <2>1 DEF FailsLocked, Return, Refused, Refusal, Success
  <2>3. \A b \in Actors \ {a} : outcome'[b] = outcome[b]
    BY <2>1 DEF FailsLocked, Return
  <2>. QED
    BY <1>6, <1>10, <2>1, <2>2, <2>3 DEF Fails, FailsLocked, Finished, runVars
<1>11. ASSUME NEW a \in Actors, Consults(a) PROVE Goal
  BY <1>11, Stutters DEF Hidden, Consults, runVars
<1>12. ASSUME NEW a \in Actors, Prepares(a) PROVE Goal
  <2>1. /\ pc' = [pc EXCEPT ![a] = "install_scene"]
        /\ UNCHANGED authorityVars /\ UNCHANGED <<base, expected, outcome>>
    BY <1>12 DEF Prepares, Prepared
  <2>2. \/ a \in Runs /\ pc[a] \in {"decide", "rebase"}
        \/ a \in Editors /\ pc[a] = "edit"
    BY <1>12, ActorKinds DEF Prepares, PlacesSound
  <2>. QED  BY <2>1, <2>2, Stutters DEF Hidden
<1>13. ASSUME NEW a \in Actors, InstallScene(a) PROVE Goal
  <2> DEFINE after == candidate[a].scene
  <2>1. /\ pc[a] = "install_scene" /\ pc' = [pc EXCEPT ![a] = "install_identity"]
        /\ UNCHANGED <<identity, policy, ownership, base, expected, outcome>>
        /\ scene' = after
    BY <1>13 DEF InstallScene, runVars
  <2>2. CanAdvance(identity) /\ (embedded => after.id = Advanced(identity))
    BY <2>1 DEF CandidateSound
  <2>3. ~Installing
    BY <2>1, HolderSeesWhole DEF Holding
  <2>4. Installing'
    BY <2>1 DEF Installing
  <2>5. AbstractIdentity = identity
    BY <2>3 DEF AbstractIdentity
  <2>6. AbstractIdentity' = Advanced(identity)
    BY <2>1, <2>4 DEF AbstractIdentity, Advanced
  <2>7. Atomic!Close(a, "installed")
    BY <2>1, Closes DEF Finished
  <2>8. /\ Atomic!CanAdvance(identity) /\ Atomic!Advanced(identity) = Advanced(identity)
        /\ after \in Atomic!Scene
    BY <2>2 DEF CanAdvance, Advanced, Atomic!CanAdvance, Atomic!Advanced, Candidate,
               Scene, Identity, Atomic!Scene, Atomic!Identity
  <2>9. Atomic!InstallBy(a, after)
    BY <2>1, <2>2, <2>5, <2>6, <2>7, <2>8 DEF Atomic!InstallBy, embedded
  <2>10. CASE a \in Runs
    <3>1. AbstractView[a] = <<base[a]>>
      BY <2>1, <2>10 DEF AbstractView, WithSnapshot
    <3>2. /\ LegalEffect(Target[a], scene, after)
          /\ \/ base[a] = [scene |-> scene, identity |-> identity]
             \/ /\ policy = "rebase"
                /\ base[a].identity.revision < identity.revision
                /\ EffectAdmissible(scene, after)
      BY <2>1, <2>10 DEF InstallSound
    <3>3. Atomic!LegalEffect(Target[a], scene, after)
      BY <3>2 DEF LegalEffect, HasTarget, Atomic!LegalEffect, Atomic!HasTarget
    <3>4. EffectAdmissible(scene, after) => Atomic!EffectAdmissible(scene, after)
      BY DEF EffectAdmissible, Atomic!EffectAdmissible
    <3>5. Atomic!Commit(a)
      BY <2>5, <2>8, <2>9, <3>1, <3>2, <3>3, <3>4 DEF Atomic!Commit
    <3>. QED  BY <2>10, <3>5 DEF Atomic!AtomicNext
  <2>11. CASE a \in Editors
    <3>1. AbstractNamed[a] = <<identity.revision>>
      BY <2>1, <2>11 DEF AbstractNamed, InstallSound
    <3>2. Atomic!Edit(a)
      BY <2>5, <2>8, <2>9, <3>1 DEF Atomic!Edit
    <3>. QED  BY <2>11, <3>2 DEF Atomic!AtomicNext
  <2>. QED  BY <2>10, <2>11, ActorKinds
<1>14. ASSUME NEW a \in Actors, InstallIdentity(a) PROVE Goal
  <2>1. /\ pc[a] = "install_identity" /\ pc' = [pc EXCEPT ![a] = "done"]
        /\ outcome' = [outcome EXCEPT ![a] = [kind |-> candidate[a].kind,
                                            revision |-> candidate[a].identity.revision]]
        /\ identity' = Advanced(identity)
        /\ UNCHANGED <<scene, policy, ownership, base, expected>>
    BY <1>14 DEF InstallIdentity, Return, CandidateSound, runVars
  <2>2. \A b \in Actors : b # a => pc[b] \notin Holding
    BY <2>1, Exclusive DEF Holding
  <2>3. Installing /\ ~Installing'
    BY <2>1, <2>2 DEF Installing, Holding
  <2>4. AbstractIdentity' = AbstractIdentity
    BY <2>1, <2>3 DEF AbstractIdentity
  <2>5. AbstractView' = AbstractView
    BY <2>1, ActorKinds DEF AbstractView, WithSnapshot
  <2>6. AbstractNamed' = AbstractNamed
    BY <2>1, ActorKinds DEF AbstractNamed
  <2>7. candidate[a].kind \in Success
    BY DEF Candidate
  <2>8. AbstractVerdict' = AbstractVerdict
    BY <2>1, <2>7 DEF AbstractVerdict
  <2>. QED  BY <2>1, <2>4, <2>5, <2>6, <2>8 DEF Atomic!atomicVars
<1> HIDE DEF IInv, TypeOK, Goal
<1>15. Goal
  BY <1>3, <1>4, <1>5, <1>7, <1>8, <1>9, <1>10, <1>11, <1>12, <1>13, <1>14, StepForms
<1>. QED  BY <1>15 DEF Goal

\* Runs and edits behave as if each commit, edit and refusal happened at one
\* instant on one versioned Scene.
THEOREM Refinement == Spec => RefinesAtomicScene
<1>1. Init => Atomic!AtomicInit
  BY InitRefines
<1>2. IInv /\ IInv' /\ [Next]_vars => [Atomic!AtomicNext]_(Atomic!atomicVars)
  <2>1. CASE IInv /\ IInv' /\ Next
    BY <2>1, StepRefines
  <2>2. CASE UNCHANGED vars
    BY <2>2 DEF vars, authorityVars, runVars, Atomic!atomicVars, AbstractIdentity, AbstractView,
               AbstractNamed, AbstractVerdict, Installing, Advanced
  <2>. QED  BY <2>1, <2>2
<1>. QED
  BY <1>1, <1>2, Invariance, PTL DEF Spec, RefinesAtomicScene, Atomic!AtomicSpec

-----------------------------------------------------------------------------
(***************************************************************************)
(* What the calls report.                                                  *)
(***************************************************************************)

\* A success reports the revision its own install reached, which no earlier
\* call can have reported.
LEMMA StepUnique ==
    ASSUME IInv, CommittedRevisionsUnique, [Next]_vars
    PROVE  CommittedRevisionsUnique'
<1> USE DEF IInv, TypeOK, CommittedRevisionsUnique, Succeeded
<1>1. ASSUME UNCHANGED identity,
             \A b \in Actors : outcome'[b] = outcome[b] \/ outcome'[b].kind \notin Success
      PROVE  CommittedRevisionsUnique'
  BY <1>1
<1>2. ASSUME NEW a \in Actors, InstallIdentity(a) PROVE CommittedRevisionsUnique'
  <2>1. /\ outcome' = [outcome EXCEPT ![a] = [kind |-> candidate[a].kind,
                                            revision |-> identity'.revision]]
        /\ identity' = Advanced(identity) /\ CanAdvance(identity)
    BY <1>2 DEF InstallIdentity, Return, CandidateSound
  <2>2. identity'.revision = identity.revision + 1 /\ identity.revision \in Nat
    BY <2>1, AdvancedIdentity, DomainAssumption DEF Identity
  <2>3. \A b \in Succeeded : outcome[b].revision \in Nat /\ outcome[b].revision <= identity.revision
    BY DomainAssumption DEF Outcome, Success
  <2>4. \A b \in Actors \ {a} : outcome'[b] = outcome[b]
    BY <2>1
  <2>5. outcome'[a].revision = identity.revision + 1
    BY <2>1, <2>2
  <2>. QED  BY <2>2, <2>3, <2>4, <2>5
<1>3. ASSUME NEW a \in Actors, Lock(a) \/ Panic(a) \/ Consults(a) \/ Prepares(a) \/ InstallScene(a)
      PROVE  CommittedRevisionsUnique'
  BY <1>1, <1>3 DEF Lock, Panic, Consults, Prepares, Prepared, InstallScene, authorityVars
<1>4. ASSUME NEW a \in Actors, Fails(a) PROVE CommittedRevisionsUnique'
  BY <1>1, <1>4 DEF Fails, FailsLocked, Return, Refused, Refusal, Success, authorityVars
<1>5. ASSUME NEW r \in Runs, CaptureScene(r) \/ CaptureIdentity(r) PROVE CommittedRevisionsUnique'
  BY <1>1, <1>5 DEF CaptureScene, CaptureIdentity, authorityVars
<1>6. ASSUME NEW r \in Runs, Rehearses(r) PROVE CommittedRevisionsUnique'
  BY <1>1, <1>6, ActorKinds DEF Rehearses, Return, Refused, Refusal, Success, authorityVars
<1>7. ASSUME NEW e \in Editors, ReadIdentity(e) PROVE CommittedRevisionsUnique'
  BY <1>1, <1>7 DEF ReadIdentity, authorityVars
<1>8. CASE UNCHANGED vars
  BY <1>1, <1>8 DEF vars, authorityVars
<1> HIDE DEF IInv, TypeOK, CommittedRevisionsUnique, Succeeded
<1>. QED  BY <1>2, <1>3, <1>4, <1>5, <1>6, <1>7, <1>8, StepForms

\* No two calls report the same committed revision.
THEOREM RevisionsAreUnique == Spec => []CommittedRevisionsUnique
<1>1. Init => CommittedRevisionsUnique
  BY DEF Init, CommittedRevisionsUnique, Succeeded, Success, Pending
<1>2. IInv /\ CommittedRevisionsUnique /\ [Next]_vars => CommittedRevisionsUnique'
  BY StepUnique
<1>. QED  BY <1>1, <1>2, Invariance, PTL DEF Spec

-----------------------------------------------------------------------------
(***************************************************************************)
(* Why a call is refused.  A refusal is justified by the situation of the  *)
(* step that returns it, and the situation only gets worse: revisions      *)
(* never go back, and the snapshot a Run was refused on and the revision   *)
(* an edit named never change again.                                       *)
(***************************************************************************)

\* An edit names a revision the authority had already reached.
NamedSound == \A e \in Editors : expected[e] <= identity.revision

\* The situation in which a Run may be refused with k...
RunMayReport(r, k) ==
    /\ k = "stale_patch" =>
          policy = "strict" /\ base[r].identity.revision < identity.revision
    /\ k = "merge_conflict" =>
          policy = "rebase" /\ base[r].identity.revision < identity.revision
    /\ k = "revision_exhausted" =>
          /\ identity.revision = MaxRevision
          /\ policy = "strict" => base[r].identity.revision = MaxRevision

\* ...and an edit.
EditMayReport(e, k) ==
    /\ k = "stale" => expected[e] < identity.revision
    /\ k = "revision_exhausted" => expected[e] = MaxRevision
    /\ k = "embedded_identity" => embedded

\* The authority's configuration is fixed and its revision never goes back.
LEMMA RevisionGrows ==
    ASSUME IInv, [Next]_vars
    PROVE  /\ UNCHANGED <<policy, ownership>>
           /\ identity.revision <= identity'.revision
           /\ identity'.revision \in 0..MaxRevision
<1>1. identity.revision \in 0..MaxRevision
  BY DEF IInv, TypeOK, Identity
<1>2. ASSUME UNCHANGED authorityVars
      PROVE  UNCHANGED <<policy, ownership>> /\ UNCHANGED identity
  BY <1>2 DEF authorityVars
<1>3. ASSUME NEW a \in Actors, InstallIdentity(a)
      PROVE  /\ UNCHANGED <<policy, ownership>>
             /\ identity'.revision = identity.revision + 1 /\ identity.revision < MaxRevision
  <2>1. identity' = Advanced(identity) /\ CanAdvance(identity) /\ UNCHANGED <<policy, ownership>>
    BY <1>3 DEF InstallIdentity, IInv, CandidateSound
  <2>2. identity \in Identity
    BY DEF IInv, TypeOK
  <2>. QED  BY <2>1, <2>2, AdvancedIdentity DEF CanAdvance
<1>4. ASSUME NEW a \in Actors, InstallScene(a)
      PROVE  UNCHANGED <<policy, ownership>> /\ UNCHANGED identity
  BY <1>4 DEF InstallScene
<1>5. ASSUME NEW a \in Actors,
             Lock(a) \/ Panic(a) \/ Fails(a) \/ Consults(a) \/ Prepares(a)
      PROVE  UNCHANGED authorityVars
  BY <1>5 DEF Lock, Panic, Fails, FailsLocked, Consults, Prepares, Prepared
<1>6. ASSUME NEW r \in Runs, CaptureScene(r) \/ CaptureIdentity(r) \/ Rehearses(r)
      PROVE  UNCHANGED authorityVars
  BY <1>6 DEF CaptureScene, CaptureIdentity, Rehearses
<1>7. ASSUME NEW e \in Editors, ReadIdentity(e) PROVE UNCHANGED authorityVars
  BY <1>7 DEF ReadIdentity
<1>8. \/ UNCHANGED <<policy, ownership>> /\ UNCHANGED identity
      \/ /\ UNCHANGED <<policy, ownership>>
         /\ identity'.revision = identity.revision + 1 /\ identity.revision < MaxRevision
  <2>1. CASE UNCHANGED vars
    BY <2>1 DEF vars, authorityVars
  <2>2. CASE Next
    BY <1>2, <1>3, <1>4, <1>5, <1>6, <1>7, <2>2, StepForms
  <2>. QED  BY <2>1, <2>2
<1>. QED  BY <1>1, <1>8, DomainAssumption

\* A Run's step either returns nothing, or a refusal its situation calls for.
LEMMA RunRefusals ==
    ASSUME IInv, NEW r \in Runs, RunStep(r)
    PROVE  \/ UNCHANGED outcome
           \/ \E k \in Refusal : /\ RunMayReport(r, k)
                                 /\ pc[r] # "done"
                                 /\ outcome' = [outcome EXCEPT ![r] = Refused(k)]
                                 /\ UNCHANGED base
<1> DEFINE Reports(k) == /\ RunMayReport(r, k)
                         /\ pc[r] # "done"
                         /\ outcome' = [outcome EXCEPT ![r] = Refused(k)]
                         /\ UNCHANGED base
<1>1. /\ base[r] \in Base /\ base[r].identity \in Identity /\ identity \in Identity
      /\ policy \in {"strict", "rebase"}
  BY DEF IInv, TypeOK, Base
<1>2. base[r].identity.revision \in 0..MaxRevision /\ identity.revision \in 0..MaxRevision
  BY <1>1 DEF Identity
<1>3. ASSUME pc[r] \in WithSnapshot
      PROVE  /\ base[r].identity.scene_id = identity.scene_id
             /\ base[r].identity.revision <= identity.revision
             /\ identity # base[r].identity => base[r].identity.revision < identity.revision
  <2>1. /\ base[r].identity.scene_id = identity.scene_id
        /\ base[r].identity.revision <= identity.revision
    BY <1>3 DEF IInv, SnapshotSound
  <2>. QED  BY <1>1, <1>2, <2>1, DomainAssumption DEF Identity
<1>4. ASSUME NEW k \in Refusal, FailsLocked(r, k), RunMayReport(r, k), pc[r] # "done"
      PROVE  Reports(k)
  BY <1>4 DEF FailsLocked, Return, runVars
<1>5. CASE CommitStale(r)
  <2>1. RunMayReport(r, "stale_patch") /\ FailsLocked(r, "stale_patch") /\ pc[r] = "decide"
    BY <1>3, <1>5 DEF CommitStale, RunMayReport, WithSnapshot
  <2>. QED  BY <1>4, <2>1 DEF Refusal
<1>6. CASE CommitExact(r)
  <2>1. pc[r] = "decide" /\ identity = base[r].identity
    BY <1>6 DEF CommitExact
  <2>2. CASE ~CanAdvance(identity) /\ FailsLocked(r, "revision_exhausted")
    <3>1. RunMayReport(r, "revision_exhausted")
      BY <1>2, <2>1, <2>2, DomainAssumption DEF RunMayReport, CanAdvance
    <3>. QED  BY <1>4, <2>1, <2>2, <3>1 DEF Refusal
  <2>3. CASE Prepared(r, dry[r], "exact")
    BY <2>3 DEF Prepared
  <2>. QED  BY <1>6, <2>2, <2>3 DEF CommitExact
<1>7. CASE ConsultRebase(r)
  <2>1. pc[r] = "decide" /\ policy = "rebase"
    BY <1>7 DEF ConsultRebase
  <2>2. CASE ~CanAdvance(identity) /\ FailsLocked(r, "revision_exhausted")
    <3>1. RunMayReport(r, "revision_exhausted")
      BY <1>2, <2>1, <2>2, DomainAssumption DEF RunMayReport, CanAdvance
    <3>. QED  BY <1>4, <2>1, <2>2, <3>1 DEF Refusal
  <2>3. CASE UNCHANGED outcome
    BY <2>3
  <2>. QED  BY <1>7, <2>2, <2>3 DEF ConsultRebase
<1>8. ASSUME pc[r] = "rebase" PROVE RunMayReport(r, "merge_conflict")
  BY <1>8 DEF IInv, ConsultSound, RunMayReport
<1>9. CASE RebaseConflict(r)
  BY <1>4, <1>8, <1>9 DEF RebaseConflict, Refusal
<1>10. CASE Rebase(r)
  <2>1. PICK steps \in Scripts, rebasedBase \in {identity, base[r].identity},
             id \in PayloadIdentities(scene.id) :
            Rebased(r, [base |-> rebasedBase, steps |-> steps], After(steps, scene, id))
    BY <1>10 DEF Rebase
  <2>2. pc[r] = "rebase"
    BY <2>1 DEF Rebased
  <2>3. CASE FailsLocked(r, "merge_conflict")
    BY <1>4, <1>8, <2>2, <2>3 DEF Refusal
  <2>4. CASE Prepared(r, After(steps, scene, id), "rebased")
    BY <2>4 DEF Prepared
  <2>. QED  BY <2>1, <2>3, <2>4 DEF Rebased
<1>11. CASE Rehearse(r)
  <2>1. PICK steps \in Scripts, patchBase \in PatchBases(base[r].identity) :
            /\ Compiled(r, steps, patchBase)
            /\ \/ PatchRejected(r)
               \/ \E id \in PayloadIdentities(base[r].scene.id) :
                    Rehearsed(r, After(steps, base[r].scene, id))
    BY <1>11 DEF Rehearse
  <2>2. pc[r] = "tail"
    BY <2>1 DEF Compiled
  <2>3. ASSUME NEW k \in Refusal, Refuses(r, k), RunMayReport(r, k) PROVE Reports(k)
    BY <2>2, <2>3 DEF Refuses, Return
  <2>4. CASE PatchRejected(r)
    <3>1. CASE Refuses(r, "patch_validation")
      BY <2>3, <3>1 DEF RunMayReport, Refusal
    <3>2. CASE ~HasCapacity(r) /\ Refuses(r, "revision_exhausted")
      <4>1. ~CanAdvance(base[r].identity)
        BY <3>2 DEF HasCapacity
      <4>2. base[r].identity.revision = MaxRevision /\ identity.revision = MaxRevision
        BY <1>2, <1>3, <2>2, <4>1, DomainAssumption DEF CanAdvance, WithSnapshot
      <4>3. RunMayReport(r, "revision_exhausted")
        BY <4>2 DEF RunMayReport
      <4>. QED  BY <2>3, <3>2, <4>3 DEF Refusal
    <3>. QED  BY <2>4, <3>1, <3>2 DEF PatchRejected
  <2>5. ASSUME NEW id \in PayloadIdentities(base[r].scene.id),
               Rehearsed(r, After(steps, base[r].scene, id))
        PROVE  UNCHANGED outcome \/ \E k \in Refusal : Reports(k)
    <3>1. CASE Refuses(r, "rehearsal")
      BY <2>3, <3>1 DEF RunMayReport, Refusal
    <3>2. CASE UNCHANGED outcome
      BY <3>2
    <3>. QED  BY <2>5, <3>1, <3>2 DEF Rehearsed
  <2>. QED  BY <2>1, <2>4, <2>5
<1>12. CASE CaptureScene(r) \/ CaptureIdentity(r)
  BY <1>12 DEF CaptureScene, CaptureIdentity
<1>. QED  BY <1>5, <1>6, <1>7, <1>9, <1>10, <1>11, <1>12 DEF RunStep

\* So does an edit's step.
LEMMA EditRefusals ==
    ASSUME IInv, NamedSound, NEW e \in Editors, EditStep(e)
    PROVE  \/ UNCHANGED outcome
           \/ \E k \in Refusal : /\ EditMayReport(e, k)
                                 /\ pc[e] # "done"
                                 /\ outcome' = [outcome EXCEPT ![e] = Refused(k)]
                                 /\ UNCHANGED expected
<1> DEFINE Reports(k) == /\ EditMayReport(e, k)
                         /\ pc[e] # "done"
                         /\ outcome' = [outcome EXCEPT ![e] = Refused(k)]
                         /\ UNCHANGED expected
<1>1. expected[e] \in 0..MaxRevision /\ identity.revision \in 0..MaxRevision
  BY DEF IInv, TypeOK, Identity
<1>2. ASSUME NEW k \in Refusal, FailsLocked(e, k), EditMayReport(e, k), pc[e] # "done"
      PROVE  Reports(k)
  BY <1>2 DEF FailsLocked, Return, runVars
<1>3. CASE CheckEdit(e)
  <2>1. pc[e] = "check_edit"
    BY <1>3 DEF CheckEdit
  <2>2. CASE identity.revision # expected[e] /\ FailsLocked(e, "stale")
    <3>1. EditMayReport(e, "stale")
      BY <1>1, <2>2, DomainAssumption DEF EditMayReport, NamedSound
    <3>. QED  BY <1>2, <2>1, <2>2, <3>1 DEF Refusal
  <2>3. CASE /\ identity.revision = expected[e] /\ ~CanAdvance(identity)
             /\ FailsLocked(e, "revision_exhausted")
    <3>1. EditMayReport(e, "revision_exhausted")
      BY <1>1, <2>3, DomainAssumption DEF EditMayReport, CanAdvance
    <3>. QED  BY <1>2, <2>1, <2>3, <3>1 DEF Refusal
  <2>4. CASE UNCHANGED outcome
    BY <2>4
  <2>. QED  BY <1>3, <2>2, <2>3, <2>4 DEF CheckEdit
<1>4. CASE EditRejected(e)
  <2>1. pc[e] = "edit" /\ FailsLocked(e, "rejected")
    BY <1>4 DEF EditRejected
  <2>2. EditMayReport(e, "rejected")
    BY DEF EditMayReport
  <2>. QED  BY <1>2, <2>1, <2>2 DEF Refusal
<1>5. CASE EditScene(e)
  <2>1. PICK items \in SUBSET Items, id \in PayloadIdentities(scene.id) :
            Edited(e, [items |-> items, id |-> id])
    BY <1>5 DEF EditScene
  <2>2. pc[e] = "edit"
    BY <2>1 DEF Edited
  <2>3. CASE embedded /\ FailsLocked(e, "embedded_identity")
    BY <1>2, <2>2, <2>3 DEF EditMayReport, Refusal
  <2>4. CASE Prepared(e, [items |-> items, id |-> id], "edited")
    BY <2>4 DEF Prepared
  <2>. QED  BY <2>1, <2>3, <2>4 DEF Edited
<1>6. CASE ReadIdentity(e)
  BY <1>6 DEF ReadIdentity
<1>. QED  BY <1>3, <1>4, <1>5, <1>6 DEF EditStep

\* What a finished call was refused on is never written again.
LEMMA RefusedKeepsItsGround ==
    ASSUME IInv, [Next]_vars
    PROVE  /\ \A r \in Runs : outcome[r].kind # "pending" => base'[r] = base[r]
           /\ \A e \in Editors : outcome[e].kind # "pending" => expected'[e] = expected[e]
<1> USE DEF runVars
<1>1. \A a \in Actors : outcome[a].kind # "pending" => pc[a] = "done"
  BY DEF IInv, OutcomeSound
<1>2. /\ \A r \in Runs : outcome[r].kind # "pending" => pc[r] = "done"
      /\ \A e \in Editors : outcome[e].kind # "pending" => pc[e] = "done"
  BY <1>1 DEF Actors
<1>3. CASE UNCHANGED <<base, expected>>
  BY <1>3
<1>4. ASSUME NEW r \in Runs, CaptureScene(r) \/ CaptureIdentity(r)
      PROVE  /\ pc[r] # "done" /\ UNCHANGED expected
             /\ \A q \in Runs \ {r} : base'[q] = base[q]
  BY <1>4 DEF CaptureScene, CaptureIdentity, IInv, TypeOK
<1>5. ASSUME NEW e \in Editors, ReadIdentity(e)
      PROVE  /\ pc[e] # "done" /\ UNCHANGED base
             /\ \A f \in Editors \ {e} : expected'[f] = expected[f]
  BY <1>5 DEF ReadIdentity, IInv, TypeOK
<1>6. ASSUME NEW r \in Runs, Rehearses(r) PROVE UNCHANGED <<base, expected>>
  BY <1>6 DEF Rehearses
<1>7. ASSUME NEW a \in Actors,
             \/ Lock(a) \/ Panic(a) \/ Fails(a) \/ Consults(a) \/ Prepares(a)
             \/ InstallScene(a) \/ InstallIdentity(a)
      PROVE  UNCHANGED <<base, expected>>
  BY <1>7 DEF Lock, Panic, Fails, FailsLocked, Consults, Prepares, Prepared, InstallScene,
              InstallIdentity
<1>8. CASE UNCHANGED vars
  BY <1>3, <1>8 DEF vars
<1>9. CASE Next
  BY <1>2, <1>3, <1>4, <1>5, <1>6, <1>7, <1>9, StepForms
<1>. QED  BY <1>8, <1>9

\* An edit never names a revision still to come.
LEMMA StepNamed == ASSUME IInv, NamedSound, [Next]_vars PROVE NamedSound'
<1>1. /\ identity.revision <= identity'.revision
      /\ identity.revision \in Int /\ identity'.revision \in Int
      /\ \A e \in Editors : expected[e] \in Int
  BY RevisionGrows, DomainAssumption DEF IInv, TypeOK, Identity
<1>2. \A e \in Editors : expected'[e] = expected[e] \/ expected'[e] = identity.revision
  <2>1. ASSUME NEW e \in Editors, ReadIdentity(e)
        PROVE  \A f \in Editors : expected'[f] = expected[f] \/ expected'[f] = identity.revision
    BY <2>1 DEF ReadIdentity, IInv, TypeOK
  <2>2. ASSUME NEW r \in Runs, CaptureScene(r) \/ CaptureIdentity(r) \/ Rehearses(r)
        PROVE  UNCHANGED expected
    BY <2>2 DEF CaptureScene, CaptureIdentity, Rehearses
  <2>3. ASSUME NEW a \in Actors,
               \/ Lock(a) \/ Panic(a) \/ Fails(a) \/ Consults(a) \/ Prepares(a)
               \/ InstallScene(a) \/ InstallIdentity(a)
        PROVE  UNCHANGED expected
    BY <2>3 DEF Lock, Panic, Fails, FailsLocked, Consults, Prepares, Prepared, InstallScene,
                InstallIdentity, runVars
  <2>4. CASE UNCHANGED vars
    BY <2>4 DEF vars, runVars
  <2>. QED  BY <2>1, <2>2, <2>3, <2>4, StepForms
<1>. QED  BY <1>1, <1>2 DEF NamedSound

\* A refusal stays justified while the others go on.
LEMMA StepRefusals ==
    ASSUME IInv, IInv', NamedSound, RefusalsJustified, [Next]_vars
    PROVE  RefusalsJustified'
<1>1. /\ UNCHANGED <<policy, ownership>>
      /\ identity.revision <= identity'.revision
      /\ identity'.revision \in 0..MaxRevision
  BY RevisionGrows
<1>2. /\ identity.revision \in 0..MaxRevision
      /\ \A r \in Runs : base[r].identity.revision \in 0..MaxRevision
      /\ \A e \in Editors : expected[e] \in 0..MaxRevision
  BY DEF IInv, TypeOK, Base, Identity
<1>3. ASSUME NEW r \in Runs, NEW k, RunMayReport(r, k), base'[r] = base[r]
      PROVE  RunMayReport(r, k)'
  BY <1>1, <1>2, <1>3, DomainAssumption DEF RunMayReport
<1>4. ASSUME NEW e \in Editors, NEW k, EditMayReport(e, k), expected'[e] = expected[e]
      PROVE  EditMayReport(e, k)'
  BY <1>1, <1>2, <1>4, DomainAssumption DEF EditMayReport, embedded
<1>5. /\ \A r \in Runs : RunMayReport(r, outcome[r].kind)
      /\ \A e \in Editors : EditMayReport(e, outcome[e].kind)
  BY DEF RefusalsJustified, RunMayReport, EditMayReport
<1>6. /\ \A r \in Runs : outcome[r].kind # "pending" => base'[r] = base[r]
      /\ \A e \in Editors : outcome[e].kind # "pending" => expected'[e] = expected[e]
  BY RefusedKeepsItsGround
<1>7. ASSUME NEW r \in Runs, RunStep(r)
      PROVE  \A a \in Actors \ {r} : outcome'[a] = outcome[a]
  BY <1>7, RunRefusals DEF IInv, TypeOK
<1>8. ASSUME NEW e \in Editors, EditStep(e)
      PROVE  \A a \in Actors \ {e} : outcome'[a] = outcome[a]
  BY <1>8, EditRefusals DEF IInv, TypeOK
<1>9. ASSUME NEW a \in Actors, AnyStep(a)
      PROVE  \A b \in Actors : outcome'[b] = outcome[b] \/ outcome'[b].kind \in Success
  <2>1. CASE Lock(a) \/ Panic(a) \/ InstallScene(a)
    BY <2>1 DEF Lock, Panic, InstallScene
  <2>2. CASE InstallIdentity(a)
    <3>1. candidate[a].kind \in Success
      BY DEF IInv, TypeOK, Candidate
    <3>. QED  BY <2>2, <3>1 DEF InstallIdentity, Return, IInv, TypeOK
  <2>. QED  BY <1>9, <2>1, <2>2 DEF AnyStep
<1>10. \A r \in Runs : \/ outcome'[r] = outcome[r]
                       \/ outcome'[r].kind \in Success
                       \/ RunMayReport(r, outcome'[r].kind) /\ base'[r] = base[r]
  <2>1. ASSUME NEW r \in Runs, RunStep(r), outcome' # outcome
        PROVE  RunMayReport(r, outcome'[r].kind) /\ base'[r] = base[r]
    BY <2>1, RunRefusals, ActorKinds DEF IInv, TypeOK, Refused
  <2>. QED
    BY <1>7, <1>8, <1>9, <2>1, ActorKinds DEF Next, vars
<1>11. \A e \in Editors : \/ outcome'[e] = outcome[e]
                          \/ outcome'[e].kind \in Success
                          \/ EditMayReport(e, outcome'[e].kind) /\ expected'[e] = expected[e]
  <2>1. ASSUME NEW e \in Editors, EditStep(e), outcome' # outcome
        PROVE  EditMayReport(e, outcome'[e].kind) /\ expected'[e] = expected[e]
    BY <2>1, EditRefusals, ActorKinds DEF IInv, TypeOK, Refused
  <2>. QED
    BY <1>7, <1>8, <1>9, <2>1, ActorKinds DEF Next, vars
<1>12. ASSUME NEW r \in Runs PROVE RunMayReport(r, outcome[r].kind)'
  <2>1. PICK k : k = outcome'[r].kind
    OBVIOUS
  <2>2. CASE k \in Success \cup {"pending"}
    BY <2>1, <2>2 DEF RunMayReport, Success
  <2>3. CASE k \notin Success \cup {"pending"}
    <3>1. RunMayReport(r, k) /\ base'[r] = base[r]
      BY <1>5, <1>6, <1>10, <2>1, <2>3
    <3>2. RunMayReport(r, k)'
      BY <1>3, <3>1
    <3>. QED  BY <2>1, <3>2 DEF RunMayReport
  <2>. QED  BY <2>2, <2>3
<1>13. ASSUME NEW e \in Editors PROVE EditMayReport(e, outcome[e].kind)'
  <2>1. PICK k : k = outcome'[e].kind
    OBVIOUS
  <2>2. CASE k \in Success \cup {"pending"}
    BY <2>1, <2>2 DEF EditMayReport, Success
  <2>3. CASE k \notin Success \cup {"pending"}
    <3>1. EditMayReport(e, k) /\ expected'[e] = expected[e]
      BY <1>5, <1>6, <1>11, <2>1, <2>3
    <3>2. EditMayReport(e, k)'
      BY <1>4, <3>1
    <3>. QED  BY <2>1, <3>2 DEF EditMayReport
  <2>. QED  BY <2>2, <2>3
<1>14. \A r \in Runs : (pc[r] = "rebase" => CanAdvance(identity))'
  BY DEF IInv, ConsultSound
<1>. QED  BY <1>12, <1>13, <1>14 DEF RefusalsJustified, RunMayReport, EditMayReport

\* A call is refused as stale, in conflict or exhausted only when it is.
THEOREM RefusalsAreJustified == Spec => []RefusalsJustified
<1>1. Init => NamedSound /\ RefusalsJustified
  <2> SUFFICES ASSUME Init PROVE NamedSound /\ RefusalsJustified
    OBVIOUS
  <2>1. identity.revision \in 0..MaxRevision
    BY DEF Init, Identity
  <2>2. NamedSound
    BY <2>1, DomainAssumption DEF Init, NamedSound
  <2>3. RefusalsJustified
    BY DEF Init, RefusalsJustified, Pending, Actors
  <2>. QED  BY <2>2, <2>3
<1>2. IInv /\ NamedSound /\ [Next]_vars => NamedSound'
  BY StepNamed
<1>3. IInv /\ IInv' /\ NamedSound /\ RefusalsJustified /\ [Next]_vars => RefusalsJustified'
  BY StepRefusals
<1>. QED  BY <1>1, <1>2, <1>3, Invariance, PTL DEF Spec
=============================================================================
