---------------------------- MODULE SceneDomain ----------------------------
(***************************************************************************)
(* The values a Sergent Run works on: Scene identities, Scenes, Operations *)
(* and Patches, and the deterministic checks the runtime makes on them.    *)
(*                                                                         *)
(* A Scene is abstracted to the set of items it holds plus the identity    *)
(* its payload carries (what SceneActions::identity reads from it).  The   *)
(* application's callbacks are abstracted to the smallest rules that keep  *)
(* them apart: an Operation places one item; it is inadmissible when the   *)
(* Scene already holds an item it clashes with; applying it faults when    *)
(* the item is already there; verification accepts the item sets in        *)
(* Acceptable; a Target exists while the Scene holds it.                   *)
(***************************************************************************)
EXTENDS Naturals, Sequences

CONSTANTS
    SceneIds,     \* the Scene ids an application payload may carry
    Items,        \* what a Scene can hold (Targets are items too)
    OpIds,        \* framework-minted Operation ids
    MaxRevision,  \* the largest revision: u64::MAX in the code
    Clash,        \* <<held, placed>>: placing one is inadmissible beside the other
    Acceptable    \* the item sets SceneActions::verify accepts

ASSUME DomainAssumption ==
    /\ MaxRevision \in Nat
    /\ Clash \subseteq Items \X Items
    /\ Acceptable \subseteq SUBSET Items

Identity  == [scene_id: SceneIds, revision: 0..MaxRevision]
Scene     == [items: SUBSET Items, id: Identity]
Operation == [op_id: OpIds, item: Items]
Patch     == [base: Identity, steps: Seq(Operation)]

-----------------------------------------------------------------------------
(* Revisions *)

\* checked_add(1) has a value.
CanAdvance(identity) == identity.revision < MaxRevision

\* The next identity: the same Scene id, the revision advanced by one.
Advanced(identity) == [identity EXCEPT !.revision = @ + 1]

\* identity_transition_issues(expected, observed) is empty.
IdentityAgrees(expected, observed) ==
    /\ observed.scene_id = expected.scene_id
    /\ observed.revision = expected.revision

-----------------------------------------------------------------------------
(* Operations and Patches *)

Placed(steps) == {steps[i].item : i \in DOMAIN steps}

HasTarget(scene, target) == target \in scene.items

Admissible(operation, scene) ==
    \A held \in scene.items : <<held, operation.item>> \notin Clash

\* Every Operation is checked against the same stable Scene, never against
\* the effect of an earlier one.
OperationsAdmissible(steps, scene) ==
    \A i \in DOMAIN steps : Admissible(steps[i], scene)

PatchValid(patch, base, scene, target) ==
    /\ patch.steps # <<>>
    /\ patch.base = base
    /\ HasTarget(scene, target)

SameOperationIds(original, rebased) ==
    /\ Len(original.steps) = Len(rebased.steps)
    /\ \A i \in DOMAIN original.steps :
          original.steps[i].op_id = rebased.steps[i].op_id

\* SceneActions::apply: the steps in order on one evolving copy.
Applies(steps, scene) ==
    \A i \in DOMAIN steps :
        /\ steps[i].item \notin scene.items
        /\ \A j \in DOMAIN steps : j < i => steps[j].item # steps[i].item

\* dry_run accepts `after` as the result of the steps on `before`.  Where
\* identity is embedded (expected is a one-element set) the payload must
\* carry the expected identity; otherwise (the empty set) it is not read.
DryRunAccepts(steps, before, after, expected) ==
    /\ Applies(steps, before)
    /\ after.items = before.items \cup Placed(steps)
    /\ after.items \in Acceptable
    /\ \A e \in expected : IdentityAgrees(e, after.id)

-----------------------------------------------------------------------------
(* What accepted Patches amount to, with the Patch forgotten *)

\* The Target exists on the Scene that is replaced, the Patch adds to that
\* Scene and takes nothing from it, and verification accepts the result.
LegalEffect(target, before, after) ==
    /\ HasTarget(before, target)
    /\ before.items \subseteq after.items
    /\ after.items # before.items
    /\ after.items \in Acceptable

\* Everything added is admissible beside what was already there.
EffectAdmissible(before, after) ==
    \A held \in before.items, placed \in after.items \ before.items :
        <<held, placed>> \notin Clash
=============================================================================
