---------------------------- MODULE AtomicScene ----------------------------
(***************************************************************************)
(* What the shared live Scene promises to the Runs and the human edits     *)
(* that share it, with no lock, no callback and no intermediate state: one *)
(* versioned Scene that changes only by whole, legal, compare-and-install  *)
(* steps.                                                                  *)
(*                                                                         *)
(*   - a Run observes one Scene together with its own identity;            *)
(*   - a Run that succeeds installs, in one step, a Scene that its Patch   *)
(*     legally produces from the Scene current at that moment; under the   *)
(*     strict policy that Scene is the very one it observed;               *)
(*   - an edit installs only over the revision it named;                   *)
(*   - every install advances the revision by exactly one, once;           *)
(*   - whoever is refused changes nothing, and every outcome is final.     *)
(***************************************************************************)
EXTENDS SceneDomain

CONSTANTS Runs, Editors, Target

VARIABLES
    scene,      \* the current Scene
    identity,   \* its identity
    policy,     \* "strict" or "rebase"
    ownership,  \* "external" or "embedded"
    view,       \* what each open Run observed: <<>> or <<[scene, identity]>>
    named,      \* the revision each open edit named: <<>> or <<revision>>
    verdict     \* "open", "installed" or "refused"

atomicVars == <<scene, identity, policy, ownership, view, named, verdict>>

Clients == Runs \cup Editors

AtomicInit ==
    /\ scene \in Scene
    /\ identity \in Identity
    /\ policy \in {"strict", "rebase"}
    /\ ownership \in {"external", "embedded"}
    /\ ownership = "embedded" => scene.id = identity
    /\ view = [r \in Runs |-> <<>>]
    /\ named = [e \in Editors |-> <<>>]
    /\ verdict = [c \in Clients |-> "open"]

\* A client's outcome is final, and what it observed goes with it.
Close(c, v) ==
    /\ verdict[c] = "open"
    /\ verdict' = [verdict EXCEPT ![c] = v]
    /\ view'    = [r \in Runs    |-> IF r = c THEN <<>> ELSE view[r]]
    /\ named'   = [e \in Editors |-> IF e = c THEN <<>> ELSE named[e]]
    /\ UNCHANGED <<policy, ownership>>

\* One Scene and the identity that belongs to it, read together.
Observe(r) ==
    /\ view[r] = <<>>
    /\ verdict[r] = "open"
    /\ view' = [view EXCEPT ![r] = <<[scene |-> scene, identity |-> identity]>>]
    /\ UNCHANGED <<scene, identity, policy, ownership, named, verdict>>

Name(e) ==
    /\ named[e] = <<>>
    /\ verdict[e] = "open"
    /\ named' = [named EXCEPT ![e] = <<identity.revision>>]
    /\ UNCHANGED <<scene, identity, policy, ownership, view, verdict>>

\* The one way the Scene changes: the revision advances by one with it, and
\* an embedded payload agrees with the identity beside it.
InstallBy(c, after) ==
    /\ CanAdvance(identity)
    /\ scene' = after
    /\ identity' = Advanced(identity)
    /\ ownership = "embedded" => after.id = Advanced(identity)
    /\ Close(c, "installed")

\* A commit over the observed Scene, and one over a Scene that has moved on.
Commit(r) ==
    /\ view[r] # <<>>
    /\ \E after \in Scene :
          /\ LegalEffect(Target[r], scene, after)
          /\ \/ view[r][1] = [scene |-> scene, identity |-> identity]
             \/ /\ policy = "rebase"
                /\ view[r][1].identity.revision < identity.revision
                /\ EffectAdmissible(scene, after)
          /\ InstallBy(r, after)

Edit(e) ==
    /\ named[e] = <<identity.revision>>
    /\ \E after \in Scene : InstallBy(e, after)

Refuse(c) ==
    /\ Close(c, "refused")
    /\ UNCHANGED <<scene, identity>>

AtomicNext ==
    \/ \E r \in Runs : Observe(r) \/ Commit(r)
    \/ \E e \in Editors : Name(e) \/ Edit(e)
    \/ \E c \in Clients : Refuse(c)

AtomicSpec == AtomicInit /\ [][AtomicNext]_atomicVars
=============================================================================
