---------------------------- MODULE MCSceneState ----------------------------
(***************************************************************************)
(* The instance of SceneState TLC checks: Runs and edits over a Scene that *)
(* holds a Target (spot) and may gain two marks that clash with each other,*)
(* and a revision counter that starts within reach of its maximum.         *)
(***************************************************************************)
EXTENDS SceneState

CONSTANTS spot, x, y, o1, o2, doc, other, r1, r2, e1, e2

MCItems == {spot, x, y}

\* Placing y is inadmissible where x is; verification accepts every Scene
\* that keeps the spot.
MCClash == {<<x, y>>}
MCAcceptable == {s \in SUBSET MCItems : spot \in s}

Op(o, i) == [op_id |-> o, item |-> i]

\* A Patch of one Operation, its rebase onto another place, a Patch with two
\* Operations of which the second faults, one with changed Operation ids, and
\* the empty Patch an override may compile.
MCScripts == {<<Op(o1, x)>>, <<Op(o1, y)>>, <<Op(o1, x), Op(o2, x)>>, <<Op(o2, x)>>, <<>>}

MCTarget == [r \in Runs |-> spot]

FirstRevision == MaxRevision - 2

\* The code's constructors over one starting Scene, near the revision bound.
MCInit ==
    /\ Init
    /\ identity = [scene_id |-> doc, revision |-> FirstRevision]
    /\ scene = [items |-> {spot}, id |-> identity]

MCSpec == MCInit /\ [][Next]_vars
MCFairSpec == MCSpec /\ Fairness
=============================================================================
