---------------------------- MODULE MCEventGraph ----------------------------
(***************************************************************************)
(* One array and two objects, which the threads may nest, share and tie    *)
(* into cycles, before and during the walk.                                *)
(***************************************************************************)
EXTENDS EventGraph

CONSTANTS a1, o1, o2

MCArrays  == {a1}
MCObjects == {o1, o2}
MCKeys    == {1}
=============================================================================
