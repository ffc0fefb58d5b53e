---------------------------- MODULE MCLogWriter ----------------------------
(***************************************************************************)
(* Two Runs share the writer, one of them through two observer slots, the  *)
(* other behind an observer that fails; the host records an event and      *)
(* closes, at any moment.                                                  *)
(***************************************************************************)
EXTENDS LogWriter

CONSTANTS r1, r2, r3

\* One Run is misconfigured with the writer in two slots.
MCSlots ==
    [r \in Runs |-> CASE r = r1 -> <<"log", "log">>
                      [] r = r2 -> <<"failing", "log">>
                      [] r = r3 -> <<"quiet", "log", "failing">>]
============================================================================
