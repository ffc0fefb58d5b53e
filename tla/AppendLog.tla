------------------------------ MODULE AppendLog ------------------------------
(***************************************************************************)
(* What the Run Record file promises, with its I/O forgotten: a log of     *)
(* whole lines that only grows at its end, a part of it that storage       *)
(* already holds, and a day after which nothing is added.  A crash keeps   *)
(* at least the stored part.                                               *)
(***************************************************************************)
EXTENDS Naturals, Sequences

CONSTANT Lines  \* what may be recorded

VARIABLES
    log,      \* the whole lines, in order
    durable,  \* how many of them storage holds for sure
    open      \* whether lines may still be added

logVars == <<log, durable, open>>

LogInit == log = <<>> /\ durable = 0 /\ open = TRUE

Append1(line) ==
    /\ open
    /\ log' = Append(log, line)
    /\ UNCHANGED <<durable, open>>

\* The write guard is one, so whatever is in the log is synchronized at once.
Synchronize ==
    /\ open
    /\ durable' = Len(log)
    /\ UNCHANGED <<log, open>>

\* A failure or an orderly close.
Disable ==
    /\ open
    /\ open' = FALSE
    /\ UNCHANGED <<log, durable>>

CrashLog ==
    /\ \E kept \in durable..Len(log) : log' = SubSeq(log, 1, kept)
    /\ open' = FALSE
    /\ UNCHANGED durable

LogNext == (\E line \in Lines : Append1(line)) \/ Synchronize \/ Disable \/ CrashLog

LogSpec == LogInit /\ [][LogNext]_logVars
=============================================================================
