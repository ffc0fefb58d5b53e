------------------------------ MODULE LogWriter ------------------------------
(***************************************************************************)
(* The Run Record file: JsonlRunRecordWriter, shared by concurrent Runs as *)
(* an observer, beside other observers, and by the host for events of its  *)
(* own.  Every Run delivers its start, then its end, to its observers one  *)
(* after the other, and contains the errors they return.  Every call of    *)
(* the writer encodes its line first, then takes the one writer guard and  *)
(* persists the line:                                                      *)
(* possibly partial writes until it is complete, a flush, and for a Run    *)
(* end a synchronization.  Each I/O call is a step, because each may fail  *)
(* and the machine may crash between any two.                              *)
(*                                                                         *)
(* A line is abstracted to who recorded it and as which of its deliveries; *)
(* its bytes to Parts pieces, which the writer may take one or many at a   *)
(* time.  An interrupted write (ErrorKind::Interrupted) changes nothing    *)
(* and is a stuttering step.                                               *)
(***************************************************************************)
EXTENDS Naturals, Sequences, FiniteSets

CONSTANTS
    Runs,     \* Runs that have observers
    Slots,    \* the observers of each Run, slot by slot: "log" is the writer,
              \* "quiet" and "failing" are observers of the application
    Events,   \* record_app and record_user calls by the host
    Closers,  \* close calls by the host
    Owner,    \* the last owner, whose drop closes the writer
    Nobody,   \* the guard is free
    Parts     \* the pieces a line's bytes may be written in

Actors == Runs \cup Events \cup Closers \cup {Owner}

ASSUME WriterAssumption ==
    /\ Slots \in [Runs -> Seq({"log", "quiet", "failing"}) \ {<<>>}]
    /\ Parts \in Nat \ {0}
    /\ Runs \cap (Events \cup Closers \cup {Owner}) = {}
    /\ Events \cap (Closers \cup {Owner}) = {}
    /\ Owner \notin Closers
    /\ Nobody \notin Actors

VARIABLES
    lifecycle,     \* LogState.lifecycle: "active", "failed" or "closed"
    acknowledged,  \* LogState.acknowledged_starts
    holder,        \* whose MutexGuard is live, or Nobody
    pc,            \* where each actor is in its current delivery
    delivery,      \* which of its deliveries each actor is at
    results,       \* what each delivery returned, per actor
    errors,        \* the errors each Run contains, in order
    file,          \* the pieces the stream has taken, in order
    flushed,       \* how many of them a process crash keeps
    synced,        \* how many of them a power loss keeps
    crashed        \* "no", or what went down: the "process" or the "power"

streamVars == <<file, flushed, synced>>
stateVars  == <<lifecycle, acknowledged>>
callVars   == <<holder, pc, delivery, results, errors>>
vars       == <<stateVars, callVars, streamVars, crashed>>

\* A Run announces its start to every slot, then its end to every slot.
Deliveries(a) == IF a \in Runs THEN 2 * Len(Slots[a]) ELSE 1

Kind(a, d) ==
    CASE a \in Runs /\ d <= Len(Slots[a]) -> "start"
      [] a \in Runs /\ d > Len(Slots[a])  -> "end"
      [] a \in Events                     -> "event"
      [] OTHER                            -> "close"

\* Which observer a delivery is to; a call of the host is the writer's.
Observer(a, d) ==
    IF a \in Runs THEN Slots[a][IF Kind(a, d) = "start" THEN d ELSE d - Len(Slots[a])] ELSE "log"

Line == UNION {{a} \X (1..Deliveries(a)) : a \in Runs \cup Events}

-----------------------------------------------------------------------------
(* A delivery: its call, its return *)

Here(a)       == <<a, delivery[a]>>
KindOf(a)     == Kind(a, delivery[a])
At(a, point)  == pc[a] = point /\ crashed = "no"
AtLog(a)      == At(a, "idle") /\ Observer(a, delivery[a]) = "log"
Goto(a, point) == pc' = [pc EXCEPT ![a] = point]

\* deliver_progress and deliver_finished keep an error beside the Run, under
\* the callback and the observer it came from.
\* (The variant hands the result the errors of terminal callbacks only.)
ContainsAtEnd(a, result) ==
    IF a \in Runs /\ result # "ok" /\ KindOf(a) = "end"
    THEN Append(errors[a], [callback |-> KindOf(a), observer |-> Observer(a, delivery[a])])
    ELSE errors[a]

Contains(a, result) ==
    IF a \in Runs /\ result # "ok"
    THEN Append(errors[a], [callback |-> KindOf(a), observer |-> Observer(a, delivery[a])])
    ELSE errors[a]

\* The call returns; the actor goes on to its next delivery, if it has one.
Returns(a, result) ==
    /\ results' = [results EXCEPT ![a] = Append(@, result)]
    /\ errors' = [errors EXCEPT ![a] = Contains(a, result)]
    /\ IF delivery[a] < Deliveries(a)
       THEN delivery' = [delivery EXCEPT ![a] = @ + 1] /\ Goto(a, "idle")
       ELSE UNCHANGED delivery /\ Goto(a, "done")

\* Conversion and encoding of the line need no guard, and fail without it.
ConversionFails(a) ==
    /\ AtLog(a) /\ KindOf(a) # "close"
    /\ Returns(a, "conversion")
    /\ UNCHANGED <<stateVars, holder, streamVars, crashed>>

\* The owner drops the writer once nobody else can call it.
OthersGone == \A a \in Actors \ {Owner} : pc[a] \in {"done", "escaped"}

\* With the guard taken, a record or a close begins.
Records(a) == AtLog(a) /\ KindOf(a) # "close" /\ holder = Nobody
Closes(a)  == AtLog(a) /\ KindOf(a) = "close" /\ holder = Nobody /\ (a = Owner => OthersGone)

\* An observer of the application is called, and returns, without the guard.
Observe(r) ==
    /\ At(r, "idle") /\ Observer(r, delivery[r]) # "log"
    /\ Returns(r, IF Observer(r, delivery[r]) = "failing" THEN "refused" ELSE "ok")
    /\ UNCHANGED <<stateVars, holder, streamVars, crashed>>

\* A Run may panic between two deliveries, or in one to the application: its
\* end is then never delivered.
Escape(r) ==
    /\ At(r, "idle") /\ (delivery[r] > 1 \/ Observer(r, 1) # "log")
    /\ Goto(r, "escaped")
    /\ UNCHANGED <<stateVars, holder, delivery, results, errors, streamVars, crashed>>

-----------------------------------------------------------------------------
(* LogState::record, under the guard *)

\* A start that was acknowledged before is dropped, whatever the lifecycle.
\* (The variant suppresses nothing.)
SuppressedNever(a) == FALSE

Suppressed(a) == KindOf(a) = "start" /\ a \in acknowledged

\* (The variant takes a writer that failed for one that is not closed.)
EnterUnlessClosed(a) ==
    /\ Records(a)
    /\ ~Suppressed(a) /\ lifecycle # "closed"
    /\ holder' = a
    /\ Goto(a, "write")
    /\ UNCHANGED <<stateVars, delivery, results, errors, streamVars, crashed>>

Enter(a) ==
    /\ Records(a)
    /\ ~Suppressed(a) /\ lifecycle = "active"
    /\ holder' = a
    /\ Goto(a, "write")
    /\ UNCHANGED <<stateVars, delivery, results, errors, streamVars, crashed>>

\* (The variant waits for a failed writer to come back.)
RefuseClosed(a) ==
    /\ Records(a)
    /\ \/ Suppressed(a) /\ Returns(a, "ok")
       \/ ~Suppressed(a) /\ lifecycle = "closed" /\ Returns(a, "closed")
    /\ UNCHANGED <<stateVars, holder, streamVars, crashed>>

Refuse(a) ==
    /\ Records(a)
    /\ \/ Suppressed(a) /\ Returns(a, "ok")
       \/ ~Suppressed(a) /\ lifecycle = "failed" /\ Returns(a, "unavailable")
       \/ ~Suppressed(a) /\ lifecycle = "closed" /\ Returns(a, "closed")
    /\ UNCHANGED <<stateVars, holder, streamVars, crashed>>

\* How many pieces of its line the stream has taken.
Taken(a) == Cardinality({i \in DOMAIN file : file[i].line = Here(a)})

\* One write takes some of the remaining pieces, at least one.
\* (The variant starts the line over after a partial write.)
WriteFromStart(a) ==
    /\ At(a, "write")
    /\ \E upto \in 1..Parts :
        /\ file' = file \o [i \in 1..upto |-> [line |-> Here(a), part |-> i]]
        /\ IF upto = Parts THEN Goto(a, "flush") ELSE UNCHANGED pc
    /\ UNCHANGED <<stateVars, holder, delivery, results, errors, flushed, synced, crashed>>

Write(a) ==
    /\ At(a, "write")
    /\ \E upto \in (Taken(a) + 1)..Parts :
        /\ file' = file \o [i \in 1..(upto - Taken(a)) |->
                              [line |-> Here(a), part |-> Taken(a) + i]]
        /\ IF upto = Parts THEN Goto(a, "flush") ELSE UNCHANGED pc
    /\ UNCHANGED <<stateVars, holder, delivery, results, errors, flushed, synced, crashed>>

\* The line is in; the guard is dropped, a start is remembered.
Acknowledge(a) ==
    /\ acknowledged' = IF KindOf(a) = "start" THEN acknowledged \cup {a} ELSE acknowledged
    /\ holder' = Nobody
    /\ Returns(a, "ok")

\* (The variant acknowledges an end on its flush, as the other lines.)
FlushOnly(a) ==
    /\ At(a, "flush")
    /\ flushed' = Len(file)
    /\ Acknowledge(a)
    /\ UNCHANGED <<lifecycle, file, synced, crashed>>

Flush(a) ==
    /\ At(a, "flush")
    /\ flushed' = Len(file)
    /\ IF KindOf(a) = "end"
       THEN Goto(a, "sync") /\ UNCHANGED <<acknowledged, holder, delivery, results, errors>>
       ELSE Acknowledge(a)
    /\ UNCHANGED <<lifecycle, file, synced, crashed>>

Sync(a) ==
    /\ At(a, "sync")
    /\ synced' = Len(file) /\ flushed' = Len(file)
    /\ Acknowledge(a)
    /\ UNCHANGED <<lifecycle, file, crashed>>

\* A write that fails or makes no progress, a flush or a synchronization that
\* fails: the writer is given up for good.
PersistFails(a) ==
    /\ pc[a] \in {"write", "flush", "sync"} /\ crashed = "no"
    /\ lifecycle' = "failed"
    /\ holder' = Nobody
    /\ Returns(a, "failed")
    /\ UNCHANGED <<acknowledged, streamVars, crashed>>

-----------------------------------------------------------------------------
(* LogState::close, by a closer or by the owner's drop *)

CloseActive(a) ==
    /\ Closes(a)
    /\ lifecycle = "active"
    /\ holder' = a
    /\ Goto(a, "close_sync")
    /\ UNCHANGED <<stateVars, delivery, results, errors, streamVars, crashed>>

\* A failure delivered before is not delivered again.
\* (The variant replays it.)
CloseAgainReplaying(a) ==
    /\ Closes(a)
    /\ lifecycle # "active"
    /\ Returns(a, IF lifecycle = "failed" THEN "failed" ELSE "ok")
    /\ UNCHANGED <<stateVars, holder, streamVars, crashed>>

CloseAgain(a) ==
    /\ Closes(a)
    /\ lifecycle # "active"
    /\ Returns(a, "ok")
    /\ UNCHANGED <<stateVars, holder, streamVars, crashed>>

\* The stream is closed also when it could not be synchronized.
CloseSync(a) ==
    /\ At(a, "close_sync")
    /\ \/ synced' = Len(file) /\ flushed' = Len(file) /\ UNCHANGED lifecycle
       \/ lifecycle' = "failed" /\ UNCHANGED <<synced, flushed>>
    /\ Goto(a, "close_file")
    /\ UNCHANGED <<acknowledged, holder, delivery, results, errors, file, crashed>>

CloseFile(a) ==
    /\ At(a, "close_file")
    /\ lifecycle' \in IF lifecycle = "failed" THEN {"failed"} ELSE {"closed", "failed"}
    /\ holder' = Nobody
    /\ Returns(a, IF lifecycle' = "failed" THEN "failed" ELSE "ok")
    /\ UNCHANGED <<acknowledged, streamVars, crashed>>

-----------------------------------------------------------------------------
(* The machine *)

\* A process that dies loses what was not flushed, a machine that loses power
\* what was not synchronized; either may keep more.
Keeps(least) ==
    \E kept \in least..Len(file) : file' = SubSeq(file, 1, kept)

Crash ==
    /\ crashed = "no"
    /\ \/ crashed' = "process" /\ Keeps(flushed)
       \/ crashed' = "power" /\ Keeps(synced)
    /\ UNCHANGED <<stateVars, callVars, flushed, synced>>

Init ==
    /\ lifecycle = "active" /\ acknowledged = {}
    /\ holder = Nobody
    /\ pc = [a \in Actors |-> "idle"]
    /\ delivery = [a \in Actors |-> 1]
    /\ results = [a \in Actors |-> <<>>]
    /\ errors = [r \in Runs |-> <<>>]
    /\ file = <<>> /\ flushed = 0 /\ synced = 0
    /\ crashed = "no"

Record(a) == Enter(a) \/ Refuse(a) \/ Write(a) \/ Flush(a) \/ Sync(a) \/ PersistFails(a)
Close(a)  == CloseActive(a) \/ CloseAgain(a) \/ CloseSync(a) \/ CloseFile(a)

Step(a) == ConversionFails(a) \/ Record(a) \/ Close(a)

Next == (\E a \in Actors : Step(a)) \/ (\E r \in Runs : Observe(r) \/ Escape(r)) \/ Crash

Spec == Init /\ [][Next]_vars

\* I/O calls return, threads are scheduled, and a call that wants the guard
\* gets it when it stays free; the application's observers return.  Nothing is
\* assumed of failing conversions.
FairSpec ==
    /\ Spec
    /\ \A a \in Actors : WF_vars(Record(a)) /\ WF_vars(Close(a))
    /\ \A r \in Runs : WF_vars(Observe(r))

-----------------------------------------------------------------------------
(* Properties *)

Follows(piece, before) ==
    \/ piece.part = 1 /\ before.part = Parts
    \/ piece.part = before.part + 1 /\ piece.line = before.line

Torn == file # <<>> /\ file[Len(file)].part # Parts

\* Lines never interleave and none is written twice: the file is a sequence of
\* different whole lines, and what follows the last of them is the beginning
\* of the one line that is being written, that failed, or that a crash cut.
FileWellFormed ==
    /\ file # <<>> => file[1].part = 1
    /\ \A i \in 2..Len(file) : Follows(file[i], file[i - 1])
    /\ \A i, j \in DOMAIN file : file[i] = file[j] => i = j
    /\ Torn => lifecycle = "failed" \/ crashed # "no" \/ (holder # Nobody /\ pc[holder] = "write")

InFile(line) == \E i \in DOMAIN file : file[i] = [line |-> line, part |-> Parts]

Returned(a, d, result) == d \in DOMAIN results[a] /\ results[a][d] = result

\* What was acknowledged is in the file: an event or an end by its own line, a
\* start by the one start line of its Run.  It outlives the process, and a Run
\* end outlives a power loss as well.  An orderly close, also the one of the
\* drop, leaves a file of whole lines that storage holds completely.
AcknowledgedKept ==
    /\ \A a \in Runs \cup Events : \A d \in 1..Deliveries(a) :
          Returned(a, d, "ok") /\ Observer(a, d) = "log" =>
            CASE Kind(a, d) = "end"   -> InFile(<<a, d>>)
              [] Kind(a, d) = "event" -> crashed # "power" => InFile(<<a, d>>)
              [] Kind(a, d) = "start" ->
                    crashed # "power" => \E e \in 1..d : InFile(<<a, e>>)
    /\ lifecycle = "closed" => synced = Len(file) /\ ~Torn

\* Nothing is lost in silence: while the machine is up, a Run whose result is
\* out misses a start in the file, or one of its ends, only if the result says
\* so; and it says so of each slot, whatever the slots before it returned.
MissingEvidenceTold ==
    \A r \in {r \in Runs : pc[r] = "done" /\ crashed = "no"} :
        LET Told(callback)  == {i \in DOMAIN errors[r] :
                                   errors[r][i] = [callback |-> callback, observer |-> "log"]}
            Lines(kind)     == {d \in 1..Deliveries(r) : Kind(r, d) = kind /\ InFile(<<r, d>>)}
            LogSlots        == {i \in DOMAIN Slots[r] : Slots[r][i] = "log"}
        IN  /\ LogSlots # {} /\ Lines("start") = {} => Cardinality(Told("start")) = Cardinality(LogSlots)
            /\ Cardinality(Lines("end")) >= Cardinality(LogSlots) - Cardinality(Told("end"))

\* However many slots the writer has in a Run, and however far a failed
\* persist got, the file names the start of a Run once.
OneStartPerRun ==
    \A r \in Runs : \A d, e \in 1..Len(Slots[r]) :
        InFile(<<r, d>>) /\ InFile(<<r, e>>) => d = e

Failures == UNION {{<<a, d>> : d \in {d \in DOMAIN results[a] : results[a][d] = "failed"}} : a \in Actors}

\* One persistence failure is the last: it is delivered to the one call that
\* met it, every later record learns that the writer is unavailable, and no
\* close repeats it.
OneFailureReported ==
    /\ \A f, g \in Failures : f = g
    /\ lifecycle = "failed" /\ holder = Nobody <=> Failures # {}
    /\ \A a \in Actors : \A d \in DOMAIN results[a] :
          Returned(a, d, "unavailable") => Failures # {}

\* The file implements an append-only log of whole lines: nothing is added
\* after a failure or a close, and a crash takes only what was not stored.
LinesOf(pieces) ==
    LET lines[n \in 0..Len(pieces)] ==
            IF n = 0 THEN <<>>
            ELSE IF pieces[n].part = Parts THEN Append(lines[n - 1], pieces[n].line)
            ELSE lines[n - 1]
    IN  lines

WholeLines(pieces) == LinesOf(pieces)[Len(pieces)]

AbstractLog == INSTANCE AppendLog WITH
    Lines   <- Line,
    log     <- WholeLines(file),
    durable <- Len(WholeLines(SubSeq(file, 1, synced))),
    open    <- lifecycle = "active" /\ crashed = "no"

RefinesAppendLog == AbstractLog!LogSpec

\* Every call returns, unless the machine goes down first: a failed or closed
\* writer refuses, it never makes a Run wait.
EveryCallReturns ==
    <>(crashed # "no" \/ \A a \in Actors : pc[a] \in {"done", "escaped"})
=============================================================================
