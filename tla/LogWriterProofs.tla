--------------------------- MODULE LogWriterProofs ---------------------------
(***************************************************************************)
(* Proofs about LogWriter, for any Runs and observer slots, any number of  *)
(* host events and closes, and lines of any number of pieces: the file is  *)
(* a sequence of whole lines, keeps what was acknowledged, names each Run  *)
(* once, reports one failure once, and is an append-only log.              *)
(*                                                                         *)
(* The argument: the guard excludes (Control), so that while a call        *)
(* persists its line the file ends with exactly the pieces of that line it *)
(* has written so far (InProgress) and nothing of a line is there before   *)
(* its call (NothingAhead).  What was returned and remembered is tied to a *)
(* place in the file below what storage holds (ReturnedStored), which no   *)
(* crash cuts.  IInv is the conjunction of these facts.                    *)
(***************************************************************************)
EXTENDS LogWriter, InductionProofs, SequenceTheorems, FiniteSetTheorems, TLAPS

Persisting == {"write", "flush", "sync"}
Holding    == Persisting \cup {"close_sync", "close_file"}
Results    == {"ok", "conversion", "refused", "unavailable", "closed", "failed"}
Piece      == [line: Line, part: 1..Parts]
Error      == [callback: {"start", "end"}, observer: {"log", "failing"}]

\* Every variable keeps its shape.
Shape ==
    /\ lifecycle \in {"active", "failed", "closed"}
    /\ acknowledged \subseteq Runs
    /\ holder \in Actors \cup {Nobody}
    /\ pc \in [Actors -> {"idle", "done", "escaped"} \cup Holding]
    /\ delivery \in [Actors -> Nat \ {0}]
    /\ results \in [Actors -> Seq(Results)]
    /\ errors \in [Runs -> Seq(Error)]
    /\ file \in Seq(Piece)
    /\ flushed \in Nat /\ synced \in Nat
    /\ crashed \in {"no", "process", "power"}

\* Where a call is, what it may hold, and how many returned before it.
ControlOf(a) ==
    /\ pc[a] \in Holding <=> holder = a
    /\ delivery[a] <= Deliveries(a)
    /\ Len(results[a]) = IF pc[a] = "done" THEN Deliveries(a) ELSE delivery[a] - 1
    /\ pc[a] = "done" => delivery[a] = Deliveries(a)
    /\ pc[a] \in Persisting =>
          /\ KindOf(a) # "close" /\ Observer(a, delivery[a]) = "log"
          /\ lifecycle = "active" /\ ~Suppressed(a)
    /\ pc[a] = "sync" => KindOf(a) = "end"
    /\ pc[a] \in {"close_sync", "close_file"} => KindOf(a) = "close"
    /\ pc[a] = "close_sync" => lifecycle = "active"
    /\ pc[a] = "close_file" => lifecycle # "closed"

Control == \A a \in Actors : ControlOf(a)

\* Nothing of a line is in the file before it is persisted.
NothingAhead ==
    \A a \in Actors : \A d \in 1..Deliveries(a), i \in DOMAIN file : file[i].line = <<a, d>> =>
        d <= Len(results[a]) \/ (d = delivery[a] /\ pc[a] \in Persisting)

\* The file ends with the first n pieces of the current line of a, and has no
\* other piece of it.
EndsWith(a, n) ==
    /\ n <= Len(file)
    /\ \A i \in 1..Len(file) :
          IF i <= Len(file) - n THEN file[i].line # Here(a)
          ELSE file[i] = [line |-> Here(a), part |-> i - (Len(file) - n)]
    /\ n < Len(file) => file[Len(file) - n].part = Parts

InProgress ==
    crashed = "no" =>
        \A a \in Actors :
            /\ pc[a] = "write" => \E n \in 0..(Parts - 1) : EndsWith(a, n)
            /\ pc[a] \in {"flush", "sync"} => EndsWith(a, Parts)

\* What storage holds of the file.
Levels ==
    /\ synced <= flushed
    /\ crashed # "power" => flushed <= Len(file)
    /\ synced <= Len(file)

\* A line whole among the first n pieces.
Stored(line, n) == \E i \in 1..Len(file) : i <= n /\ file[i] = [line |-> line, part |-> Parts]

\* The start of a Run that is remembered was recorded, and is stored.
AcknowledgedStored ==
    \A r \in acknowledged : \E e \in 1..Len(results[r]) :
        e <= Len(Slots[r]) /\ (crashed # "power" => Stored(<<r, e>>, flushed))

\* Where the line of a call that returned "ok" is kept.
ReturnedStored ==
    \A a \in Runs \cup Events : \A d \in 1..Deliveries(a) :
        Returned(a, d, "ok") /\ Observer(a, d) = "log" =>
          CASE Kind(a, d) = "end"   -> Stored(<<a, d>>, synced)
            [] Kind(a, d) = "event" -> crashed # "power" => Stored(<<a, d>>, flushed)
            [] Kind(a, d) = "start" ->
                  crashed # "power" => \E e \in 1..d : Stored(<<a, e>>, flushed)

\* The start line of a Run is in the file only if the Run is remembered, the
\* writer failed after the line, or the line is being flushed.
StartKnown ==
    \A r \in Runs : \A d \in 1..Len(Slots[r]) : InFile(<<r, d>>) =>
        \/ r \in acknowledged
        \/ lifecycle = "failed"
        \/ pc[r] = "flush" /\ delivery[r] = d

\* A close that synchronized leaves whole lines and nothing to store.
Orderly ==
    /\ lifecycle = "closed" => synced = Len(file) /\ ~Torn
    /\ crashed = "no" /\ lifecycle = "active" =>
          \A a \in Actors : pc[a] = "close_file" => synced = Len(file)

IInv ==
    /\ Shape /\ Control /\ NothingAhead /\ InProgress /\ FileWellFormed
    /\ Levels /\ AcknowledgedStored /\ ReturnedStored
    /\ StartKnown /\ OneStartPerRun /\ Orderly /\ OneFailureReported

-----------------------------------------------------------------------------
(***************************************************************************)
(* Deliveries, their kinds and their observers.                            *)
(***************************************************************************)

\* Every actor has a delivery to make, and a Run as many ends as starts.
LEMMA DeliveriesType ==
    /\ \A a \in Actors : Deliveries(a) \in Nat \ {0}
    /\ \A r \in Runs : /\ Len(Slots[r]) \in Nat \ {0}
                       /\ Deliveries(r) = 2 * Len(Slots[r])
<1>1. ASSUME NEW r \in Runs PROVE Len(Slots[r]) \in Nat \ {0}
  <2>1. Slots[r] \in Seq({"log", "quiet", "failing"}) /\ Slots[r] # <<>>
    BY WriterAssumption
  <2>. QED  BY <2>1, EmptySeq, LenProperties
<1>2. \A r \in Runs : Deliveries(r) = 2 * Len(Slots[r])
  BY DEF Deliveries
<1>3. ASSUME NEW a \in Actors PROVE Deliveries(a) \in Nat \ {0}
  <2>1. CASE a \in Runs
    <3>1. Len(Slots[a]) \in Nat \ {0} /\ Deliveries(a) = 2 * Len(Slots[a])
      BY <1>1, <1>2, <2>1
    <3>. QED  BY <3>1
  <2>2. CASE a \notin Runs
    BY <2>2 DEF Deliveries
  <2>. QED  BY <2>1, <2>2
<1>. QED  BY <1>1, <1>2, <1>3

\* The kinds of actor do not overlap.
LEMMA Kinds ==
    ASSUME NEW a \in Actors, NEW d \in 1..Deliveries(a)
    PROVE  /\ a \in Runs => /\ Kind(a, d) = "start" <=> d <= Len(Slots[a])
                            /\ Kind(a, d) = "end" <=> d > Len(Slots[a])
                            /\ Kind(a, d) \in {"start", "end"}
           /\ a \in Events => a \notin Runs /\ Kind(a, d) = "event"
           /\ a \notin Runs \cup Events => Kind(a, d) = "close"
           /\ a \notin Runs => Kind(a, d) \in {"event", "close"}
<1>1. d \in Nat /\ (a \in Runs => Len(Slots[a]) \in Nat)
  BY DeliveriesType
<1>2. a \in Events => a \notin Runs
  BY WriterAssumption
<1>. QED  BY <1>1, <1>2 DEF Kind

\* A delivery goes to an observer of one of the three sorts; a call of the
\* host goes to the writer.
LEMMA Observers ==
    ASSUME NEW a \in Actors, NEW d \in 1..Deliveries(a)
    PROVE  /\ Observer(a, d) \in {"log", "quiet", "failing"}
           /\ a \notin Runs => Observer(a, d) = "log"
<1>1. CASE a \notin Runs
  BY <1>1 DEF Observer
<1>2. CASE a \in Runs
  <2> DEFINE n == IF Kind(a, d) = "start" THEN d ELSE d - Len(Slots[a])
  <2>1. Len(Slots[a]) \in Nat \ {0} /\ d \in 1..(2 * Len(Slots[a]))
    BY <1>2, DeliveriesType
  <2>2. Kind(a, d) = "start" <=> d <= Len(Slots[a])
    BY <1>2, Kinds
  <2>3. n \in 1..Len(Slots[a])
    BY <2>1, <2>2
  <2>4. Slots[a] \in Seq({"log", "quiet", "failing"})
    BY <1>2, WriterAssumption
  <2>5. Slots[a][n] \in {"log", "quiet", "failing"}
    BY <2>3, <2>4, ElementOfSeq
  <2>. QED  BY <1>2, <2>5 DEF Observer
<1>. QED  BY <1>1, <1>2

\* The line of a call is a line.
LEMMA HereIsLine ==
    ASSUME NEW a \in Runs \cup Events, NEW d \in 1..Deliveries(a)
    PROVE  <<a, d>> \in Line
BY DEF Line

\* A line names its actor and one of its deliveries.
LEMMA LineNames ==
    ASSUME NEW line \in Line
    PROVE  \E a \in Runs \cup Events : \E d \in 1..Deliveries(a) : line = <<a, d>>
BY DEF Line

-----------------------------------------------------------------------------
(***************************************************************************)
(* What the steps amount to.                                               *)
(***************************************************************************)

\* A call that returns: its result is its delivery's, the others stay.
LEMMA Returning ==
    ASSUME Shape, Control, NEW a \in Actors, pc[a] # "done",
           NEW result \in Results, Returns(a, result)
    PROVE  /\ results' \in [Actors -> Seq(Results)]
           /\ delivery' \in [Actors -> Nat \ {0}]
           /\ pc' \in [Actors -> {"idle", "done", "escaped"} \cup Holding]
           /\ pc'[a] \in {"idle", "done"}
           /\ delivery'[a] <= Deliveries(a)
           /\ Len(results'[a]) = delivery[a] /\ Len(results[a]) = delivery[a] - 1
           /\ Len(results'[a]) = IF pc'[a] = "done" THEN Deliveries(a) ELSE delivery'[a] - 1
           /\ pc'[a] = "done" => delivery'[a] = Deliveries(a)
           /\ \A d, x : Returned(a, d, x)' <=> Returned(a, d, x) \/ (d = delivery[a] /\ x = result)
           /\ \A b \in Actors \ {a} : /\ pc'[b] = pc[b] /\ delivery'[b] = delivery[b]
                                      /\ results'[b] = results[b]
<1>1. /\ pc \in [Actors -> {"idle", "done", "escaped"} \cup Holding]
      /\ delivery \in [Actors -> Nat \ {0}] /\ results \in [Actors -> Seq(Results)]
      /\ delivery[a] <= Deliveries(a) /\ Deliveries(a) \in Nat
      /\ Len(results[a]) = delivery[a] - 1
  BY DeliveriesType DEF Shape, Control, ControlOf
<1>2. /\ results' = [results EXCEPT ![a] = Append(results[a], result)]
      /\ IF delivery[a] < Deliveries(a)
         THEN /\ delivery' = [delivery EXCEPT ![a] = delivery[a] + 1]
              /\ pc' = [pc EXCEPT ![a] = "idle"]
         ELSE delivery' = delivery /\ pc' = [pc EXCEPT ![a] = "done"]
  BY DEF Returns, Goto
<1>3. /\ Append(results[a], result) \in Seq(Results)
      /\ Len(Append(results[a], result)) = Len(results[a]) + 1
      /\ \A d \in 1..Len(results[a]) : Append(results[a], result)[d] = results[a][d]
      /\ Append(results[a], result)[Len(results[a]) + 1] = result
  BY <1>1, AppendProperties
<1>4. results'[a] = Append(results[a], result) /\ results' \in [Actors -> Seq(Results)]
  BY <1>1, <1>2, <1>3
<1>5. delivery[a] \in Nat /\ Len(results'[a]) = delivery[a]
  BY <1>1, <1>3, <1>4
<1>6. /\ delivery' \in [Actors -> Nat \ {0}] /\ pc'[a] \in {"idle", "done"}
      /\ delivery'[a] <= Deliveries(a)
      /\ pc'[a] = "done" => delivery'[a] = Deliveries(a) /\ delivery'[a] = delivery[a]
      /\ pc'[a] # "done" => delivery'[a] = delivery[a] + 1
  <2>1. CASE delivery[a] < Deliveries(a)
    <3>1. /\ delivery' = [delivery EXCEPT ![a] = delivery[a] + 1]
          /\ pc' = [pc EXCEPT ![a] = "idle"]
      BY <1>2, <2>1
    <3>2. delivery[a] + 1 \in Nat \ {0} /\ delivery[a] + 1 <= Deliveries(a)
      BY <1>1, <2>1
    <3>3. delivery'[a] = delivery[a] + 1 /\ pc'[a] = "idle"
      BY <1>1, <3>1
    <3>4. delivery' \in [Actors -> Nat \ {0}]
      BY <1>1, <3>1, <3>2
    <3>. QED  BY <3>2, <3>3, <3>4
  <2>2. CASE ~(delivery[a] < Deliveries(a))
    <3>1. delivery' = delivery /\ pc' = [pc EXCEPT ![a] = "done"]
      BY <1>2, <2>2
    <3>2. delivery[a] = Deliveries(a) /\ pc'[a] = "done"
      BY <1>1, <2>2, <3>1
    <3>. QED  BY <1>1, <3>1, <3>2
  <2>. QED  BY <2>1, <2>2
<1>7. \A d, x : Returned(a, d, x)' <=> Returned(a, d, x) \/ (d = delivery[a] /\ x = result)
  <2>1. /\ DOMAIN results[a] = 1..(delivery[a] - 1) /\ DOMAIN results'[a] = 1..delivery[a]
        /\ \A d \in 1..(delivery[a] - 1) : results'[a][d] = results[a][d]
        /\ results'[a][delivery[a]] = result
    BY <1>1, <1>3, <1>4, <1>5, LenProperties
  <2>2. \A d : d \in 1..delivery[a] <=> d \in 1..(delivery[a] - 1) \/ d = delivery[a]
    BY <1>1
  <2>3. delivery[a] \notin 1..(delivery[a] - 1)
    BY <1>1
  <2>. QED  BY <2>1, <2>2, <2>3 DEF Returned
<1>8. \A b \in Actors \ {a} : /\ pc'[b] = pc[b] /\ delivery'[b] = delivery[b]
                              /\ results'[b] = results[b]
  BY <1>1, <1>2
<1>9. pc' \in [Actors -> {"idle", "done", "escaped"} \cup Holding]
  BY <1>1, <1>2
<1>. QED  BY <1>1, <1>4, <1>5, <1>6, <1>7, <1>8, <1>9

\* The errors a Run contains stay a sequence of errors.
LEMMA ErrorsKept ==
    ASSUME Shape, Control, NEW a \in Actors, NEW result \in Results, Returns(a, result),
           a \in Runs /\ result # "ok" => Observer(a, delivery[a]) # "quiet"
    PROVE  errors' \in [Runs -> Seq(Error)]
<1>1. delivery[a] \in 1..Deliveries(a) /\ errors \in [Runs -> Seq(Error)]
  BY DeliveriesType DEF Shape, Control, ControlOf
<1>2. errors' = [errors EXCEPT ![a] = Contains(a, result)]
  BY DEF Returns
<1>3. ASSUME a \in Runs PROVE Contains(a, result) \in Seq(Error)
  <2>1. errors[a] \in Seq(Error)
    BY <1>1, <1>3
  <2>2. CASE result = "ok"
    BY <2>1, <2>2 DEF Contains
  <2>3. CASE result # "ok"
    <3> DEFINE error == [callback |-> KindOf(a), observer |-> Observer(a, delivery[a])]
    <3>1. error \in Error
      BY <1>1, <1>3, <2>3, Kinds, Observers DEF KindOf, Error
    <3>2. Contains(a, result) = Append(errors[a], error)
      BY <1>3, <2>3 DEF Contains
    <3>. QED  BY <2>1, <3>1, <3>2, AppendProperties
  <2>. QED  BY <2>2, <2>3
<1>. QED  BY <1>1, <1>2, <1>3

\* Only one call is under the guard.
LEMMA Exclusive ==
    ASSUME Control, NEW a \in Actors
    PROVE  /\ pc[a] \in Holding =>
                 holder = a /\ holder # Nobody /\ \A b \in Actors \ {a} : pc[b] \notin Holding
           /\ holder = Nobody => pc[a] \notin Holding
BY WriterAssumption DEF Control, ControlOf

\* A call that returns without having held the guard.
Answers(a, result) ==
    /\ pc[a] = "idle" /\ crashed = "no"
    /\ result \in Results \ {"failed"}
    /\ Returns(a, result)
    /\ result = "ok" => \/ KindOf(a) = "close" \/ Observer(a, delivery[a]) # "log"
                        \/ Suppressed(a)
    /\ a \in Runs /\ result # "ok" => Observer(a, delivery[a]) # "quiet"
    /\ result = "unavailable" => lifecycle = "failed" /\ holder = Nobody
    /\ UNCHANGED <<stateVars, holder, streamVars, crashed>>

\* A call that takes the guard.
Begins(a, point) ==
    /\ pc[a] = "idle" /\ crashed = "no" /\ holder = Nobody /\ lifecycle = "active"
    /\ \/ /\ point = "write" /\ KindOf(a) # "close"
          /\ Observer(a, delivery[a]) = "log" /\ ~Suppressed(a)
       \/ point = "close_sync" /\ KindOf(a) = "close"
    /\ holder' = a
    /\ pc' = [pc EXCEPT ![a] = point]
    /\ UNCHANGED <<stateVars, delivery, results, errors, streamVars, crashed>>

\* A line that is complete and flushed is acknowledged, an end's once it is
\* synchronized.
Acknowledges(a) ==
    /\ pc[a] = IF KindOf(a) = "end" THEN "sync" ELSE "flush"
    /\ crashed = "no"
    /\ flushed' = Len(file)
    /\ synced' = IF KindOf(a) = "end" THEN Len(file) ELSE synced
    /\ Acknowledge(a)
    /\ UNCHANGED <<lifecycle, file, crashed>>

FlushesEnd(a) ==
    /\ pc[a] = "flush" /\ crashed = "no" /\ KindOf(a) = "end"
    /\ flushed' = Len(file)
    /\ pc' = [pc EXCEPT ![a] = "sync"]
    /\ UNCHANGED <<stateVars, holder, delivery, results, errors, file, synced, crashed>>

Form(a) ==
    \/ \E result \in Results : Answers(a, result)
    \/ \E point \in {"write", "close_sync"} : Begins(a, point)
    \/ Write(a) \/ FlushesEnd(a) \/ Acknowledges(a) \/ PersistFails(a)
    \/ CloseSync(a) \/ CloseFile(a)
    \/ a \in Runs /\ Escape(a)

\* Every step is one of these forms, or a crash.
LEMMA StepForms ==
    ASSUME Shape, Control, Next
    PROVE  (\E a \in Actors : Form(a)) \/ Crash
<1> DEFINE Goal == (\E a \in Actors : Form(a)) \/ Crash
<1>1. ASSUME NEW a \in Actors, NEW result \in Results, Answers(a, result) PROVE Goal
  BY <1>1 DEF Form
<1>2. ASSUME NEW a \in Actors PROVE delivery[a] \in 1..Deliveries(a)
  BY <1>2, DeliveriesType DEF Shape, Control, ControlOf
<1>3. ASSUME NEW a \in Actors, ConversionFails(a) PROVE Goal
  <2>1. Answers(a, "conversion")
    BY <1>3 DEF ConversionFails, Answers, AtLog, At, Results
  <2>. QED  BY <1>1, <2>1 DEF Results
<1>4. ASSUME NEW a \in Actors, Refuse(a) PROVE Goal
  <2>1. /\ AtLog(a) /\ KindOf(a) # "close" /\ holder = Nobody
        /\ UNCHANGED <<stateVars, holder, streamVars, crashed>>
    BY <1>4 DEF Refuse, Records
  <2>2. CASE Suppressed(a) /\ Returns(a, "ok")
    BY <1>1, <2>1, <2>2 DEF Answers, AtLog, At, Results
  <2>3. CASE lifecycle = "failed" /\ Returns(a, "unavailable")
    BY <1>1, <2>1, <2>3 DEF Answers, AtLog, At, Results
  <2>4. CASE lifecycle = "closed" /\ Returns(a, "closed")
    BY <1>1, <2>1, <2>4 DEF Answers, AtLog, At, Results
  <2>. QED  BY <1>4, <2>2, <2>3, <2>4 DEF Refuse
<1>5. ASSUME NEW a \in Actors, CloseAgain(a) PROVE Goal
  <2>1. Answers(a, "ok")
    BY <1>5 DEF CloseAgain, Closes, Answers, AtLog, At, Results
  <2>. QED  BY <1>1, <2>1 DEF Results
<1>6. ASSUME NEW r \in Runs, Observe(r) PROVE Goal
  <2>1. r \in Actors
    BY DEF Actors
  <2>2. Observer(r, delivery[r]) \in {"quiet", "failing"}
    BY <1>2, <1>6, <2>1, Observers DEF Observe
  <2>3. Answers(r, IF Observer(r, delivery[r]) = "failing" THEN "refused" ELSE "ok")
    BY <1>6, <2>2 DEF Observe, Answers, At, Results
  <2>. QED  BY <1>1, <2>1, <2>3 DEF Results
<1>7. ASSUME NEW a \in Actors, Enter(a) PROVE Goal
  BY <1>7 DEF Enter, Records, AtLog, At, Goto, Begins, Form
<1>8. ASSUME NEW a \in Actors, CloseActive(a) PROVE Goal
  BY <1>8 DEF CloseActive, Closes, AtLog, At, Goto, Begins, Form
<1>9. ASSUME NEW a \in Actors, Flush(a) PROVE Goal
  BY <1>9 DEF Flush, At, Goto, FlushesEnd, Acknowledges, Form, stateVars
<1>10. ASSUME NEW a \in Actors, Sync(a) PROVE Goal
  <2>1. KindOf(a) = "end"
    BY <1>10 DEF Sync, At, Control, ControlOf
  <2>. QED  BY <1>10, <2>1 DEF Sync, At, Acknowledges, Form
<1>11. ASSUME NEW a \in Actors, Write(a) \/ PersistFails(a) \/ CloseSync(a) \/ CloseFile(a)
       PROVE  Goal
  BY <1>11 DEF Form
<1>12. ASSUME NEW r \in Runs, Escape(r) PROVE Goal
  BY <1>12 DEF Form, Actors
<1> HIDE DEF Goal
<1>13. Crash => Goal
  BY DEF Goal
<1>14. Goal
  BY <1>3, <1>4, <1>5, <1>6, <1>7, <1>8, <1>9, <1>10, <1>11, <1>12, <1>13
     DEF Next, Step, Record, Close
<1>. QED  BY <1>14 DEF Goal

\* A write adds the next pieces of its line.
LEMMA Writing ==
    ASSUME Shape, Control, InProgress, NEW a \in Actors, Write(a)
    PROVE  \E n \in 0..(Parts - 1) : \E upto \in (n + 1)..Parts :
              /\ EndsWith(a, n)
              /\ Len(file') = Len(file) + (upto - n)
              /\ file' \in Seq(Piece)
              /\ \A i \in 1..Len(file) : file'[i] = file[i]
              /\ \A i \in (Len(file) + 1)..Len(file') :
                    file'[i] = [line |-> Here(a), part |-> i - (Len(file) - n)]
              /\ pc' = IF upto = Parts THEN [pc EXCEPT ![a] = "flush"] ELSE pc
<1>1. pc[a] = "write" /\ crashed = "no" /\ Parts \in Nat \ {0}
  BY WriterAssumption DEF Write, At
<1>2. PICK n \in 0..(Parts - 1) : EndsWith(a, n)
  BY <1>1 DEF InProgress
<1>3. file \in Seq(Piece) /\ Len(file) \in Nat /\ DOMAIN file = 1..Len(file) /\ n <= Len(file)
  BY <1>2, LenProperties DEF Shape, EndsWith
<1>4. Taken(a) = n
  <2>1. {i \in DOMAIN file : file[i].line = Here(a)} = (Len(file) - n + 1)..Len(file)
    <3>1. ASSUME NEW i \in 1..Len(file)
          PROVE  file[i].line = Here(a) <=> i \in (Len(file) - n + 1)..Len(file)
      <4>1. CASE i <= Len(file) - n
        BY <1>2, <1>3, <4>1 DEF EndsWith
      <4>2. CASE ~(i <= Len(file) - n)
        <5>1. file[i] = [line |-> Here(a), part |-> i - (Len(file) - n)]
          BY <1>2, <1>3, <4>2 DEF EndsWith
        <5>. QED  BY <1>3, <4>2, <5>1
      <4>. QED  BY <4>1, <4>2
    <3>2. (Len(file) - n + 1)..Len(file) \subseteq 1..Len(file)
      BY <1>3
    <3>. QED  BY <1>3, <3>1, <3>2
  <2>2. Cardinality((Len(file) - n + 1)..Len(file)) = n
    <3>1. Len(file) - n + 1 \in Int /\ Len(file) \in Int /\ n \in Int
      BY <1>3
    <3>. QED  BY <1>3, <3>1, FS_Interval
  <2>. QED  BY <2>1, <2>2 DEF Taken
<1>5. PICK upto \in (n + 1)..Parts :
          /\ file' = file \o [i \in 1..(upto - n) |-> [line |-> Here(a), part |-> n + i]]
          /\ IF upto = Parts THEN Goto(a, "flush") ELSE UNCHANGED pc
  BY <1>4 DEF Write
<1> DEFINE pieces == [i \in 1..(upto - n) |-> [line |-> Here(a), part |-> n + i]]
<1>6. upto - n \in Nat /\ upto \in Nat /\ n \in Nat /\ n < upto /\ upto <= Parts
  BY <1>1
<1>7. Here(a) \in Line
  <2>1. KindOf(a) # "close" /\ delivery[a] \in 1..Deliveries(a)
    BY <1>1, DeliveriesType DEF Control, ControlOf, Shape, Persisting
  <2>2. a \in Runs \cup Events
    BY <2>1, Kinds DEF KindOf
  <2>. QED  BY <2>1, <2>2, HereIsLine DEF Here
<1>8. pieces \in Seq(Piece) /\ Len(pieces) = upto - n
  <2>1. \A i \in 1..(upto - n) : [line |-> Here(a), part |-> n + i] \in Piece
    BY <1>1, <1>6, <1>7 DEF Piece
  <2>. QED  BY <1>6, <2>1, IsASeq
<1>9. /\ file' \in Seq(Piece) /\ Len(file') = Len(file) + (upto - n)
      /\ \A i \in 1..(Len(file) + (upto - n)) :
            file'[i] = IF i <= Len(file) THEN file[i] ELSE pieces[i - Len(file)]
  <2>1. file' = file \o pieces
    BY <1>5
  <2> HIDE DEF pieces
  <2>2. /\ file \o pieces \in Seq(Piece)
        /\ Len(file \o pieces) = Len(file) + Len(pieces)
        /\ \A i \in 1..(Len(file) + Len(pieces)) :
              (file \o pieces)[i] = IF i <= Len(file) THEN file[i] ELSE pieces[i - Len(file)]
    BY <1>3, <1>8, ConcatProperties
  <2>. QED  BY <1>8, <2>1, <2>2
<1>10. ASSUME NEW i \in (Len(file) + 1)..Len(file')
       PROVE  file'[i] = [line |-> Here(a), part |-> i - (Len(file) - n)]
  <2>1. i - Len(file) \in 1..(upto - n) /\ ~(i <= Len(file))
        /\ i \in 1..(Len(file) + (upto - n)) /\ n + (i - Len(file)) = i - (Len(file) - n)
    BY <1>3, <1>6, <1>9
  <2>2. file'[i] = pieces[i - Len(file)]
    BY <1>9, <2>1
  <2>. QED  BY <2>1, <2>2
<1>11. ASSUME NEW i \in 1..Len(file) PROVE file'[i] = file[i]
  <2>1. i \in 1..(Len(file) + (upto - n)) /\ i <= Len(file)
    BY <1>3, <1>6
  <2>. QED  BY <1>9, <2>1
<1>12. pc' = IF upto = Parts THEN [pc EXCEPT ![a] = "flush"] ELSE pc
  BY <1>5 DEF Goto
<1>. QED  BY <1>2, <1>9, <1>10, <1>11, <1>12

\* A crash keeps a beginning of the file, and what storage holds of it.
LEMMA Cutting ==
    ASSUME Shape, Levels, Crash
    PROVE  /\ file' \in Seq(Piece) /\ Len(file') <= Len(file) /\ Len(file') \in Nat
           /\ \A i \in 1..Len(file') : i \in 1..Len(file) /\ file'[i] = file[i]
           /\ crashed = "no" /\ crashed' \in {"process", "power"}
           /\ synced <= Len(file')
           /\ crashed' # "power" => flushed <= Len(file')
<1>1. /\ file \in Seq(Piece) /\ Len(file) \in Nat /\ flushed \in Nat /\ synced \in Nat
      /\ crashed = "no" /\ synced <= flushed
  BY LenProperties DEF Shape, Crash, Levels
<1>2. \/ /\ crashed' = "process"
         /\ \E kept \in flushed..Len(file) : file' = SubSeq(file, 1, kept)
      \/ /\ crashed' = "power"
         /\ \E kept \in synced..Len(file) : file' = SubSeq(file, 1, kept)
  BY DEF Crash, Keeps
<1>3. ASSUME NEW kept \in 0..Len(file), file' = SubSeq(file, 1, kept)
      PROVE  /\ file' \in Seq(Piece) /\ Len(file') = kept
             /\ \A i \in 1..Len(file') : i \in 1..Len(file) /\ file'[i] = file[i]
  <2>1. \A i \in 1..kept : i \in 1..Len(file)
    BY <1>1
  <2>2. /\ SubSeq(file, 1, kept) \in Seq(Piece)
        /\ Len(SubSeq(file, 1, kept)) = IF 1 <= kept THEN kept - 1 + 1 ELSE 0
        /\ \A i \in 1..(kept - 1 + 1) : SubSeq(file, 1, kept)[i] = file[1 + i - 1]
    BY <1>1, <2>1, SubSeqProperties
  <2>3. kept \in Nat /\ kept - 1 + 1 = kept /\ \A i \in 1..kept : 1 + i - 1 = i
    BY <1>1
  <2>4. Len(file') = kept
    BY <1>3, <2>2, <2>3
  <2>5. \A i \in 1..kept : file'[i] = file[i]
    BY <1>3, <2>2, <2>3
  <2>. QED  BY <1>3, <2>1, <2>2, <2>4, <2>5
<1>4. CASE /\ crashed' = "process"
           /\ \E kept \in flushed..Len(file) : file' = SubSeq(file, 1, kept)
  <2>1. PICK kept \in flushed..Len(file) : file' = SubSeq(file, 1, kept)
    BY <1>4
  <2>2. kept \in 0..Len(file) /\ kept >= flushed
    BY <1>1
  <2>. QED  BY <1>1, <1>3, <1>4, <2>1, <2>2
<1>5. CASE /\ crashed' = "power"
           /\ \E kept \in synced..Len(file) : file' = SubSeq(file, 1, kept)
  <2>1. PICK kept \in synced..Len(file) : file' = SubSeq(file, 1, kept)
    BY <1>5
  <2>2. kept \in 0..Len(file) /\ kept >= synced
    BY <1>1
  <2>. QED  BY <1>1, <1>3, <1>5, <2>1, <2>2
<1>. QED  BY <1>2, <1>4, <1>5

-----------------------------------------------------------------------------
(***************************************************************************)
(* Types and control.                                                      *)
(***************************************************************************)

\* Every step keeps the shape of the variables.
LEMMA ShapeKept ==
    ASSUME Shape, Control, InProgress, Levels, Next
    PROVE  Shape'
<1> USE DEF stateVars, streamVars
<1>1. ASSUME NEW a \in Actors, pc[a] # "done", NEW result \in Results, Returns(a, result),
             a \in Runs /\ result # "ok" => Observer(a, delivery[a]) # "quiet"
      PROVE  /\ pc' \in [Actors -> {"idle", "done", "escaped"} \cup Holding]
             /\ delivery' \in [Actors -> Nat \ {0}]
             /\ results' \in [Actors -> Seq(Results)]
             /\ errors' \in [Runs -> Seq(Error)]
  BY <1>1, Returning, ErrorsKept
<1>2. file \in Seq(Piece) /\ Len(file) \in Nat
  BY LenProperties DEF Shape
<1>3. ASSUME NEW a \in Actors, NEW point \in Holding, pc' = [pc EXCEPT ![a] = point]
      PROVE  pc' \in [Actors -> {"idle", "done", "escaped"} \cup Holding]
  BY <1>3 DEF Shape
<1>4. ASSUME NEW a \in Actors, NEW result \in Results, Answers(a, result) PROVE Shape'
  BY <1>1, <1>4 DEF Answers, Shape
<1>5. ASSUME NEW a \in Actors, NEW point \in {"write", "close_sync"}, Begins(a, point)
      PROVE  Shape'
  BY <1>3, <1>5 DEF Begins, Shape, Holding, Persisting
<1>6. ASSUME NEW a \in Actors, Write(a) PROVE Shape'
  <2>1. file' \in Seq(Piece) /\ (pc' = pc \/ pc' = [pc EXCEPT ![a] = "flush"])
    BY <1>6, Writing
  <2>. QED  BY <1>3, <1>6, <2>1 DEF Write, Shape, Holding, Persisting
<1>7. ASSUME NEW a \in Actors, FlushesEnd(a) PROVE Shape'
  BY <1>2, <1>3, <1>7 DEF FlushesEnd, Shape, Holding, Persisting
<1>8. ASSUME NEW a \in Actors, Acknowledges(a) PROVE Shape'
  <2>1. pc[a] # "done" /\ Returns(a, "ok")
    BY <1>8 DEF Acknowledges, Acknowledge
  <2>2. /\ pc' \in [Actors -> {"idle", "done", "escaped"} \cup Holding]
        /\ delivery' \in [Actors -> Nat \ {0}]
        /\ results' \in [Actors -> Seq(Results)]
        /\ errors' \in [Runs -> Seq(Error)]
    BY <1>1, <2>1 DEF Results
  <2>3. KindOf(a) = "start" => a \in Runs
    <3>1. delivery[a] \in 1..Deliveries(a)
      BY DeliveriesType DEF Shape, Control, ControlOf
    <3>. QED  BY <3>1, Kinds DEF KindOf
  <2>4. flushed' \in Nat /\ synced' \in Nat /\ acknowledged' \subseteq Runs
    BY <1>2, <1>8, <2>3 DEF Acknowledges, Acknowledge, Shape
  <2>. QED  BY <1>8, <2>2, <2>4 DEF Acknowledges, Acknowledge, Shape
<1>9. ASSUME NEW a \in Actors, PersistFails(a) PROVE Shape'
  <2>1. pc[a] # "done" /\ Returns(a, "failed") /\ Observer(a, delivery[a]) = "log"
    BY <1>9 DEF PersistFails, Control, ControlOf, Persisting
  <2>. QED  BY <1>1, <1>9, <2>1 DEF PersistFails, Shape, Results
<1>10. ASSUME NEW a \in Actors, CloseSync(a) PROVE Shape'
  BY <1>2, <1>3, <1>10 DEF CloseSync, Goto, Shape, Holding
<1>11. ASSUME NEW a \in Actors, CloseFile(a) PROVE Shape'
  <2>1. pc[a] # "done" /\ Returns(a, IF lifecycle' = "failed" THEN "failed" ELSE "ok")
    BY <1>11 DEF CloseFile, At
  <2>2. lifecycle' \in {"failed", "closed"}
    BY <1>11 DEF CloseFile
  <2>3. a \notin Runs
    <3>1. delivery[a] \in 1..Deliveries(a) /\ KindOf(a) = "close"
      BY <1>11, DeliveriesType DEF CloseFile, At, Shape, Control, ControlOf
    <3>. QED  BY <3>1, Kinds DEF KindOf
  <2>. QED  BY <1>1, <1>11, <2>1, <2>2, <2>3 DEF CloseFile, Shape, Results
<1>12. ASSUME NEW r \in Runs, Escape(r) PROVE Shape'
  BY <1>12 DEF Escape, Goto, Shape
<1>13. CASE Crash
  BY <1>13, Cutting DEF Crash, Shape, callVars
<1>. QED
  BY <1>4, <1>5, <1>6, <1>7, <1>8, <1>9, <1>10, <1>11, <1>12, <1>13, StepForms DEF Form

\* Every step keeps the control, of the actor that takes it and of the others.
LEMMA ControlKept ==
    ASSUME Shape, Control, InProgress, Next
    PROVE  Control'
<1> USE DEF stateVars, callVars, streamVars
<1>0. Nobody \notin Actors
  BY WriterAssumption
<1>1. ASSUME NEW a \in Actors,
             \A b \in Actors \ {a} : /\ pc'[b] = pc[b] /\ delivery'[b] = delivery[b]
                                     /\ results'[b] = results[b]
                                     /\ holder' = b <=> holder = b,
             holder = a \/ UNCHANGED <<lifecycle, acknowledged>>,
             ControlOf(a)'
      PROVE  Control'
  <2>1. ASSUME NEW b \in Actors \ {a} PROVE ControlOf(b)'
    <3>1. ControlOf(b)
      BY DEF Control
    <3>2. pc[b] \in Holding => UNCHANGED <<lifecycle, acknowledged>>
      BY <1>1, <3>1 DEF ControlOf
    <3>. QED
      BY <1>1, <3>1, <3>2 DEF ControlOf, Holding, Persisting, KindOf, Suppressed
  <2>. QED  BY <1>1, <2>1 DEF Control
<1>2. ASSUME NEW a \in Actors, pc[a] # "done", NEW result \in Results, Returns(a, result),
             holder' # a
      PROVE  /\ ControlOf(a)'
             /\ \A b \in Actors \ {a} : /\ pc'[b] = pc[b] /\ delivery'[b] = delivery[b]
                                        /\ results'[b] = results[b]
  BY <1>2, Returning DEF ControlOf, Holding, Persisting
<1>4. ASSUME NEW a \in Actors, NEW result \in Results, Answers(a, result) PROVE Control'
  <2>1. pc[a] # "done" /\ Returns(a, result) /\ UNCHANGED <<lifecycle, acknowledged, holder>>
    BY <1>4 DEF Answers
  <2>2. holder' # a
    BY <1>4, <2>1 DEF Answers, Control, ControlOf, Holding, Persisting
  <2>. QED  BY <1>1, <1>2, <2>1, <2>2
<1>5. ASSUME NEW a \in Actors, NEW point \in {"write", "close_sync"}, Begins(a, point)
      PROVE  Control'
  <2>1. /\ pc[a] = "idle" /\ holder = Nobody /\ holder' = a /\ lifecycle = "active"
        /\ pc' = [pc EXCEPT ![a] = point]
        /\ UNCHANGED <<lifecycle, acknowledged, delivery, results>>
    BY <1>5 DEF Begins
  <2>2. pc'[a] = point /\ \A b \in Actors \ {a} : pc'[b] = pc[b]
    BY <2>1 DEF Shape
  <2>3. ControlOf(a)'
    BY <1>5, <2>1, <2>2 DEF Begins, Control, ControlOf, Holding, Persisting, KindOf, Suppressed
  <2>. QED  BY <1>0, <1>1, <2>1, <2>2, <2>3
<1>6. ASSUME NEW a \in Actors, pc[a] \in Holding, NEW point \in Holding,
             pc' = [pc EXCEPT ![a] = point], UNCHANGED <<holder, delivery, results>>,
             ControlOf(a)'
      PROVE  Control'
  <2>1. holder = a /\ \A b \in Actors \ {a} : pc'[b] = pc[b]
    BY <1>6 DEF Control, ControlOf, Shape
  <2>. QED  BY <1>1, <1>6, <2>1
<1>7. ASSUME NEW a \in Actors, Write(a) PROVE Control'
  <2>1. /\ pc[a] = "write" /\ UNCHANGED <<lifecycle, acknowledged, holder, delivery, results>>
        /\ pc' = pc \/ pc' = [pc EXCEPT ![a] = "flush"]
    BY <1>7, Writing DEF Write, At
  <2>2. pc'[a] \in {"write", "flush"}
    BY <2>1 DEF Shape
  <2>3. ControlOf(a)'
    BY <2>1, <2>2 DEF Control, ControlOf, Holding, Persisting, KindOf, Suppressed
  <2>4. CASE pc' = pc
    BY <1>1, <2>1, <2>3, <2>4
  <2>5. CASE pc' = [pc EXCEPT ![a] = "flush"]
    BY <1>6, <2>1, <2>3, <2>5 DEF Holding, Persisting
  <2>. QED  BY <2>1, <2>4, <2>5
<1>8. ASSUME NEW a \in Actors, FlushesEnd(a) PROVE Control'
  <2>1. /\ pc[a] = "flush" /\ KindOf(a) = "end" /\ pc' = [pc EXCEPT ![a] = "sync"]
        /\ UNCHANGED <<lifecycle, acknowledged, holder, delivery, results>>
    BY <1>8 DEF FlushesEnd
  <2>2. pc'[a] = "sync"
    BY <2>1 DEF Shape
  <2>3. ControlOf(a)'
    BY <2>1, <2>2 DEF Control, ControlOf, Holding, Persisting, KindOf, Suppressed
  <2>. QED  BY <1>6, <2>1, <2>3 DEF Holding, Persisting
<1>9. ASSUME NEW a \in Actors, pc[a] \in Holding, NEW result \in Results, Returns(a, result),
             holder' = Nobody
      PROVE  Control'
  <2>1. holder = a /\ pc[a] # "done"
    BY <1>9 DEF Control, ControlOf, Holding, Persisting
  <2>. QED  BY <1>0, <1>1, <1>2, <1>9, <2>1
<1>10. ASSUME NEW a \in Actors, Acknowledges(a) \/ PersistFails(a) \/ CloseFile(a) PROVE Control'
  <2>1. CASE Acknowledges(a)
    BY <1>9, <2>1 DEF Acknowledges, Acknowledge, Holding, Persisting, Results
  <2>2. CASE PersistFails(a)
    BY <1>9, <2>2 DEF PersistFails, Holding, Persisting, Results
  <2>3. CASE CloseFile(a)
    BY <1>9, <2>3 DEF CloseFile, At, Holding, Persisting, Results
  <2>. QED  BY <1>10, <2>1, <2>2, <2>3
<1>11. ASSUME NEW a \in Actors, CloseSync(a) PROVE Control'
  <2>1. /\ pc[a] = "close_sync" /\ pc' = [pc EXCEPT ![a] = "close_file"]
        /\ UNCHANGED <<acknowledged, holder, delivery, results>>
        /\ lifecycle' \in {lifecycle, "failed"}
    BY <1>11 DEF CloseSync, At, Goto
  <2>2. pc'[a] = "close_file"
    BY <2>1 DEF Shape
  <2>3. ControlOf(a)'
    BY <2>1, <2>2 DEF Control, ControlOf, Holding, Persisting, KindOf, Suppressed
  <2>. QED  BY <1>6, <2>1, <2>3 DEF Holding, Persisting
<1>12. ASSUME NEW r \in Runs, Escape(r) PROVE Control'
  <2>1. /\ r \in Actors /\ pc[r] = "idle" /\ pc' = [pc EXCEPT ![r] = "escaped"]
        /\ UNCHANGED <<lifecycle, acknowledged, holder, delivery, results>>
    BY <1>12 DEF Escape, At, Goto, Actors
  <2>2. pc'[r] = "escaped" /\ \A b \in Actors \ {r} : pc'[b] = pc[b]
    BY <2>1 DEF Shape
  <2>3. ControlOf(r)'
    BY <2>1, <2>2 DEF Control, ControlOf, Holding, Persisting, KindOf, Suppressed
  <2>. QED  BY <1>1, <2>1, <2>2, <2>3
<1>13. CASE Crash
  BY <1>13 DEF Crash, Control, ControlOf, KindOf, Suppressed
<1>. QED
  BY <1>4, <1>5, <1>7, <1>8, <1>10, <1>11, <1>12, <1>13, StepForms DEF Form

\* What a step does to the deliveries, and to the file.
LEMMA Effects ==
    ASSUME Shape, Control, InProgress, NEW a \in Actors, Form(a)
    PROVE  /\ crashed = "no" /\ crashed' = "no"
           /\ \/ pc[a] # "done" /\ \E result \in Results : Returns(a, result)
              \/ /\ UNCHANGED <<delivery, results, errors>>
                 /\ pc[a] \in Persisting => pc'[a] \in Persisting
                 /\ \A b \in Actors \ {a} : pc'[b] = pc[b]
           /\ Write(a) \/ UNCHANGED file
<1> USE DEF stateVars, callVars, streamVars
<1>1. ASSUME NEW result \in Results, Answers(a, result)
      PROVE  /\ pc[a] # "done" /\ Returns(a, result)
             /\ crashed = "no" /\ UNCHANGED <<file, crashed>>
  BY <1>1 DEF Answers
<1>2. ASSUME NEW point \in {"write", "close_sync"}, Begins(a, point)
      PROVE  /\ UNCHANGED <<delivery, results, errors, file, crashed>> /\ crashed = "no"
             /\ pc[a] \notin Persisting
             /\ \A b \in Actors \ {a} : pc'[b] = pc[b]
  BY <1>2 DEF Begins, Persisting, Shape
<1>3. ASSUME Write(a)
      PROVE  /\ UNCHANGED <<delivery, results, errors, crashed>> /\ crashed = "no"
             /\ pc'[a] \in Persisting
             /\ \A b \in Actors \ {a} : pc'[b] = pc[b]
  <2>1. pc[a] = "write" /\ (pc' = pc \/ pc' = [pc EXCEPT ![a] = "flush"])
    BY <1>3, Writing DEF Write, At
  <2>. QED  BY <1>3, <2>1 DEF Write, At, Persisting, Shape
<1>4. ASSUME FlushesEnd(a)
      PROVE  /\ UNCHANGED <<delivery, results, errors, file, crashed>> /\ crashed = "no"
             /\ pc'[a] \in Persisting
             /\ \A b \in Actors \ {a} : pc'[b] = pc[b]
  BY <1>4 DEF FlushesEnd, Persisting, Shape
<1>5. ASSUME Acknowledges(a)
      PROVE  /\ pc[a] # "done" /\ Returns(a, "ok") /\ "ok" \in Results
             /\ crashed = "no" /\ UNCHANGED <<file, crashed>>
  BY <1>5 DEF Acknowledges, Acknowledge, Results
<1>6. ASSUME PersistFails(a)
      PROVE  /\ pc[a] # "done" /\ Returns(a, "failed") /\ "failed" \in Results
             /\ crashed = "no" /\ UNCHANGED <<file, crashed>>
  BY <1>6 DEF PersistFails, Results
<1>7. ASSUME CloseSync(a)
      PROVE  /\ UNCHANGED <<delivery, results, errors, file, crashed>> /\ crashed = "no"
             /\ pc[a] \notin Persisting
             /\ \A b \in Actors \ {a} : pc'[b] = pc[b]
  BY <1>7 DEF CloseSync, At, Goto, Persisting, Shape
<1>8. ASSUME CloseFile(a)
      PROVE  /\ pc[a] # "done" /\ \E result \in Results : Returns(a, result)
             /\ crashed = "no" /\ UNCHANGED <<file, crashed>>
  <2>1. (IF lifecycle' = "failed" THEN "failed" ELSE "ok") \in Results
    BY DEF Results
  <2>. QED  BY <1>8, <2>1 DEF CloseFile, At
<1>9. ASSUME a \in Runs, Escape(a)
      PROVE  /\ UNCHANGED <<delivery, results, errors, file, crashed>> /\ crashed = "no"
             /\ pc[a] \notin Persisting
             /\ \A b \in Actors \ {a} : pc'[b] = pc[b]
  BY <1>9 DEF Escape, At, Goto, Persisting, Shape
<1>. QED  BY <1>1, <1>2, <1>3, <1>4, <1>5, <1>6, <1>7, <1>8, <1>9 DEF Form

\* Who persists a line holds the guard, so nobody else's step is a write.
LEMMA OthersRest ==
    ASSUME Shape, Control, NEW a \in Actors, Form(a), NEW b \in Actors \ {a},
           pc[b] \in Persisting
    PROVE  ~Write(a) /\ pc[a] \notin Holding
<1>1. b \in Actors /\ pc[b] \in Holding
  BY DEF Holding
<1>2. pc[a] \notin Holding
  BY <1>1, Exclusive
<1>. QED  BY <1>2 DEF Write, At, Holding, Persisting

-----------------------------------------------------------------------------
(***************************************************************************)
(* The file: whole lines, none ahead of its call, one in progress.         *)
(***************************************************************************)

\* No step puts a piece of a line in the file before the line's call.
LEMMA NothingAheadKept ==
    ASSUME Shape, Control, InProgress, Levels, NothingAhead, Next
    PROVE  NothingAhead'
<1>0. file \in Seq(Piece) /\ Len(file) \in Nat /\ DOMAIN file = 1..Len(file)
  BY LenProperties DEF Shape
<1>1. ASSUME NEW a \in Actors, Form(a), NEW b \in Actors, NEW d \in 1..Deliveries(b),
             d <= Len(results[b]) \/ (d = delivery[b] /\ pc[b] \in Persisting)
      PROVE  d <= Len(results'[b]) \/ (d = delivery'[b] /\ pc'[b] \in Persisting)
  <2>1. CASE pc[a] # "done" /\ \E result \in Results : Returns(a, result)
    <3>1. /\ Len(results'[a]) = delivery[a] /\ Len(results[a]) = delivery[a] - 1
          /\ \A c \in Actors \ {a} : /\ pc'[c] = pc[c] /\ delivery'[c] = delivery[c]
                                     /\ results'[c] = results[c]
      BY <2>1, Returning
    <3>2. CASE b = a
      <4>1. delivery[a] \in Nat /\ d \in Nat
        BY DeliveriesType DEF Shape
      <4>. QED  BY <1>1, <3>1, <3>2, <4>1
    <3>. QED  BY <1>1, <3>1, <3>2
  <2>2. CASE /\ UNCHANGED <<delivery, results, errors>>
             /\ pc[a] \in Persisting => pc'[a] \in Persisting
             /\ \A c \in Actors \ {a} : pc'[c] = pc[c]
    BY <1>1, <2>2
  <2>. QED  BY <1>1, <2>1, <2>2, Effects
<1>2. ASSUME NEW a \in Actors, Form(a), UNCHANGED file PROVE NothingAhead'
  BY <1>1, <1>2 DEF NothingAhead
<1>3. ASSUME NEW a \in Actors, Write(a) PROVE NothingAhead'
  <2>1. Form(a)
    BY <1>3 DEF Form
  <2>2. PICK n \in 0..(Parts - 1) :
              /\ Len(file) <= Len(file')
              /\ file' \in Seq(Piece)
              /\ \A i \in 1..Len(file) : file'[i] = file[i]
              /\ \A i \in (Len(file) + 1)..Len(file') :
                    file'[i] = [line |-> Here(a), part |-> i - (Len(file) - n)]
    <3>1. PICK n \in 0..(Parts - 1) : \E upto \in (n + 1)..Parts :
              /\ Len(file') = Len(file) + (upto - n)
              /\ file' \in Seq(Piece)
              /\ \A i \in 1..Len(file) : file'[i] = file[i]
              /\ \A i \in (Len(file) + 1)..Len(file') :
                    file'[i] = [line |-> Here(a), part |-> i - (Len(file) - n)]
      BY <1>3, Writing
    <3>. QED  BY <1>0, <3>1
  <2>3. ASSUME NEW b \in Actors, NEW d \in 1..Deliveries(b), NEW i \in DOMAIN file',
               file'[i].line = <<b, d>>
        PROVE  d <= Len(results'[b]) \/ (d = delivery'[b] /\ pc'[b] \in Persisting)
    <3>1. i \in 1..Len(file')
      BY <2>2, <2>3, LenProperties
    <3>2. CASE i \in 1..Len(file)
      BY <1>0, <1>1, <2>1, <2>2, <2>3, <3>2 DEF NothingAhead
    <3>3. CASE i \in (Len(file) + 1)..Len(file')
      <4>0. file'[i] = [line |-> Here(a), part |-> i - (Len(file) - n)]
        BY <2>2, <3>3
      <4>1. <<b, d>> = <<a, delivery[a]>>
        BY <2>3, <4>0 DEF Here
      <4>2. b = a /\ d = delivery[a] /\ pc[a] = "write"
        BY <1>3, <4>1 DEF Write, At
      <4>. QED  BY <1>1, <2>1, <2>3, <4>2 DEF Persisting
    <3>. QED  BY <1>0, <2>2, <3>1, <3>2, <3>3
  <2>. QED  BY <2>3 DEF NothingAhead
<1>4. CASE Crash
  <2>1. /\ \A i \in 1..Len(file') : i \in 1..Len(file) /\ file'[i] = file[i]
        /\ file' \in Seq(Piece) /\ UNCHANGED <<pc, delivery, results>>
    BY <1>4, Cutting DEF Crash, callVars
  <2>2. DOMAIN file' = 1..Len(file')
    BY <2>1, LenProperties
  <2>. QED  BY <1>0, <2>1, <2>2 DEF NothingAhead
<1>. QED  BY <1>2, <1>3, <1>4, StepForms, Effects

\* The file ends with what the call in progress has written, after every step.
LEMMA InProgressKept ==
    ASSUME Shape, Control, InProgress, NothingAhead, FileWellFormed, Next
    PROVE  InProgress'
<1> DEFINE Held(b) == /\ pc[b] = "write" => \E n \in 0..(Parts - 1) : EndsWith(b, n)
                      /\ pc[b] \in {"flush", "sync"} => EndsWith(b, Parts)
<1>0. /\ file \in Seq(Piece) /\ Len(file) \in Nat /\ DOMAIN file = 1..Len(file)
      /\ Parts \in Nat \ {0}
  BY LenProperties, WriterAssumption DEF Shape
<1>1. ASSUME NEW a \in Actors, Form(a), Held(a)' PROVE InProgress'
  <2>1. crashed = "no"
    BY <1>1, Effects
  <2>2. ASSUME NEW b \in Actors \ {a} PROVE Held(b)'
    <3>1. pc'[b] = pc[b] /\ delivery'[b] = delivery[b]
      BY <1>1, Effects, Returning
    <3>2. CASE pc[b] \in Persisting
      <4>1. UNCHANGED file
        BY <1>1, <3>2, OthersRest, Effects
      <4>2. Held(b)
        BY <2>1 DEF InProgress
      <4>. QED  BY <3>1, <4>1, <4>2 DEF EndsWith, Here
    <3>. QED  BY <3>1, <3>2 DEF Persisting
  <2>. QED  BY <1>1, <2>2 DEF InProgress
<1>2. ASSUME NEW a \in Actors, Form(a), pc'[a] \notin Persisting PROVE InProgress'
  BY <1>1, <1>2 DEF Persisting
<1>3. ASSUME NEW a \in Actors, NEW result \in Results, Answers(a, result) PROVE InProgress'
  <2>1. pc'[a] \in {"idle", "done"}
    BY <1>3, Returning DEF Answers
  <2>. QED  BY <1>2, <1>3, <2>1 DEF Form, Persisting
<1>4. ASSUME NEW a \in Actors, Acknowledges(a) \/ PersistFails(a) \/ CloseFile(a)
      PROVE  InProgress'
  <2>1. pc'[a] \in {"idle", "done"}
    <3>1. pc[a] # "done" /\ \E result \in Results : Returns(a, result)
      BY <1>4 DEF Acknowledges, Acknowledge, PersistFails, CloseFile, At, Results
    <3>. QED  BY <3>1, Returning
  <2>. QED  BY <1>2, <1>4, <2>1 DEF Form, Persisting
<1>5. ASSUME NEW a \in Actors, CloseSync(a) PROVE InProgress'
  <2>1. pc'[a] = "close_file"
    BY <1>5 DEF CloseSync, Goto, Shape
  <2>. QED  BY <1>2, <1>5, <2>1 DEF Form, Persisting
<1>6. ASSUME NEW r \in Runs, Escape(r) PROVE InProgress'
  <2>1. r \in Actors /\ pc'[r] = "escaped"
    BY <1>6 DEF Escape, Goto, Shape, Actors
  <2>. QED  BY <1>2, <1>6, <2>1 DEF Form, Persisting
<1>7. ASSUME NEW a \in Actors, NEW point \in {"write", "close_sync"}, Begins(a, point)
      PROVE  InProgress'
  <2>1. /\ pc[a] = "idle" /\ crashed = "no" /\ holder = Nobody /\ lifecycle = "active"
        /\ pc'[a] = point /\ UNCHANGED <<file, delivery>> /\ delivery[a] \in 1..Deliveries(a)
    BY <1>7, DeliveriesType DEF Begins, Shape, streamVars, Control, ControlOf
  <2>2. CASE point = "close_sync"
    BY <1>2, <1>7, <2>1, <2>2 DEF Form, Persisting
  <2>3. CASE point = "write"
    <3>1. ASSUME NEW i \in 1..Len(file) PROVE file[i].line # Here(a)
      <4>1. Len(results[a]) = delivery[a] - 1 /\ delivery[a] \in Nat
        BY <2>1 DEF Control, ControlOf, Shape
      <4>2. pc[a] \notin Persisting /\ ~(delivery[a] <= Len(results[a]))
        BY <2>1, <4>1 DEF Persisting
      <4>3. i \in DOMAIN file
        BY <1>0
      <4>. QED  BY <2>1, <4>2, <4>3 DEF NothingAhead, Here
    <3>2. ~Torn
      BY <2>1 DEF FileWellFormed
    <3>3. 0 < Len(file) => file[Len(file)].part = Parts
      BY <1>0, <3>2, EmptySeq DEF Torn
    <3>4. EndsWith(a, 0)
      BY <1>0, <3>1, <3>3 DEF EndsWith
    <3>5. EndsWith(a, 0)'
      BY <2>1, <3>4 DEF EndsWith, Here
    <3>6. 0 \in 0..(Parts - 1)
      BY <1>0
    <3>7. Held(a)'
      BY <2>1, <2>3, <3>5, <3>6
    <3>. QED  BY <1>1, <1>7, <3>7 DEF Form
  <2>. QED  BY <2>2, <2>3
<1>8. ASSUME NEW a \in Actors, FlushesEnd(a) PROVE InProgress'
  <2>1. /\ pc[a] = "flush" /\ pc'[a] = "sync" /\ crashed = "no" /\ UNCHANGED <<file, delivery>>
    BY <1>8 DEF FlushesEnd, Shape
  <2>2. EndsWith(a, Parts)
    BY <2>1 DEF InProgress
  <2>3. EndsWith(a, Parts)'
    BY <2>1, <2>2 DEF EndsWith, Here
  <2>4. Held(a)'
    BY <2>1, <2>3
  <2>. QED  BY <1>1, <1>8, <2>4 DEF Form
<1>9. ASSUME NEW a \in Actors, Write(a) PROVE InProgress'
  <2>1. PICK n \in 0..(Parts - 1) : \E upto \in (n + 1)..Parts :
              /\ EndsWith(a, n)
              /\ Len(file') = Len(file) + (upto - n)
              /\ \A i \in 1..Len(file) : file'[i] = file[i]
              /\ \A i \in (Len(file) + 1)..Len(file') :
                    file'[i] = [line |-> Here(a), part |-> i - (Len(file) - n)]
              /\ pc' = IF upto = Parts THEN [pc EXCEPT ![a] = "flush"] ELSE pc
    BY <1>9, Writing
  <2>10. PICK upto \in (n + 1)..Parts :
              /\ EndsWith(a, n)
              /\ Len(file') = Len(file) + (upto - n)
              /\ \A i \in 1..Len(file) : file'[i] = file[i]
              /\ \A i \in (Len(file) + 1)..Len(file') :
                    file'[i] = [line |-> Here(a), part |-> i - (Len(file) - n)]
              /\ pc' = IF upto = Parts THEN [pc EXCEPT ![a] = "flush"] ELSE pc
    BY <2>1
  <2>2. /\ n \in Nat /\ upto \in Nat /\ n < upto /\ upto <= Parts /\ n <= Len(file)
        /\ Len(file') - upto = Len(file) - n
    BY <1>0, <2>10 DEF EndsWith
  <2>3. Here(a)' = Here(a) /\ pc[a] = "write"
    BY <1>9 DEF Write, At, Here
  <2>4. ASSUME NEW i \in 1..Len(file')
        PROVE  IF i <= Len(file') - upto THEN file'[i].line # Here(a)
               ELSE file'[i] = [line |-> Here(a), part |-> i - (Len(file') - upto)]
    <3>1. CASE i \in 1..Len(file)
      BY <2>10, <2>2, <3>1 DEF EndsWith
    <3>2. CASE i \in (Len(file) + 1)..Len(file')
      BY <1>0, <2>10, <2>2, <3>2
    <3>. QED  BY <1>0, <2>10, <2>2, <3>1, <3>2
  <2>5. upto < Len(file') => file'[Len(file') - upto].part = Parts
    <3>1. SUFFICES ASSUME n < Len(file) PROVE file'[Len(file) - n].part = Parts
      BY <1>0, <2>10, <2>2
    <3>2. Len(file) - n \in 1..Len(file)
      BY <1>0, <2>2, <3>1
    <3>. QED  BY <2>10, <3>1, <3>2 DEF EndsWith
  <2>6. upto <= Len(file')
    BY <1>0, <2>10, <2>2
  <2>7. EndsWith(a, upto)'
    BY <2>3, <2>4, <2>5, <2>6 DEF EndsWith
  <2>8. CASE upto = Parts
    <3>1. pc'[a] = "flush"
      BY <2>10, <2>8 DEF Shape
    <3>2. Held(a)'
      BY <2>7, <2>8, <3>1 DEF EndsWith
    <3>. QED  BY <1>1, <1>9, <3>2 DEF Form
  <2>9. CASE upto # Parts
    <3>1. pc'[a] = "write" /\ upto \in 0..(Parts - 1)
      BY <1>0, <2>10, <2>2, <2>3, <2>9
    <3>2. Held(a)'
      BY <2>7, <3>1
    <3>. QED  BY <1>1, <1>9, <3>2 DEF Form
  <2>. QED  BY <2>8, <2>9
<1>10. CASE Crash
  BY <1>10 DEF Crash, InProgress
<1>. QED
  BY <1>3, <1>4, <1>5, <1>6, <1>7, <1>8, <1>9, <1>10, StepForms DEF Form

\* A line that was not given up is torn only while it is being written.
LEMMA NotTorn ==
    ASSUME Control, FileWellFormed, NEW a \in Actors, pc[a] \in Holding \ {"write"},
           crashed = "no", lifecycle # "failed"
    PROVE  ~Torn
<1>1. holder = a
  BY DEF Control, ControlOf
<1>. QED  BY <1>1 DEF FileWellFormed

\* The file stays a sequence of different whole lines and one in progress.
LEMMA FileWellFormedKept ==
    ASSUME Shape, Control, InProgress, Levels, FileWellFormed, Next
    PROVE  FileWellFormed'
<1> USE DEF stateVars, callVars, streamVars
<1>0. /\ file \in Seq(Piece) /\ Len(file) \in Nat /\ DOMAIN file = 1..Len(file)
      /\ Parts \in Nat \ {0} /\ file # <<>> <=> Len(file) > 0
  BY LenProperties, EmptySeq, WriterAssumption DEF Shape
<1>1. ASSUME UNCHANGED file,
             Torn => \/ lifecycle' = "failed" \/ crashed' # "no"
                     \/ holder' # Nobody /\ pc'[holder'] = "write"
      PROVE  FileWellFormed'
  BY <1>1 DEF FileWellFormed, Follows, Torn
<1>2. ASSUME NEW a \in Actors, UNCHANGED <<file, lifecycle, holder, crashed>>, pc[a] = "idle",
             \A b \in Actors \ {a} : pc'[b] = pc[b]
      PROVE  FileWellFormed'
  <2>1. holder # a
    BY <1>2 DEF Control, ControlOf, Holding, Persisting
  <2>2. holder # Nobody => pc'[holder] = pc[holder]
    BY <1>2, <2>1 DEF Shape
  <2>. QED  BY <1>1, <1>2, <2>2 DEF FileWellFormed
<1>3. ASSUME NEW a \in Actors, NEW result \in Results, Answers(a, result) PROVE FileWellFormed'
  <2>1. \A b \in Actors \ {a} : pc'[b] = pc[b]
    BY <1>3, Returning DEF Answers
  <2>. QED  BY <1>2, <1>3, <2>1 DEF Answers
<1>4. ASSUME NEW r \in Runs, Escape(r) PROVE FileWellFormed'
  <2>1. /\ r \in Actors /\ pc[r] = "idle" /\ \A b \in Actors \ {r} : pc'[b] = pc[b]
    BY <1>4 DEF Escape, At, Goto, Shape, Actors
  <2>. QED  BY <1>2, <1>4, <2>1 DEF Escape
<1>5. ASSUME NEW a \in Actors, NEW point \in {"write", "close_sync"}, Begins(a, point)
      PROVE  FileWellFormed'
  <2>1. ~Torn
    BY <1>5 DEF Begins, FileWellFormed
  <2>. QED  BY <1>1, <1>5, <2>1 DEF Begins
<1>6. ASSUME NEW a \in Actors, FlushesEnd(a) \/ Acknowledges(a) \/ CloseSync(a)
      PROVE  FileWellFormed'
  <2>1. /\ pc[a] \in Holding \ {"write"} /\ crashed = "no" /\ UNCHANGED file
        /\ pc[a] \in Persisting \/ pc[a] = "close_sync"
    BY <1>6 DEF FlushesEnd, Acknowledges, CloseSync, At, Holding, Persisting
  <2>2. lifecycle = "active"
    BY <2>1 DEF Control, ControlOf
  <2>3. ~Torn
    BY <2>1, <2>2, NotTorn
  <2>. QED  BY <1>1, <2>1, <2>3
<1>7. ASSUME NEW a \in Actors, PersistFails(a) PROVE FileWellFormed'
  BY <1>1, <1>7 DEF PersistFails
<1>8. ASSUME NEW a \in Actors, CloseFile(a) PROVE FileWellFormed'
  <2>1. pc[a] \in Holding \ {"write"} /\ crashed = "no" /\ UNCHANGED file
    BY <1>8 DEF CloseFile, At, Holding, Persisting
  <2>2. lifecycle = "failed" => lifecycle' = "failed"
    BY <1>8 DEF CloseFile
  <2>. QED  BY <1>1, <2>1, <2>2, NotTorn
<1>9. ASSUME NEW a \in Actors, Write(a) PROVE FileWellFormed'
  <2>1. PICK n \in 0..(Parts - 1) : \E upto \in (n + 1)..Parts :
              /\ EndsWith(a, n)
              /\ Len(file') = Len(file) + (upto - n)
              /\ file' \in Seq(Piece)
              /\ \A i \in 1..Len(file) : file'[i] = file[i]
              /\ \A i \in (Len(file) + 1)..Len(file') :
                    file'[i] = [line |-> Here(a), part |-> i - (Len(file) - n)]
              /\ pc' = IF upto = Parts THEN [pc EXCEPT ![a] = "flush"] ELSE pc
    BY <1>9, Writing
  <2>2. PICK upto \in (n + 1)..Parts :
              /\ EndsWith(a, n)
              /\ Len(file') = Len(file) + (upto - n)
              /\ file' \in Seq(Piece)
              /\ \A i \in 1..Len(file) : file'[i] = file[i]
              /\ \A i \in (Len(file) + 1)..Len(file') :
                    file'[i] = [line |-> Here(a), part |-> i - (Len(file) - n)]
              /\ pc' = IF upto = Parts THEN [pc EXCEPT ![a] = "flush"] ELSE pc
    BY <2>1
  <2>3. /\ n \in Nat /\ upto \in Nat /\ n < upto /\ upto <= Parts /\ n <= Len(file)
        /\ Len(file') \in Nat /\ Len(file') > Len(file) /\ DOMAIN file' = 1..Len(file')
    BY <1>0, <2>2, LenProperties DEF EndsWith
  <2>4. ASSUME NEW i \in 1..Len(file)
        PROVE  /\ file'[i] = file[i]
               /\ IF i <= Len(file) - n THEN file[i].line # Here(a)
                  ELSE file[i].line = Here(a) /\ file[i].part = i - (Len(file) - n)
               /\ i = Len(file) - n => file[i].part = Parts
    <3>1. i = Len(file) - n => n < Len(file)
      BY <1>0, <2>3
    <3>2. IF i <= Len(file) - n THEN file[i].line # Here(a)
          ELSE file[i] = [line |-> Here(a), part |-> i - (Len(file) - n)]
      BY <2>2 DEF EndsWith
    <3>3. ~(i <= Len(file) - n) =>
             file[i].line = Here(a) /\ file[i].part = i - (Len(file) - n)
      BY <3>2
    <3>4. i = Len(file) - n => file[i].part = Parts
      BY <2>2, <3>1 DEF EndsWith
    <3>5. file'[i] = file[i]
      BY <2>2
    <3>. QED  BY <3>2, <3>3, <3>4, <3>5
  <2>5. ASSUME NEW i \in (Len(file) + 1)..Len(file')
        PROVE  file'[i].line = Here(a) /\ file'[i].part = i - (Len(file) - n)
    <3>1. file'[i] = [line |-> Here(a), part |-> i - (Len(file) - n)]
      BY <2>2
    <3>. QED  BY <3>1
  <2>6. file'[1].part = 1
    <3>1. CASE Len(file) > 0
      <4>1. 1 \in 1..Len(file) /\ file[1].part = 1
        BY <1>0, <3>1 DEF FileWellFormed
      <4>. QED  BY <2>4, <4>1
    <3>2. CASE Len(file) = 0
      <4>1. n = 0 /\ 1 \in (Len(file) + 1)..Len(file')
        BY <2>3, <3>2
      <4>. QED  BY <2>5, <3>2, <4>1
    <3>. QED  BY <1>0, <3>1, <3>2
  <2>7. ASSUME NEW i \in 2..Len(file') PROVE Follows(file'[i], file'[i - 1])
    <3>1. CASE i \in 2..Len(file)
      <4>1. Follows(file[i], file[i - 1]) /\ i \in 1..Len(file) /\ i - 1 \in 1..Len(file)
        BY <1>0, <3>1 DEF FileWellFormed
      <4>. QED  BY <2>4, <4>1
    <3>2. CASE i = Len(file) + 1
      <4>1. /\ i - 1 \in 1..Len(file) /\ i - 1 = Len(file) /\ i \in (Len(file) + 1)..Len(file')
            /\ i - (Len(file) - n) = n + 1
        BY <1>0, <2>3, <3>2
      <4>2. file'[i].line = Here(a) /\ file'[i].part = n + 1
        BY <2>5, <4>1
      <4>3. CASE n = 0
        <5>1. i - 1 = Len(file) - n
          BY <1>0, <4>1, <4>3
        <5>2. file'[i - 1].part = Parts
          BY <2>4, <4>1, <5>1
        <5>. QED  BY <4>2, <4>3, <5>2 DEF Follows
      <4>4. CASE n # 0
        <5>1. ~(i - 1 <= Len(file) - n) /\ (i - 1) - (Len(file) - n) = n
          BY <1>0, <2>3, <4>1, <4>4
        <5>2. file'[i - 1].line = Here(a) /\ file'[i - 1].part = n
          BY <2>4, <4>1, <5>1
        <5>. QED  BY <4>2, <5>2 DEF Follows
      <4>. QED  BY <4>3, <4>4
    <3>3. CASE i > Len(file) + 1
      <4>1. /\ i \in (Len(file) + 1)..Len(file') /\ i - 1 \in (Len(file) + 1)..Len(file')
            /\ i - (Len(file) - n) = (i - 1) - (Len(file) - n) + 1
        BY <1>0, <2>3, <3>3
      <4>2. /\ file'[i].line = Here(a) /\ file'[i].part = i - (Len(file) - n)
            /\ file'[i - 1].line = Here(a) /\ file'[i - 1].part = (i - 1) - (Len(file) - n)
        BY <2>5, <4>1
      <4>. QED  BY <4>1, <4>2 DEF Follows
    <3>. QED  BY <1>0, <2>3, <3>1, <3>2, <3>3
  <2>8. ASSUME NEW i \in DOMAIN file', NEW j \in DOMAIN file', file'[i] = file'[j] PROVE i = j
    <3>1. ASSUME NEW k \in 1..Len(file), NEW m \in (Len(file) + 1)..Len(file')
          PROVE  file'[k] # file'[m]
      <4>1. file'[m].line = Here(a) /\ file'[m].part = m - (Len(file) - n)
        BY <2>5
      <4>2. CASE k <= Len(file) - n
        BY <2>4, <4>1, <4>2
      <4>3. CASE ~(k <= Len(file) - n)
        <5>1. file'[k].part = k - (Len(file) - n) /\ k < m
          <6>1. file'[k] = file[k] /\ file[k].part = k - (Len(file) - n)
            BY <2>4, <4>3
          <6>. QED  BY <1>0, <6>1
        <5>. QED  BY <1>0, <2>3, <4>1, <5>1
      <4>. QED  BY <4>2, <4>3
    <3>2. CASE i \in 1..Len(file) /\ j \in 1..Len(file)
      BY <1>0, <2>4, <2>8, <3>2 DEF FileWellFormed
    <3>3. CASE i \in (Len(file) + 1)..Len(file') /\ j \in (Len(file) + 1)..Len(file')
      <4>1. i - (Len(file) - n) = j - (Len(file) - n)
        BY <2>5, <2>8, <3>3
      <4>. QED  BY <1>0, <2>3, <3>3, <4>1
    <3>4. \A k \in 1..Len(file') : k \in 1..Len(file) \/ k \in (Len(file) + 1)..Len(file')
      BY <1>0, <2>3
    <3>. QED  BY <2>3, <2>8, <3>1, <3>2, <3>3, <3>4
  <2>9. ASSUME Torn'
        PROVE  holder' # Nobody /\ pc'[holder'] = "write"
    <3>1. /\ Len(file') \in (Len(file) + 1)..Len(file')
          /\ Len(file') - (Len(file) - n) = upto
      BY <1>0, <2>2, <2>3
    <3>2. file'[Len(file')].part = upto
      BY <2>5, <3>1
    <3>3. upto # Parts
      BY <2>9, <3>2 DEF Torn
    <3>4. pc' = pc /\ pc[a] = "write" /\ holder' = holder
      BY <1>9, <2>2, <3>3 DEF Write, At
    <3>5. holder = a /\ a # Nobody
      BY <3>4, WriterAssumption DEF Control, ControlOf, Holding, Persisting
    <3>. QED  BY <3>4, <3>5
  <2>. QED  BY <2>6, <2>7, <2>8, <2>9 DEF FileWellFormed
<1>10. CASE Crash
  <2>1. /\ Len(file') \in Nat /\ DOMAIN file' = 1..Len(file') /\ crashed' # "no"
        /\ \A i \in 1..Len(file') : i \in 1..Len(file) /\ file'[i] = file[i]
        /\ file' # <<>> <=> Len(file') > 0
    BY <1>10, Cutting, LenProperties, EmptySeq
  <2>2. file' # <<>> => file'[1].part = 1
    <3>1. SUFFICES ASSUME file' # <<>> PROVE file'[1].part = 1
      OBVIOUS
    <3>2. 1 \in 1..Len(file')
      BY <2>1, <3>1
    <3>. QED  BY <1>0, <2>1, <3>2 DEF FileWellFormed
  <2>3. ASSUME NEW i \in 2..Len(file') PROVE Follows(file'[i], file'[i - 1])
    <3>1. i \in 1..Len(file') /\ i - 1 \in 1..Len(file')
      BY <2>1
    <3>2. i \in 2..Len(file) /\ file'[i] = file[i] /\ file'[i - 1] = file[i - 1]
      BY <1>0, <2>1, <3>1
    <3>. QED  BY <3>2 DEF FileWellFormed
  <2>4. \A i, j \in DOMAIN file' : file'[i] = file'[j] => i = j
    BY <1>0, <2>1 DEF FileWellFormed
  <2>. QED  BY <2>1, <2>2, <2>3, <2>4 DEF FileWellFormed
<1>. QED
  BY <1>3, <1>4, <1>5, <1>6, <1>7, <1>8, <1>9, <1>10, StepForms DEF Form

-----------------------------------------------------------------------------
(***************************************************************************)
(* What storage holds, and what was promised about it.                     *)
(***************************************************************************)

\* A step of a call takes nothing back: not from the file, from storage, from
\* the remembered starts or from the results; a failed writer stays failed.
LEMMA Storing ==
    ASSUME Shape, Control, InProgress, NEW a \in Actors, Form(a)
    PROVE  /\ Len(file) \in Nat /\ Len(file') \in Nat /\ Len(file) <= Len(file')
           /\ \A i \in 1..Len(file) : file'[i] = file[i]
           /\ \/ UNCHANGED <<flushed, synced>>
              \/ UNCHANGED file /\ flushed' = Len(file) /\ synced' \in {synced, Len(file)}
           /\ acknowledged \subseteq acknowledged'
           /\ lifecycle = "failed" => lifecycle' = "failed"
           /\ lifecycle' = "active" => lifecycle = "active"
           /\ \A b \in Actors : Len(results[b]) \in Nat /\ Len(results[b]) <= Len(results'[b])
<1> USE DEF stateVars, callVars, streamVars
<1>0. Len(file) \in Nat
  BY LenProperties DEF Shape
<1>1. Len(file') \in Nat /\ Len(file) <= Len(file') /\ \A i \in 1..Len(file) : file'[i] = file[i]
  <2>1. CASE UNCHANGED file
    BY <1>0, <2>1
  <2>2. CASE Write(a)
    <3>1. PICK n \in 0..(Parts - 1) : \E upto \in (n + 1)..Parts :
              /\ Len(file') = Len(file) + (upto - n)
              /\ \A i \in 1..Len(file) : file'[i] = file[i]
      BY <2>2, Writing
    <3>2. PICK upto \in (n + 1)..Parts :
              /\ Len(file') = Len(file) + (upto - n)
              /\ \A i \in 1..Len(file) : file'[i] = file[i]
      BY <3>1
    <3>3. Parts \in Nat
      BY WriterAssumption
    <3>. QED  BY <1>0, <3>2, <3>3
  <2>. QED  BY <2>1, <2>2, Effects
<1>2. \/ UNCHANGED <<flushed, synced>>
      \/ UNCHANGED file /\ flushed' = Len(file) /\ synced' \in {synced, Len(file)}
  <2>1. \/ UNCHANGED <<flushed, synced>>
        \/ FlushesEnd(a) \/ Acknowledges(a) \/ CloseSync(a)
    BY DEF Form, Answers, Begins, Write, PersistFails, CloseFile, Escape
  <2>2. CASE FlushesEnd(a)
    BY <2>2 DEF FlushesEnd
  <2>3. CASE Acknowledges(a)
    BY <2>3 DEF Acknowledges
  <2>4. CASE CloseSync(a)
    BY <2>4 DEF CloseSync
  <2>. QED  BY <2>1, <2>2, <2>3, <2>4
<1>3. acknowledged \subseteq acknowledged'
  BY DEF Form, Answers, Begins, Write, FlushesEnd, Acknowledges, Acknowledge, PersistFails,
         CloseSync, CloseFile, Escape
<1>4. /\ lifecycle = "failed" => lifecycle' = "failed"
      /\ lifecycle' = "active" => lifecycle = "active"
  <2>1. UNCHANGED lifecycle \/ PersistFails(a) \/ CloseSync(a) \/ CloseFile(a)
    BY DEF Form, Answers, Begins, Write, FlushesEnd, Acknowledges, Escape
  <2>2. CASE PersistFails(a)
    BY <2>2 DEF PersistFails
  <2>3. CASE CloseSync(a)
    BY <2>3 DEF CloseSync
  <2>4. CASE CloseFile(a)
    BY <2>4 DEF CloseFile
  <2>. QED  BY <2>1, <2>2, <2>3, <2>4
<1>5. ASSUME NEW b \in Actors
      PROVE  Len(results[b]) \in Nat /\ Len(results[b]) <= Len(results'[b])
  <2>1. Len(results[b]) \in Nat
    BY LenProperties DEF Shape
  <2>2. CASE UNCHANGED results
    BY <2>1, <2>2
  <2>3. CASE pc[a] # "done" /\ \E result \in Results : Returns(a, result)
    <3>1. /\ Len(results'[a]) = delivery[a] /\ Len(results[a]) = delivery[a] - 1
          /\ \A c \in Actors \ {a} : results'[c] = results[c]
      BY <2>3, Returning
    <3>2. delivery[a] \in Nat
      BY DEF Shape
    <3>. QED  BY <2>1, <3>1, <3>2
  <2>. QED  BY <2>2, <2>3, Effects
<1>. QED  BY <1>0, <1>1, <1>2, <1>3, <1>4, <1>5

\* The levels stay in order.
LEMMA LevelsKept ==
    ASSUME Shape, Control, InProgress, Levels, Next
    PROVE  Levels'
<1>0. Len(file) \in Nat /\ flushed \in Nat /\ synced \in Nat
  BY LenProperties DEF Shape
<1>1. ASSUME NEW a \in Actors, Form(a) PROVE Levels'
  <2>1. /\ Len(file') \in Nat /\ Len(file) <= Len(file') /\ crashed = "no"
        /\ \/ UNCHANGED <<flushed, synced>>
           \/ UNCHANGED file /\ flushed' = Len(file) /\ synced' \in {synced, Len(file)}
    BY <1>1, Storing, Effects
  <2>. QED  BY <1>0, <2>1 DEF Levels
<1>2. CASE Crash
  <2>1. /\ synced <= Len(file') /\ (crashed' # "power" => flushed <= Len(file'))
        /\ UNCHANGED <<flushed, synced>>
    BY <1>2, Cutting DEF Crash
  <2>. QED  BY <2>1 DEF Levels
<1>. QED  BY <1>1, <1>2, StepForms

\* What storage holds it keeps.
LEMMA StoredKept ==
    ASSUME Shape, Control, InProgress, Levels, Next, NEW line
    PROVE  /\ Stored(line, synced) => Stored(line, synced)'
           /\ crashed' # "power" =>
                 crashed # "power" /\ (Stored(line, flushed) => Stored(line, flushed)')
<1>0. Len(file) \in Nat /\ flushed \in Nat /\ synced \in Nat
  BY LenProperties DEF Shape
<1>1. ASSUME NEW a \in Actors, Form(a), NEW n \in Nat, NEW m \in Nat, n <= m \/ m = Len(file),
             Stored(line, n)
      PROVE  \E i \in 1..Len(file') : i <= m /\ file'[i] = [line |-> line, part |-> Parts]
  <2>1. PICK i \in 1..Len(file) : i <= n /\ file[i] = [line |-> line, part |-> Parts]
    BY <1>1 DEF Stored
  <2>2. i \in 1..Len(file') /\ file'[i] = file[i]
    BY <1>1, Storing
  <2>3. i <= m
    BY <1>0, <1>1, <2>1
  <2>. QED  BY <2>1, <2>2, <2>3
<1>2. CASE \E a \in Actors : Form(a)
  <2>1. PICK a \in Actors : Form(a)
    BY <1>2
  <2>2. /\ crashed = "no"
        /\ \/ UNCHANGED <<flushed, synced>>
           \/ flushed' = Len(file) /\ synced' \in {synced, Len(file)}
    BY <2>1, Storing, Effects
  <2>3. /\ flushed' \in Nat /\ (flushed <= flushed' \/ flushed' = Len(file))
        /\ synced' \in Nat /\ (synced <= synced' \/ synced' = Len(file))
    BY <1>0, <2>2
  <2>. QED  BY <1>0, <1>1, <2>1, <2>2, <2>3 DEF Stored
<1>3. CASE Crash
  <2>1. /\ Len(file') \in Nat /\ crashed = "no" /\ UNCHANGED <<flushed, synced>>
        /\ \A i \in 1..Len(file') : file'[i] = file[i]
        /\ synced <= Len(file') /\ (crashed' # "power" => flushed <= Len(file'))
    BY <1>3, Cutting DEF Crash
  <2>2. ASSUME NEW n \in Nat, n <= Len(file'), Stored(line, n)
        PROVE  \E i \in 1..Len(file') : i <= n /\ file'[i] = [line |-> line, part |-> Parts]
    <3>1. PICK i \in 1..Len(file) : i <= n /\ file[i] = [line |-> line, part |-> Parts]
      BY <2>2 DEF Stored
    <3>2. i \in 1..Len(file')
      BY <1>0, <2>1, <2>2, <3>1
    <3>. QED  BY <2>1, <3>1, <3>2
  <2>. QED  BY <1>0, <2>1, <2>2 DEF Stored
<1>. QED  BY <1>2, <1>3, StepForms

\* An acknowledged line is the last of the file, and is stored.
LEMMA AcknowledgedLine ==
    ASSUME Shape, Control, InProgress, NEW a \in Actors, Acknowledges(a), NEW d, d = delivery[a]
    PROVE  /\ KindOf(a) = "end" => Stored(<<a, d>>, synced)'
           /\ Stored(<<a, d>>, flushed)'
           /\ a \in Runs \cup Events
<1>0. Len(file) \in Nat /\ Parts \in Nat \ {0}
  BY LenProperties, WriterAssumption DEF Shape
<1>1. /\ pc[a] \in {"flush", "sync"} /\ crashed = "no" /\ file' = file
      /\ flushed' = Len(file) /\ (KindOf(a) = "end" => synced' = Len(file))
  BY DEF Acknowledges
<1>2. EndsWith(a, Parts)
  BY <1>1 DEF InProgress
<1>3. Len(file) \in 1..Len(file) /\ ~(Len(file) <= Len(file) - Parts)
  BY <1>0, <1>2 DEF EndsWith
<1>4. file[Len(file)] = [line |-> Here(a), part |-> Len(file) - (Len(file) - Parts)]
  BY <1>2, <1>3 DEF EndsWith
<1>5. Len(file) - (Len(file) - Parts) = Parts
  BY <1>0
<1>6. \E i \in 1..Len(file) : i <= Len(file) /\ file[i] = [line |-> <<a, d>>, part |-> Parts]
  BY <1>0, <1>3, <1>4, <1>5 DEF Here
<1>7. KindOf(a) # "close" /\ delivery[a] \in 1..Deliveries(a)
  BY <1>1, DeliveriesType DEF Control, ControlOf, Persisting, Shape
<1>8. a \in Runs \cup Events
  BY <1>7, Kinds DEF KindOf
<1>. QED  BY <1>1, <1>6, <1>8 DEF Stored, Here

\* A remembered start stays in storage.
LEMMA AcknowledgedStoredKept ==
    ASSUME Shape, Control, InProgress, Levels, AcknowledgedStored, Next
    PROVE  AcknowledgedStored'
<1>0. ASSUME NEW r \in Runs PROVE r \in Actors /\ Len(Slots[r]) \in Nat
  BY DeliveriesType DEF Actors
<1>1. ASSUME NEW r \in acknowledged
      PROVE  \E e \in 1..Len(results'[r]) :
                e <= Len(Slots[r]) /\ (crashed' # "power" => Stored(<<r, e>>, flushed)')
  <2>1. r \in Actors
    BY <1>0 DEF Shape
  <2>2. PICK e \in 1..Len(results[r]) :
                e <= Len(Slots[r]) /\ (crashed # "power" => Stored(<<r, e>>, flushed))
    BY DEF AcknowledgedStored
  <2>3. Len(results[r]) \in Nat /\ Len(results'[r]) \in Nat /\ Len(results[r]) <= Len(results'[r])
    <3>1. CASE Crash
      BY <2>1, <3>1, LenProperties DEF Crash, callVars, Shape
    <3>2. CASE \E a \in Actors : Form(a)
      <4>1. Shape'
        BY ShapeKept
      <4>2. results' \in [Actors -> Seq(Results)]
        BY <4>1 DEF Shape
      <4>. QED  BY <2>1, <3>2, <4>2, Storing, LenProperties
    <3>. QED  BY <3>1, <3>2, StepForms
  <2>4. e \in 1..Len(results'[r])
    BY <2>3
  <2>. QED  BY <2>2, <2>4, StoredKept
<1>2. ASSUME NEW a \in Actors, Form(a), ~Acknowledges(a) PROVE UNCHANGED acknowledged
  BY <1>2 DEF Form, Answers, Begins, Write, FlushesEnd, PersistFails, CloseSync, CloseFile,
              Escape, stateVars
<1>3. ASSUME NEW a \in Actors, Acknowledges(a), KindOf(a) = "start"
      PROVE  \E e \in 1..Len(results'[a]) :
                e <= Len(Slots[a]) /\ (crashed' # "power" => Stored(<<a, e>>, flushed)')
  <2>0. PICK d : d = delivery[a]
    OBVIOUS
  <2>1. Stored(<<a, d>>, flushed)' /\ a \in Runs \cup Events
    BY <1>3, <2>0, AcknowledgedLine
  <2>2. delivery[a] \in Nat \ {0} /\ delivery[a] \in 1..Deliveries(a)
    BY DeliveriesType DEF Shape, Control, ControlOf
  <2>3. a \in Runs /\ delivery[a] <= Len(Slots[a])
    BY <1>3, <2>1, <2>2, Kinds DEF KindOf
  <2>4. pc[a] # "done" /\ Returns(a, "ok") /\ "ok" \in Results
    BY <1>3 DEF Acknowledges, Acknowledge, Results
  <2>5. Len(results'[a]) = delivery[a]
    BY <2>4, Returning
  <2>6. d \in 1..Len(results'[a]) /\ d <= Len(Slots[a])
    BY <2>0, <2>2, <2>3, <2>5
  <2>. QED  BY <2>1, <2>3, <2>6
<1>4. ASSUME NEW r \in acknowledged', r \notin acknowledged
      PROVE  \E a \in Actors : Acknowledges(a) /\ KindOf(a) = "start" /\ r = a
  <2>1. ~Crash
    BY <1>4 DEF Crash, stateVars
  <2>2. PICK a \in Actors : Form(a)
    BY <2>1, StepForms
  <2>3. Acknowledges(a)
    BY <1>2, <1>4, <2>2
  <2>. QED  BY <1>4, <2>3 DEF Acknowledges, Acknowledge
<1>. QED  BY <1>1, <1>3, <1>4 DEF AcknowledgedStored

\* What a call was promised stays kept.
LEMMA ReturnedStoredKept ==
    ASSUME Shape, Control, InProgress, Levels, AcknowledgedStored, ReturnedStored, Next
    PROVE  ReturnedStored'
<1> DEFINE Kept(a, d) ==
          CASE Kind(a, d) = "end"   -> Stored(<<a, d>>, synced)
            [] Kind(a, d) = "event" -> crashed # "power" => Stored(<<a, d>>, flushed)
            [] Kind(a, d) = "start" ->
                  crashed # "power" => \E e \in 1..d : Stored(<<a, e>>, flushed)
<1>0. ASSUME NEW a \in Runs \cup Events, NEW d \in 1..Deliveries(a)
      PROVE  /\ a \in Actors /\ Kind(a, d) \in {"start", "end", "event"}
             /\ Kind(a, d) = "start" <=> a \in Runs /\ d <= Len(Slots[a])
  <2>1. a \in Actors
    BY DEF Actors
  <2>. QED  BY <2>1, Kinds
<1>1. ASSUME NEW a \in Runs \cup Events, NEW d \in 1..Deliveries(a), Kept(a, d)
      PROVE  Kept(a, d)'
  <2>1. CASE Kind(a, d) = "end"
    BY <1>1, <2>1, StoredKept
  <2>2. CASE Kind(a, d) = "event"
    BY <1>1, <2>2, StoredKept
  <2>3. CASE Kind(a, d) = "start"
    <3>1. SUFFICES ASSUME crashed' # "power"
                   PROVE  \E e \in 1..d : Stored(<<a, e>>, flushed)'
      BY <2>3
    <3>2. crashed # "power"
      BY <3>1, StoredKept
    <3>3. PICK e \in 1..d : Stored(<<a, e>>, flushed)
      BY <1>1, <2>3, <3>2
    <3>. QED  BY <3>1, <3>3, StoredKept
  <2>. QED  BY <1>0, <2>1, <2>2, <2>3
<1>2. ASSUME NEW a \in Actors, NEW result \in Results, Answers(a, result),
             a \in Runs \cup Events, result = "ok", Observer(a, delivery[a]) = "log"
      PROVE  Kept(a, delivery[a])
  <2>1. delivery[a] \in 1..Deliveries(a) /\ delivery[a] \in Nat
    BY DeliveriesType DEF Shape, Control, ControlOf
  <2>2. KindOf(a) # "close"
    BY <1>0, <1>2, <2>1 DEF KindOf
  <2>3. KindOf(a) = "start" /\ a \in acknowledged
    BY <1>2, <2>2 DEF Answers, Suppressed
  <2>4. Len(results[a]) = delivery[a] - 1
    BY <1>2 DEF Answers, Control, ControlOf
  <2>5. PICK e \in 1..Len(results[a]) :
                e <= Len(Slots[a]) /\ (crashed # "power" => Stored(<<a, e>>, flushed))
    BY <2>3 DEF AcknowledgedStored
  <2>6. e \in 1..delivery[a]
    BY <2>1, <2>4, <2>5
  <2>. QED  BY <2>3, <2>5, <2>6 DEF KindOf
<1>3. ASSUME NEW a \in Actors, NEW d, d = delivery[a], Acknowledges(a) PROVE Kept(a, d)'
  <2>1. /\ KindOf(a) = "end" => Stored(<<a, d>>, synced)'
        /\ Stored(<<a, d>>, flushed)' /\ a \in Runs \cup Events
    BY <1>3, AcknowledgedLine
  <2>2. d \in 1..Deliveries(a) /\ d \in Nat \ {0}
    BY <1>3, DeliveriesType DEF Shape, Control, ControlOf
  <2>3. d \in 1..d
    BY <2>2
  <2>4. Kind(a, d) = "end" => Stored(<<a, d>>, synced)'
    BY <1>3, <2>1 DEF KindOf
  <2>. QED  BY <1>0, <2>1, <2>2, <2>3, <2>4
<1> HIDE DEF Kept
<1>4. ASSUME NEW b \in Runs \cup Events, NEW d \in 1..Deliveries(b),
             Returned(b, d, "ok")', Observer(b, d) = "log"
      PROVE  Kept(b, d)'
  <2>1. CASE Returned(b, d, "ok")
    BY <1>1, <1>4, <2>1 DEF ReturnedStored, Kept
  <2>2. CASE ~Returned(b, d, "ok")
    <3>0. b \in Actors /\ ~Crash /\ ~UNCHANGED results
      BY <1>0, <1>4, <2>2 DEF Returned, Crash, callVars
    <3>1. PICK a \in Actors : Form(a)
      BY <3>0, StepForms
    <3>2. PICK result \in Results : pc[a] # "done" /\ Returns(a, result)
      BY <3>0, <3>1, Effects
    <3>3. \A c \in Actors \ {a} : results'[c] = results[c]
      BY <3>2, Returning
    <3>4. b = a
      BY <1>4, <2>2, <3>0, <3>3 DEF Returned
    <3>5. \A e, x : Returned(a, e, x)' <=> Returned(a, e, x) \/ (e = delivery[a] /\ x = result)
      BY <3>2, Returning
    <3>6. d = delivery[a] /\ result = "ok"
      BY <1>4, <2>2, <3>4, <3>5
    <3>7. d \in 1..Deliveries(a) /\ Kind(a, d) # "close"
      BY <1>0, <3>4
    <3>8. CASE \E r \in Results : Answers(a, r)
      <4>1. PICK r \in Results : Answers(a, r)
        BY <3>8
      <4>2. Returns(a, r) /\ pc[a] # "done"
        BY <4>1 DEF Answers
      <4>3. \A e, x : Returned(a, e, x)' <=> Returned(a, e, x) \/ (e = delivery[a] /\ x = r)
        BY <4>2, Returning
      <4>4. r = "ok"
        BY <1>4, <2>2, <3>4, <4>3
      <4>5. Kept(a, d)
        BY <1>2, <1>4, <3>4, <3>6, <4>1, <4>4
      <4>. QED  BY <1>1, <3>4, <4>5
    <3>9. CASE Acknowledges(a)
      BY <1>3, <3>4, <3>6, <3>9
    <3>10. CASE PersistFails(a) \/ CloseFile(a)
      <4>1. PersistFails(a) => Returns(a, "failed") /\ "failed" \in Results
        BY DEF PersistFails, Results
      <4>2. \A r \in Results : Returns(a, r) => r = "ok"
        <5>1. ASSUME NEW r \in Results, Returns(a, r) PROVE r = "ok"
          <6>1. \A e, x : Returned(a, e, x)' <=> Returned(a, e, x) \/ (e = delivery[a] /\ x = r)
            BY <3>2, <5>1, Returning
          <6>. QED  BY <1>4, <2>2, <3>4, <6>1
        <5>. QED  BY <5>1
      <4>3. CloseFile(a)
        BY <3>10, <4>1, <4>2
      <4>4. KindOf(a) = "close"
        BY <4>3 DEF CloseFile, At, Control, ControlOf
      <4>. QED  BY <3>6, <3>7, <4>4 DEF KindOf
    <3>11. Begins(a, "write") \/ Begins(a, "close_sync") \/ Write(a) \/ FlushesEnd(a)
              \/ CloseSync(a) \/ Escape(a) => UNCHANGED results
      BY DEF Begins, Write, FlushesEnd, CloseSync, Escape
    <3>. QED  BY <3>0, <3>1, <3>8, <3>9, <3>10, <3>11 DEF Form
  <2>. QED  BY <2>1, <2>2
<1>. QED  BY <1>4 DEF ReturnedStored, Kept

-----------------------------------------------------------------------------
(***************************************************************************)
(* One start of each Run, an orderly close, and one failure.               *)
(***************************************************************************)

\* A line that becomes whole is the one being written, which is then flushed.
LEMMA WholeGrows ==
    ASSUME Shape, Control, InProgress, Levels, Next, NEW line, InFile(line)'
    PROVE  \/ InFile(line)
           \/ \E a \in Actors : /\ Write(a) /\ line = Here(a)
                                /\ pc[a] = "write" /\ pc'[a] = "flush"
<1>0. file \in Seq(Piece) /\ Len(file) \in Nat /\ DOMAIN file = 1..Len(file) /\ Parts \in Nat \ {0}
  BY LenProperties, WriterAssumption DEF Shape
<1>1. PICK i \in DOMAIN file' : file'[i] = [line |-> line, part |-> Parts]
  BY DEF InFile
<1>2. ASSUME NEW a \in Actors, Write(a), ~InFile(line)
      PROVE  line = Here(a) /\ pc[a] = "write" /\ pc'[a] = "flush"
  <2>1. PICK n \in 0..(Parts - 1) : \E upto \in (n + 1)..Parts :
              /\ EndsWith(a, n)
              /\ Len(file') = Len(file) + (upto - n)
              /\ file' \in Seq(Piece)
              /\ \A j \in 1..Len(file) : file'[j] = file[j]
              /\ \A j \in (Len(file) + 1)..Len(file') :
                    file'[j] = [line |-> Here(a), part |-> j - (Len(file) - n)]
              /\ pc' = IF upto = Parts THEN [pc EXCEPT ![a] = "flush"] ELSE pc
    BY <1>2, Writing
  <2>2. PICK upto \in (n + 1)..Parts :
              /\ EndsWith(a, n)
              /\ Len(file') = Len(file) + (upto - n)
              /\ file' \in Seq(Piece)
              /\ \A j \in 1..Len(file) : file'[j] = file[j]
              /\ \A j \in (Len(file) + 1)..Len(file') :
                    file'[j] = [line |-> Here(a), part |-> j - (Len(file) - n)]
              /\ pc' = IF upto = Parts THEN [pc EXCEPT ![a] = "flush"] ELSE pc
    BY <2>1
  <2>3. DOMAIN file' = 1..Len(file')
    BY <2>2, LenProperties
  <2>4. i \notin 1..Len(file)
    BY <1>0, <1>1, <1>2, <2>2 DEF InFile
  <2>5. i \in (Len(file) + 1)..Len(file') /\ Len(file') \in Nat /\ n \in Nat /\ upto \in Nat
    BY <1>0, <1>1, <2>2, <2>3, <2>4
  <2>6. file'[i] = [line |-> Here(a), part |-> i - (Len(file) - n)]
    BY <2>2, <2>5
  <2>7. line = Here(a) /\ Parts = i - (Len(file) - n)
    BY <1>1, <2>6
  <2>8. i - (Len(file) - n) <= upto
    BY <1>0, <2>2, <2>5
  <2>9. upto = Parts
    BY <1>0, <2>5, <2>7, <2>8
  <2>10. pc[a] = "write" /\ pc'[a] = "flush"
    BY <1>2, <2>2, <2>9 DEF Write, At, Shape
  <2>. QED  BY <2>7, <2>10
<1>3. CASE Crash
  <2>1. /\ file' \in Seq(Piece)
        /\ \A j \in 1..Len(file') : j \in 1..Len(file) /\ file'[j] = file[j]
    BY <1>3, Cutting
  <2>2. DOMAIN file' = 1..Len(file')
    BY <2>1, LenProperties
  <2>. QED  BY <1>0, <1>1, <2>1, <2>2 DEF InFile
<1>4. CASE UNCHANGED file
  BY <1>1, <1>4 DEF InFile
<1>. QED  BY <1>2, <1>3, <1>4, StepForms, Effects

\* A start in the file is remembered, or was the last thing recorded.
LEMMA StartKnownKept ==
    ASSUME Shape, Control, InProgress, Levels, StartKnown, Next
    PROVE  StartKnown'
<1> USE DEF stateVars, callVars, streamVars
<1>0. ASSUME NEW r \in Runs, NEW d \in 1..Len(Slots[r])
      PROVE  r \in Actors /\ d \in 1..Deliveries(r) /\ Kind(r, d) = "start"
  <2>1. r \in Actors /\ d \in 1..Deliveries(r) /\ d <= Len(Slots[r])
    BY <1>0, DeliveriesType DEF Actors
  <2>. QED  BY <2>1, Kinds
<1>1. ASSUME NEW r \in Runs, NEW d \in 1..Len(Slots[r]),
             \/ r \in acknowledged
             \/ lifecycle = "failed"
             \/ pc[r] = "flush" /\ delivery[r] = d
      PROVE  \/ r \in acknowledged'
             \/ lifecycle' = "failed"
             \/ pc'[r] = "flush" /\ delivery'[r] = d
  <2>1. CASE Crash
    BY <1>1, <2>1 DEF Crash
  <2>2. ASSUME NEW a \in Actors, Form(a), r \in acknowledged \/ lifecycle = "failed"
        PROVE  r \in acknowledged' \/ lifecycle' = "failed"
    BY <2>2, Storing
  <2>3. ASSUME NEW a \in Actors, Form(a), pc[r] = "flush", delivery[r] = d
        PROVE  \/ r \in acknowledged'
               \/ lifecycle' = "failed"
               \/ pc'[r] = "flush" /\ delivery'[r] = d
    <3>1. CASE a = r
      <4>1. KindOf(a) = "start" /\ pc[a] = "flush"
        BY <1>0, <2>3, <3>1 DEF KindOf
      <4>2. Acknowledges(a) \/ PersistFails(a)
        BY <2>3, <4>1 DEF Form, Answers, Begins, Write, FlushesEnd, CloseSync, CloseFile, Escape, At
      <4>. QED  BY <3>1, <4>1, <4>2 DEF Acknowledges, Acknowledge, PersistFails
    <3>2. CASE a # r
      <4>1. pc'[r] = pc[r] /\ delivery'[r] = delivery[r]
        BY <1>0, <2>3, <3>2, Effects, Returning
      <4>. QED  BY <2>3, <4>1
    <3>. QED  BY <3>1, <3>2
  <2>. QED  BY <1>1, <2>1, <2>2, <2>3, StepForms
<1>2. ASSUME NEW r \in Runs, NEW d \in 1..Len(Slots[r]), InFile(<<r, d>>)'
      PROVE  \/ r \in acknowledged'
             \/ lifecycle' = "failed"
             \/ pc'[r] = "flush" /\ delivery'[r] = d
  <2>1. CASE InFile(<<r, d>>)
    BY <1>1, <2>1 DEF StartKnown
  <2>2. ASSUME NEW a \in Actors, Write(a), <<r, d>> = Here(a), pc'[a] = "flush"
        PROVE  pc'[r] = "flush" /\ delivery'[r] = d
    BY <2>2 DEF Write, Here
  <2>. QED  BY <1>2, <2>1, <2>2, WholeGrows
<1>. QED  BY <1>2 DEF StartKnown

\* The file names the start of a Run once.
LEMMA OneStartKept ==
    ASSUME Shape, Control, InProgress, Levels, StartKnown, OneStartPerRun, Next
    PROVE  OneStartPerRun'
<1>1. ASSUME NEW r \in Runs, NEW d \in 1..Len(Slots[r]), NEW e \in 1..Len(Slots[r]),
             InFile(<<r, d>>), NEW a \in Actors, Write(a), <<r, e>> = Here(a), pc[a] = "write"
      PROVE  FALSE
  <2>1. a = r /\ e = delivery[a]
    BY <1>1 DEF Here
  <2>2. e \in 1..Deliveries(r) /\ e <= Len(Slots[r])
    BY DeliveriesType
  <2>3. KindOf(a) = "start"
    BY <2>1, <2>2, Kinds DEF KindOf
  <2>4. a \notin acknowledged /\ lifecycle = "active"
    BY <1>1, <2>3 DEF Control, ControlOf, Persisting, Suppressed
  <2>. QED  BY <1>1, <2>1, <2>4 DEF StartKnown
<1>2. ASSUME NEW r \in Runs, NEW d \in 1..Len(Slots[r]), NEW e \in 1..Len(Slots[r]),
             InFile(<<r, d>>)', InFile(<<r, e>>)'
      PROVE  d = e
  <2>1. CASE InFile(<<r, d>>) /\ InFile(<<r, e>>)
    BY <2>1 DEF OneStartPerRun
  <2>2. CASE InFile(<<r, d>>) /\ ~InFile(<<r, e>>)
    BY <1>1, <1>2, <2>2, WholeGrows
  <2>3. CASE ~InFile(<<r, d>>) /\ InFile(<<r, e>>)
    BY <1>1, <1>2, <2>3, WholeGrows
  <2>4. CASE ~InFile(<<r, d>>) /\ ~InFile(<<r, e>>)
    <3>1. \E a \in Actors : <<r, d>> = <<a, delivery[a]>>
      BY <1>2, <2>4, WholeGrows DEF Here
    <3>2. \E a \in Actors : <<r, e>> = <<a, delivery[a]>>
      BY <1>2, <2>4, WholeGrows DEF Here
    <3>. QED  BY <3>1, <3>2
  <2>. QED  BY <2>1, <2>2, <2>3, <2>4
<1>. QED  BY <1>2 DEF OneStartPerRun

\* A close that synchronized leaves whole lines and nothing to store, for good.
LEMMA OrderlyKept ==
    ASSUME Shape, Control, InProgress, Levels, FileWellFormed, Orderly, Next
    PROVE  Orderly'
<1> USE DEF stateVars, callVars, streamVars
<1>0. Len(file) \in Nat
  BY LenProperties DEF Shape
<1>1. ASSUME NEW a \in Actors, Form(a), synced = Len(file), ~Write(a)
      PROVE  synced' = Len(file')
  <2>1. UNCHANGED file /\ synced' \in {synced, Len(file)}
    BY <1>1, Effects, Storing
  <2>. QED  BY <1>1, <2>1
<1>2. ASSUME NEW a \in Actors, Form(a), lifecycle' = "closed"
      PROVE  synced' = Len(file') /\ ~Torn'
  <2>1. CASE lifecycle = "closed"
    <3>1. ~Write(a)
      BY <2>1 DEF Write, At, Control, ControlOf, Persisting
    <3>2. UNCHANGED file
      BY <1>2, <3>1, Effects
    <3>. QED  BY <1>1, <1>2, <2>1, <3>1, <3>2 DEF Orderly, Torn
  <2>2. CASE lifecycle # "closed"
    <3>1. CloseFile(a)
      BY <1>2, <2>2 DEF Form, Answers, Begins, Write, FlushesEnd, Acknowledges, PersistFails,
                        CloseSync, Escape
    <3>2. lifecycle = "active" /\ pc[a] = "close_file" /\ crashed = "no"
      BY <1>2, <2>2, <3>1 DEF CloseFile, At, Shape
    <3>3. synced = Len(file)
      BY <3>2 DEF Orderly
    <3>4. ~Torn
      BY <3>2, NotTorn DEF Holding
    <3>. QED  BY <3>1, <3>3, <3>4 DEF CloseFile, Torn
  <2>. QED  BY <2>1, <2>2
<1>3. ASSUME NEW a \in Actors, Form(a), lifecycle' = "active",
             NEW b \in Actors, pc'[b] = "close_file"
      PROVE  synced' = Len(file')
  <2>1. lifecycle = "active" /\ crashed = "no"
    BY <1>3, Storing, Effects
  <2>2. CASE pc[b] = "close_file"
    <3>1. ~Write(a)
      BY <2>2, Exclusive DEF Write, At, Holding, Persisting
    <3>. QED  BY <1>1, <1>3, <2>1, <2>2, <3>1 DEF Orderly
  <2>3. CASE pc[b] # "close_file"
    <3>1. a = b
      BY <1>3, <2>3, Effects, Returning
    <3>2. ~(\E result \in Results : Returns(a, result) /\ pc[a] # "done")
      BY <1>3, <3>1, Returning
    <3>3. CloseSync(a)
      <4>1. ~(\E result \in Results : Answers(a, result))
        BY <3>2 DEF Answers
      <4>2. ~Acknowledges(a) /\ ~PersistFails(a)
        BY <3>2 DEF Acknowledges, Acknowledge, PersistFails, Results
      <4>3. ~CloseFile(a)
        BY <2>3, <3>1 DEF CloseFile, At
      <4>4. ~(\E point \in {"write", "close_sync"} : Begins(a, point)) /\ ~FlushesEnd(a)
        BY <1>3, <3>1 DEF Begins, FlushesEnd, Shape
      <4>5. ~Write(a)
        <5>1. Write(a) => pc'[a] \in {"write", "flush"}
          BY Writing DEF Write, At, Shape
        <5>. QED  BY <1>3, <3>1, <5>1
      <4>6. ~(a \in Runs /\ Escape(a))
        BY <1>3, <3>1 DEF Escape, Goto, Shape
      <4>. QED  BY <1>3, <4>1, <4>2, <4>3, <4>4, <4>5, <4>6 DEF Form
    <3>. QED  BY <1>3, <3>3 DEF CloseSync
  <2>. QED  BY <2>2, <2>3
<1>4. CASE Crash
  <2>1. /\ Len(file') <= Len(file) /\ Len(file') \in Nat /\ synced <= Len(file')
        /\ UNCHANGED <<lifecycle, synced>> /\ crashed' # "no" /\ synced \in Nat
        /\ \A i \in 1..Len(file') : i \in 1..Len(file) /\ file'[i] = file[i]
        /\ file' \in Seq(Piece)
    BY <1>4, Cutting DEF Crash, Shape
  <2>2. ASSUME lifecycle = "closed" PROVE synced = Len(file') /\ ~Torn'
    <3>1. Len(file') = Len(file) /\ synced = Len(file') /\ ~Torn
      BY <1>0, <2>1, <2>2 DEF Orderly
    <3>2. CASE file' = <<>>
      BY <3>1, <3>2 DEF Torn
    <3>3. CASE file' # <<>>
      <4>1. Len(file') \in 1..Len(file')
        BY <2>1, <3>3, EmptySeq
      <4>2. file'[Len(file')] = file[Len(file)] /\ file # <<>>
        BY <2>1, <3>1, <4>1, EmptySeq
      <4>. QED  BY <3>1, <4>2 DEF Torn
    <3>. QED  BY <3>1, <3>2, <3>3
  <2>. QED  BY <2>1, <2>2 DEF Orderly
<1>. QED  BY <1>2, <1>3, <1>4, StepForms DEF Orderly

\* The failures are the calls that returned one.
LEMMA FailuresAre ==
    \A f : f \in Failures <=> \E a \in Actors : \E d : f = <<a, d>> /\ Returned(a, d, "failed")
BY DEF Failures, Returned

\* One failure is reported, and it is the last.
LEMMA OneFailureKept ==
    ASSUME Shape, Control, InProgress, Levels, OneFailureReported, Next
    PROVE  OneFailureReported'
<1> USE DEF stateVars, callVars, streamVars
<1>0. \A f : f \in Failures' <=> \E a \in Actors : \E d : f = <<a, d>> /\ Returned(a, d, "failed")'
  BY DEF Failures, Returned
<1>1. ASSUME UNCHANGED <<results, lifecycle>>,
             lifecycle # "failed" \/ (holder' = Nobody <=> holder = Nobody)
      PROVE  OneFailureReported'
  <2>1. Failures' = Failures
    BY <1>0, <1>1, FailuresAre DEF Returned
  <2>. QED  BY <1>1, <2>1 DEF OneFailureReported, Returned
<1>2. ASSUME NEW a \in Actors, pc[a] # "done", NEW result \in Results \ {"failed"},
             Returns(a, result), UNCHANGED lifecycle,
             lifecycle # "failed" \/ (holder' = Nobody <=> holder = Nobody),
             result = "unavailable" => Failures # {}
      PROVE  OneFailureReported'
  <2>1. /\ \A d, x : Returned(a, d, x)' <=> Returned(a, d, x) \/ (d = delivery[a] /\ x = result)
        /\ \A b \in Actors \ {a} : results'[b] = results[b]
    BY <1>2, Returning
  <2>2. ASSUME NEW b \in Actors, NEW d, NEW x, Returned(b, d, x)'
        PROVE  Returned(b, d, x) \/ x = result
    BY <2>1, <2>2 DEF Returned
  <2>3. ASSUME NEW b \in Actors, NEW d, NEW x, Returned(b, d, x)
        PROVE  Returned(b, d, x)'
    BY <2>1, <2>3 DEF Returned
  <2>4. Failures' = Failures
    BY <1>0, <1>2, <2>2, <2>3, FailuresAre
  <2>5. ASSUME NEW b \in Actors, NEW d \in DOMAIN results'[b], Returned(b, d, "unavailable")'
        PROVE  Failures' # {}
    <3>1. CASE result = "unavailable"
      BY <1>2, <2>4, <3>1
    <3>2. CASE Returned(b, d, "unavailable")
      BY <2>4, <3>2 DEF OneFailureReported, Returned
    <3>. QED  BY <2>2, <2>5, <3>1, <3>2
  <2>. QED  BY <1>2, <2>4, <2>5 DEF OneFailureReported
<1>3. ASSUME NEW a \in Actors, pc[a] # "done", Returns(a, "failed"), Failures = {},
             lifecycle' = "failed", holder' = Nobody
      PROVE  OneFailureReported'
  <2>0. "failed" \in Results
    BY DEF Results
  <2>1. /\ \A d, x : Returned(a, d, x)' <=> Returned(a, d, x) \/ (d = delivery[a] /\ x = "failed")
        /\ \A b \in Actors \ {a} : results'[b] = results[b]
    BY <1>3, <2>0, Returning
  <2>2. \A f \in Failures' : f = <<a, delivery[a]>>
    <3>1. ASSUME NEW b \in Actors, NEW d, Returned(b, d, "failed")'
          PROVE  b = a /\ d = delivery[a]
      <4>1. ~Returned(b, d, "failed")
        BY <1>3, FailuresAre
      <4>. QED  BY <2>1, <3>1, <4>1 DEF Returned
    <3>. QED  BY <1>0, <3>1
  <2>3. <<a, delivery[a]>> \in Failures'
    BY <1>0, <2>1
  <2>. QED  BY <1>3, <2>2, <2>3 DEF OneFailureReported
<1>4. ASSUME NEW a \in Actors, NEW result \in Results, Answers(a, result)
      PROVE  OneFailureReported'
  <2>1. result = "unavailable" => Failures # {}
    BY <1>4 DEF Answers, OneFailureReported
  <2>. QED  BY <1>2, <1>4, <2>1 DEF Answers
<1>5. ASSUME NEW a \in Actors, pc[a] \in Persisting \cup {"close_sync", "close_file"}
      PROVE  /\ holder = a /\ holder # Nobody /\ Failures = {}
             /\ pc[a] \in Persisting \cup {"close_sync"} => lifecycle = "active"
  <2>1. holder = a /\ holder # Nobody
    BY <1>5, Exclusive DEF Holding
  <2>2. Failures = {}
    BY <2>1 DEF OneFailureReported
  <2>. QED  BY <2>1, <2>2 DEF Control, ControlOf
<1>6. ASSUME NEW a \in Actors, NEW point \in {"write", "close_sync"}, Begins(a, point)
      PROVE  OneFailureReported'
  BY <1>1, <1>6 DEF Begins
<1>7. ASSUME NEW a \in Actors, Write(a) \/ FlushesEnd(a) \/ (a \in Runs /\ Escape(a))
      PROVE  OneFailureReported'
  BY <1>1, <1>7 DEF Write, FlushesEnd, Escape
<1>8. ASSUME NEW a \in Actors, Acknowledges(a) PROVE OneFailureReported'
  <2>1. pc[a] \in Persisting /\ pc[a] # "done" /\ Returns(a, "ok") /\ UNCHANGED lifecycle
    BY <1>8 DEF Acknowledges, Acknowledge, Persisting
  <2>2. lifecycle # "failed"
    BY <1>5, <2>1
  <2>. QED  BY <1>2, <2>1, <2>2 DEF Results
<1>9. ASSUME NEW a \in Actors, PersistFails(a) PROVE OneFailureReported'
  <2>1. /\ pc[a] \in Persisting /\ pc[a] # "done" /\ Returns(a, "failed")
        /\ lifecycle' = "failed" /\ holder' = Nobody
    BY <1>9 DEF PersistFails, Persisting
  <2>. QED  BY <1>3, <1>5, <2>1
<1>10. ASSUME NEW a \in Actors, CloseSync(a) PROVE OneFailureReported'
  <2>1. /\ pc[a] = "close_sync" /\ UNCHANGED <<holder, results>>
        /\ lifecycle' \in {lifecycle, "failed"}
    BY <1>10 DEF CloseSync, At
  <2>2. holder # Nobody /\ Failures = {}
    BY <1>5, <2>1
  <2>3. Failures' = {}
    BY <1>0, <2>1, <2>2, FailuresAre DEF Returned
  <2>. QED  BY <2>1, <2>2, <2>3 DEF OneFailureReported, Returned
<1>11. ASSUME NEW a \in Actors, CloseFile(a) PROVE OneFailureReported'
  <2>1. /\ pc[a] = "close_file" /\ pc[a] # "done" /\ holder' = Nobody
        /\ lifecycle' \in {"failed", "closed"}
        /\ Returns(a, IF lifecycle' = "failed" THEN "failed" ELSE "ok")
        /\ lifecycle = "failed" => lifecycle' = "failed"
    BY <1>11 DEF CloseFile, At
  <2>2. Failures = {}
    BY <1>5, <2>1
  <2>3. CASE lifecycle' = "failed"
    BY <1>3, <2>1, <2>2, <2>3
  <2>4. CASE lifecycle' = "closed"
    <3>1. Returns(a, "ok") /\ "ok" \in Results
      BY <2>1, <2>4 DEF Results
    <3>2. /\ \A d, x : Returned(a, d, x)' <=> Returned(a, d, x) \/ (d = delivery[a] /\ x = "ok")
          /\ \A b \in Actors \ {a} : results'[b] = results[b]
      BY <2>1, <3>1, Returning
    <3>3. ASSUME NEW b \in Actors, NEW d, NEW x \in {"failed", "unavailable"}, Returned(b, d, x)'
          PROVE  Returned(b, d, x)
      BY <3>2, <3>3 DEF Returned
    <3>4. Failures' = {}
      BY <1>0, <2>2, <3>3, FailuresAre
    <3>5. \A b \in Actors : \A d \in DOMAIN results'[b] : ~Returned(b, d, "unavailable")'
      BY <2>2, <3>3 DEF OneFailureReported, Returned
    <3>. QED  BY <2>4, <3>4, <3>5 DEF OneFailureReported
  <2>. QED  BY <2>1, <2>3, <2>4
<1>12. CASE Crash
  BY <1>1, <1>12 DEF Crash
<1>. QED
  BY <1>4, <1>6, <1>7, <1>8, <1>9, <1>10, <1>11, <1>12, StepForms DEF Form

-----------------------------------------------------------------------------
(***************************************************************************)
(* The invariant.                                                          *)
(***************************************************************************)

\* The writer starts on an empty file.
LEMMA InitIInv == Init => IInv
<1> SUFFICES ASSUME Init PROVE IInv
  OBVIOUS
<1> USE DEF Init
<1>1. \A a \in Actors : Deliveries(a) \in Nat \ {0}
  BY DeliveriesType
<1>2. Parts \in Nat \ {0} /\ Nobody \notin Actors
  BY WriterAssumption
<1>3. /\ file = <<>> /\ Len(file) = 0 /\ DOMAIN file = {}
      /\ \A a \in Actors : results[a] = <<>> /\ Len(results[a]) = 0 /\ DOMAIN results[a] = {}
  <2>1. Len(<<>>) = 0 /\ DOMAIN <<>> = {}
    OBVIOUS
  <2>. QED  BY <2>1
<1>4. Shape
  <2>1. <<>> \in Seq(Results) /\ <<>> \in Seq(Error) /\ <<>> \in Seq(Piece)
    OBVIOUS
  <2>. QED  BY <2>1 DEF Shape
<1>5. Control
  BY <1>1, <1>2, <1>3 DEF Control, ControlOf, Holding, Persisting
<1>6. NothingAhead /\ InProgress /\ StartKnown /\ OneStartPerRun
  BY <1>3 DEF NothingAhead, InProgress, StartKnown, OneStartPerRun, InFile
<1>7. FileWellFormed
  <2>1. \A i \in 2..0 : FALSE
    OBVIOUS
  <2>. QED  BY <1>3, <2>1 DEF FileWellFormed, Torn
<1>8. Levels /\ AcknowledgedStored /\ Orderly
  BY <1>3 DEF Levels, AcknowledgedStored, Orderly
<1>9. ReturnedStored
  BY <1>3 DEF ReturnedStored, Returned, Actors
<1>10. OneFailureReported
  <2>1. Failures = {}
    BY <1>3 DEF Failures
  <2>. QED  BY <1>3, <2>1 DEF OneFailureReported
<1>. QED  BY <1>4, <1>5, <1>6, <1>7, <1>8, <1>9, <1>10 DEF IInv

\* Every step keeps it.
LEMMA NextIInv == IInv /\ [Next]_vars => IInv'
<1> SUFFICES ASSUME IInv, [Next]_vars PROVE IInv'
  OBVIOUS
<1>1. CASE Next
  <2> USE <1>1 DEF IInv
  <2>1. Shape' /\ Control'
    BY ShapeKept, ControlKept
  <2>2. NothingAhead' /\ InProgress'
    BY NothingAheadKept, InProgressKept
  <2>3. FileWellFormed' /\ Levels'
    BY FileWellFormedKept, LevelsKept
  <2>4. AcknowledgedStored' /\ ReturnedStored'
    BY AcknowledgedStoredKept, ReturnedStoredKept
  <2>5. StartKnown' /\ OneStartPerRun'
    BY StartKnownKept, OneStartKept
  <2>6. Orderly' /\ OneFailureReported'
    BY OrderlyKept, OneFailureKept
  <2>. QED  BY <2>1, <2>2, <2>3, <2>4, <2>5, <2>6
<1>2. CASE UNCHANGED vars
  <2> USE <1>2 DEF vars, stateVars, callVars, streamVars, IInv
  <2>1. Shape' /\ Levels'
    BY DEF Shape, Levels
  <2>2. Control'
    BY DEF Control, ControlOf, KindOf, Suppressed
  <2>3. NothingAhead' /\ InProgress'
    BY DEF NothingAhead, InProgress, EndsWith, Here
  <2>4. FileWellFormed'
    BY DEF FileWellFormed, Torn
  <2>5. AcknowledgedStored'
    BY DEF AcknowledgedStored, Stored
  <2>6. ReturnedStored'
    BY DEF ReturnedStored, Returned, Stored
  <2>7. StartKnown' /\ OneStartPerRun' /\ Orderly'
    BY DEF StartKnown, OneStartPerRun, InFile, Orderly, Torn
  <2>8. Failures' = Failures
    BY DEF Failures
  <2>9. OneFailureReported'
    BY <2>8 DEF OneFailureReported, Returned
  <2>. QED  BY <2>1, <2>2, <2>3, <2>4, <2>5, <2>6, <2>7, <2>9
<1>. QED  BY <1>1, <1>2

\* IInv holds in every reachable state, however many Runs share the writer and
\* wherever a call fails or the machine goes down.
THEOREM Invariance == Spec => []IInv
<1>1. Init => IInv
  BY InitIInv
<1>2. IInv /\ [Next]_vars => IInv'
  BY NextIInv
<1>. QED  BY <1>1, <1>2, PTL DEF Spec

\* However the pieces of concurrent lines are written, lines never interleave,
\* none is written twice, and only the last can be incomplete: while it is
\* written, after it failed, or where a crash cut it.
THEOREM WellFormed == Spec => []FileWellFormed
<1>1. IInv => FileWellFormed
  BY DEF IInv
<1>. QED  BY <1>1, Invariance, PTL

\* What the log kept is in the file.
LEMMA StoredInFile ==
    ASSUME Shape, NEW line, NEW n, Stored(line, n)
    PROVE  InFile(line)
<1>1. DOMAIN file = 1..Len(file)
  BY LenProperties DEF Shape
<1>. QED  BY <1>1 DEF Stored, InFile

\* A record that returned success is in the file through a crash of the
\* process, and an end through a power loss; a suppressed start is there by
\* the start it repeats.  A writer closed in order left whole lines only, all
\* of them stored.
THEOREM AcknowledgedIsKept == Spec => []AcknowledgedKept
<1>1. ASSUME IInv PROVE AcknowledgedKept
  <2>1. ASSUME NEW a \in Runs \cup Events, NEW d \in 1..Deliveries(a),
               Returned(a, d, "ok"), Observer(a, d) = "log"
        PROVE  CASE Kind(a, d) = "end"   -> InFile(<<a, d>>)
                 [] Kind(a, d) = "event" -> crashed # "power" => InFile(<<a, d>>)
                 [] Kind(a, d) = "start" ->
                       crashed # "power" => \E e \in 1..d : InFile(<<a, e>>)
    <3>1. /\ Kind(a, d) = "end" => Stored(<<a, d>>, synced)
          /\ Kind(a, d) = "event" => (crashed # "power" => Stored(<<a, d>>, flushed))
          /\ Kind(a, d) = "start" =>
                (crashed # "power" => \E e \in 1..d : Stored(<<a, e>>, flushed))
      BY <1>1, <2>1 DEF IInv, ReturnedStored
    <3>2. Kind(a, d) \in {"start", "end", "event"}
      BY Kinds DEF Actors
    <3>3. Shape
      BY <1>1 DEF IInv
    <3>4. CASE Kind(a, d) = "end"
      BY <3>1, <3>3, <3>4, StoredInFile
    <3>5. CASE Kind(a, d) = "event"
      BY <3>1, <3>3, <3>5, StoredInFile
    <3>6. CASE Kind(a, d) = "start"
      <4>1. \A e \in 1..d : Stored(<<a, e>>, flushed) => InFile(<<a, e>>)
        BY <3>3, StoredInFile
      <4>. QED  BY <3>1, <3>6, <4>1
    <3>. QED  BY <3>2, <3>4, <3>5, <3>6
  <2>2. lifecycle = "closed" => synced = Len(file) /\ ~Torn
    BY <1>1 DEF IInv, Orderly
  <2>. QED  BY <2>1, <2>2 DEF AcknowledgedKept
<1>. QED  BY <1>1, Invariance, PTL

\* With the writer in any number of a Run's slots, and whatever failed, the
\* file names the start of each Run at most once.
THEOREM OneStart == Spec => []OneStartPerRun
<1>1. IInv => OneStartPerRun
  BY DEF IInv
<1>. QED  BY <1>1, Invariance, PTL

\* Of all the calls of all the actors at most one returns the failure, and no
\* call is refused for a failure that no call was told.
THEOREM OneFailure == Spec => []OneFailureReported
<1>1. IInv => OneFailureReported
  BY DEF IInv
<1>. QED  BY <1>1, Invariance, PTL

-----------------------------------------------------------------------------
(***************************************************************************)
(* The whole lines of a file, piece by piece.                              *)
(***************************************************************************)

\* LinesOf adds the line of each last piece, as its definition reads.
LEMMA LinesDefined ==
    ASSUME NEW s \in Seq(Piece)
    PROVE  /\ LinesOf(s)[0] = <<>>
           /\ \A n \in 1..Len(s) :
                 LinesOf(s)[n] = IF s[n].part = Parts THEN Append(LinesOf(s)[n - 1], s[n].line)
                                 ELSE LinesOf(s)[n - 1]
<1> DEFINE Adds(before, n) == IF s[n].part = Parts THEN Append(before, s[n].line) ELSE before
           Upto(f, n) == f = [i \in 0..n |-> IF i = 0 THEN <<>> ELSE Adds(f[i - 1], i)]
           S == {n \in Nat : \E f : Upto(f, n)}
<1>0. Len(s) \in Nat
  BY LenProperties
<1>1. 0 \in S
  <2> DEFINE f == [i \in 0..0 |-> <<>>]
  <2>1. f = [i \in 0..0 |-> IF i = 0 THEN <<>> ELSE Adds(f[i - 1], i)]
    OBVIOUS
  <2>2. \E g : Upto(g, 0)
    <3> HIDE DEF f
    <3>. QED  BY <2>1
  <2>. QED  BY <2>2
<1>2. ASSUME NEW n \in Nat, n \in S PROVE n + 1 \in S
  <2>1. PICK f : f = [i \in 0..n |-> IF i = 0 THEN <<>> ELSE Adds(f[i - 1], i)]
    BY <1>2
  <2> HIDE DEF Adds
  <2> DEFINE g == [i \in 0..(n + 1) |-> IF i <= n THEN f[i] ELSE Adds(f[n], n + 1)]
  <2>2. ASSUME NEW i \in 0..(n + 1)
        PROVE  g[i] = IF i = 0 THEN <<>> ELSE Adds(g[i - 1], i)
    <3>1. CASE i = 0
      BY <2>1, <3>1
    <3>2. CASE i \in 1..n
      <4>1. i - 1 \in 0..(n + 1) /\ i - 1 <= n /\ i <= n /\ i \in 0..n /\ i # 0
        BY <3>2
      <4>2. g[i] = f[i] /\ g[i - 1] = f[i - 1]
        BY <4>1
      <4>3. f[i] = Adds(f[i - 1], i)
        BY <2>1, <4>1
      <4>. QED  BY <4>1, <4>2, <4>3
    <3>3. CASE i = n + 1
      <4>1. g[i] = Adds(f[n], n + 1) /\ g[n] = f[n] /\ i - 1 = n /\ i # 0
        BY <3>3
      <4>. QED  BY <3>3, <4>1
    <3>. QED  BY <3>1, <3>2, <3>3
  <2>3. g = [i \in 0..(n + 1) |-> g[i]]
    OBVIOUS
  <2> HIDE DEF g
  <2>4. Upto(g, n + 1)
    BY <2>2, <2>3
  <2>. QED  BY <2>4
<1>3. Len(s) \in S
  <2> HIDE DEF S
  <2>1. Nat \subseteq S
    BY <1>1, <1>2, SetInduction
  <2>. QED  BY <1>0, <2>1
<1>4. LinesOf(s) = CHOOSE f : Upto(f, Len(s))
  BY DEF LinesOf
<1>5. Upto(LinesOf(s), Len(s))
  <2> HIDE DEF Upto
  <2>1. \E f : Upto(f, Len(s))
    BY <1>3
  <2>. QED  BY <1>4, <2>1
<1>6. /\ LinesOf(s)[0] = <<>>
      /\ \A n \in 1..Len(s) : LinesOf(s)[n] = Adds(LinesOf(s)[n - 1], n)
  <2> HIDE DEF Adds
  <2> DEFINE L == LinesOf(s)
  <2>1. L = [i \in 0..Len(s) |-> IF i = 0 THEN <<>> ELSE Adds(L[i - 1], i)]
    BY <1>5
  <2> HIDE DEF L
  <2>2. L[0] = <<>>
    BY <1>0, <2>1
  <2>3. \A n \in 1..Len(s) : L[n] = Adds(L[n - 1], n)
    BY <1>0, <2>1
  <2>. QED  BY <2>2, <2>3 DEF L
<1>. QED  BY <1>6

\* A sequence that another begins with is a part of it.
LEMMA PrefixIsSubSeq ==
    ASSUME NEW T, NEW a \in Seq(T), NEW b \in Seq(T), Len(a) <= Len(b),
           \A i \in 1..Len(a) : b[i] = a[i]
    PROVE  a = SubSeq(b, 1, Len(a))
<1>1. Len(a) \in Nat /\ Len(b) \in Nat /\ DOMAIN a = 1..Len(a)
  BY LenProperties
<1>2. \A i \in 1..Len(a) : i \in 1..Len(b)
  BY <1>1
<1>3. /\ SubSeq(b, 1, Len(a)) \in Seq(T)
      /\ Len(SubSeq(b, 1, Len(a))) = IF 1 <= Len(a) THEN Len(a) - 1 + 1 ELSE 0
      /\ \A i \in 1..(Len(a) - 1 + 1) : SubSeq(b, 1, Len(a))[i] = b[1 + i - 1]
  BY <1>1, <1>2, SubSeqProperties
<1>4. Len(SubSeq(b, 1, Len(a))) = Len(a)
  BY <1>1, <1>3
<1>5. \A i \in 1..Len(a) : SubSeq(b, 1, Len(a))[i] = a[i]
  <2>1. \A i \in 1..Len(a) : 1 + i - 1 = i /\ i \in 1..(Len(a) - 1 + 1)
    BY <1>1
  <2>. QED  BY <1>3, <2>1
<1>. QED  BY <1>3, <1>4, <1>5, SeqEqual

\* The lines are lines.
LEMMA LinesType ==
    ASSUME NEW s \in Seq(Piece)
    PROVE  \A n \in 0..Len(s) : LinesOf(s)[n] \in Seq(Line)
<1> DEFINE S == {n \in Nat : n <= Len(s) => LinesOf(s)[n] \in Seq(Line)}
<1>0. Len(s) \in Nat /\ \A i \in 1..Len(s) : s[i].line \in Line
  <2>1. \A i \in 1..Len(s) : s[i] \in Piece
    BY ElementOfSeq
  <2>. QED  BY <2>1, LenProperties DEF Piece
<1>1. 0 \in S
  <2>1. LinesOf(s)[0] = <<>> /\ <<>> \in Seq(Line)
    BY LinesDefined
  <2>. QED  BY <2>1
<1>2. ASSUME NEW n \in Nat, n \in S PROVE n + 1 \in S
  <2>1. SUFFICES ASSUME n + 1 <= Len(s) PROVE LinesOf(s)[n + 1] \in Seq(Line)
    OBVIOUS
  <2>2. n + 1 \in 1..Len(s) /\ (n + 1) - 1 = n /\ n <= Len(s)
    BY <1>0, <2>1
  <2>3. LinesOf(s)[n] \in Seq(Line) /\ s[n + 1].line \in Line
    BY <1>0, <1>2, <2>2
  <2>4. LinesOf(s)[n + 1] = IF s[n + 1].part = Parts
                            THEN Append(LinesOf(s)[n], s[n + 1].line) ELSE LinesOf(s)[n]
    BY <2>2, LinesDefined
  <2>. QED  BY <2>3, <2>4, AppendProperties
<1>3. Nat \subseteq S
  <2> HIDE DEF S
  <2>. QED  BY <1>1, <1>2, SetInduction
<1>. QED  BY <1>0, <1>3

\* Files that begin alike have the same lines there.
LEMMA LinesAgree ==
    ASSUME NEW s \in Seq(Piece), NEW t \in Seq(Piece), NEW m \in Nat,
           m <= Len(s), m <= Len(t), \A i \in 1..m : s[i] = t[i]
    PROVE  \A n \in 0..m : LinesOf(s)[n] = LinesOf(t)[n]
<1> DEFINE S == {n \in Nat : n <= m => LinesOf(s)[n] = LinesOf(t)[n]}
<1>0. Len(s) \in Nat /\ Len(t) \in Nat
  BY LenProperties
<1>1. 0 \in S
  BY LinesDefined
<1>2. ASSUME NEW n \in Nat, n \in S PROVE n + 1 \in S
  <2>1. SUFFICES ASSUME n + 1 <= m PROVE LinesOf(s)[n + 1] = LinesOf(t)[n + 1]
    OBVIOUS
  <2>2. /\ n + 1 \in 1..Len(s) /\ n + 1 \in 1..Len(t) /\ n + 1 \in 1..m
        /\ (n + 1) - 1 = n /\ n <= m
    BY <1>0, <2>1
  <2>3. LinesOf(s)[n] = LinesOf(t)[n] /\ s[n + 1] = t[n + 1]
    BY <1>2, <2>2
  <2>4. /\ LinesOf(s)[n + 1] = IF s[n + 1].part = Parts
                               THEN Append(LinesOf(s)[n], s[n + 1].line) ELSE LinesOf(s)[n]
        /\ LinesOf(t)[n + 1] = IF t[n + 1].part = Parts
                               THEN Append(LinesOf(t)[n], t[n + 1].line) ELSE LinesOf(t)[n]
    BY <2>2, LinesDefined
  <2>. QED  BY <2>3, <2>4
<1>3. Nat \subseteq S
  <2> HIDE DEF S
  <2>. QED  BY <1>1, <1>2, SetInduction
<1>. QED  BY <1>3

\* The lines of a part of a file are the first lines of it.
LEMMA LinesGrow ==
    ASSUME NEW s \in Seq(Piece), NEW m \in 0..Len(s)
    PROVE  \A n \in m..Len(s) :
              /\ Len(LinesOf(s)[m]) \in Nat /\ Len(LinesOf(s)[n]) \in Nat
              /\ Len(LinesOf(s)[m]) <= Len(LinesOf(s)[n])
              /\ LinesOf(s)[m] = SubSeq(LinesOf(s)[n], 1, Len(LinesOf(s)[m]))
<1> DEFINE Begin(n) == /\ Len(LinesOf(s)[m]) <= Len(LinesOf(s)[n])
                       /\ \A i \in 1..Len(LinesOf(s)[m]) : LinesOf(s)[n][i] = LinesOf(s)[m][i]
           S == {k \in Nat : m + k <= Len(s) => Begin(m + k)}
<1>0. Len(s) \in Nat /\ m \in Nat /\ \A i \in 1..Len(s) : s[i].line \in Line
  <2>1. \A i \in 1..Len(s) : s[i] \in Piece
    BY ElementOfSeq
  <2>. QED  BY <2>1, LenProperties DEF Piece
<1>1. \A n \in 0..Len(s) : LinesOf(s)[n] \in Seq(Line) /\ Len(LinesOf(s)[n]) \in Nat
  BY LinesType, LenProperties
<1>2. 0 \in S
  BY <1>0, <1>1
<1>3. ASSUME NEW k \in Nat, k \in S PROVE k + 1 \in S
  <2> DEFINE n == m + k
  <2>1. SUFFICES ASSUME m + (k + 1) <= Len(s) PROVE Begin(m + (k + 1))
    OBVIOUS
  <2>2. /\ n + 1 \in 1..Len(s) /\ n + 1 = m + (k + 1) /\ (n + 1) - 1 = n
        /\ n \in 0..Len(s) /\ n <= Len(s) /\ n \in Nat
    BY <1>0, <2>1
  <2>3. Begin(n)
    BY <1>3, <2>2
  <2> HIDE DEF n
  <2>4. LinesOf(s)[n + 1] = IF s[n + 1].part = Parts
                            THEN Append(LinesOf(s)[n], s[n + 1].line) ELSE LinesOf(s)[n]
    BY <2>2, LinesDefined
  <2>5. /\ LinesOf(s)[n] \in Seq(Line) /\ Len(LinesOf(s)[n]) \in Nat
        /\ s[n + 1].line \in Line /\ Len(LinesOf(s)[m]) \in Nat
    BY <1>0, <1>1, <2>2
  <2>6. CASE s[n + 1].part = Parts
    <3>1. /\ Len(LinesOf(s)[n + 1]) = Len(LinesOf(s)[n]) + 1
          /\ \A i \in 1..Len(LinesOf(s)[n]) : LinesOf(s)[n + 1][i] = LinesOf(s)[n][i]
      BY <2>4, <2>5, <2>6, AppendProperties
    <3>2. \A i \in 1..Len(LinesOf(s)[m]) : i \in 1..Len(LinesOf(s)[n])
      BY <2>3, <2>5
    <3>3. Len(LinesOf(s)[m]) <= Len(LinesOf(s)[n + 1])
      BY <2>3, <2>5, <3>1
    <3>4. \A i \in 1..Len(LinesOf(s)[m]) : LinesOf(s)[n + 1][i] = LinesOf(s)[m][i]
      BY <2>3, <3>1, <3>2
    <3>. QED  BY <2>2, <3>3, <3>4
  <2>7. CASE s[n + 1].part # Parts
    BY <2>2, <2>3, <2>4, <2>7
  <2>. QED  BY <2>6, <2>7
<1>4. Nat \subseteq S
  <2> HIDE DEF S
  <2>. QED  BY <1>2, <1>3, SetInduction
<1>5. ASSUME NEW n \in m..Len(s)
      PROVE  /\ Len(LinesOf(s)[m]) \in Nat /\ Len(LinesOf(s)[n]) \in Nat
             /\ Len(LinesOf(s)[m]) <= Len(LinesOf(s)[n])
             /\ LinesOf(s)[m] = SubSeq(LinesOf(s)[n], 1, Len(LinesOf(s)[m]))
  <2>1. n - m \in Nat /\ m + (n - m) = n /\ n \in 0..Len(s) /\ n <= Len(s)
    BY <1>0
  <2>2. Begin(n)
    BY <1>4, <2>1
  <2> DEFINE a == LinesOf(s)[m]
             b == LinesOf(s)[n]
  <2>3. a \in Seq(Line) /\ b \in Seq(Line) /\ Len(a) \in Nat /\ Len(b) \in Nat
    BY <1>0, <1>1, <2>1
  <2>4. Len(a) <= Len(b) /\ \A i \in 1..Len(a) : b[i] = a[i]
    BY <2>2
  <2> HIDE DEF a, b
  <2>5. a = SubSeq(b, 1, Len(a))
    BY <2>3, <2>4, PrefixIsSubSeq
  <2>. QED  BY <2>3, <2>4, <2>5 DEF a, b
<1>. QED  BY <1>5

\* Pieces that complete no line add none.
LEMMA LinesRest ==
    ASSUME NEW s \in Seq(Piece), NEW m \in 0..Len(s),
           \A i \in (m + 1)..Len(s) : s[i].part # Parts
    PROVE  LinesOf(s)[Len(s)] = LinesOf(s)[m]
<1> DEFINE S == {k \in Nat : m + k <= Len(s) => LinesOf(s)[m + k] = LinesOf(s)[m]}
<1>0. Len(s) \in Nat /\ m \in Nat
  BY LenProperties
<1>1. 0 \in S
  BY <1>0
<1>2. ASSUME NEW k \in Nat, k \in S PROVE k + 1 \in S
  <2>1. SUFFICES ASSUME m + (k + 1) <= Len(s) PROVE LinesOf(s)[m + (k + 1)] = LinesOf(s)[m]
    OBVIOUS
  <2>2. /\ m + (k + 1) \in 1..Len(s) /\ m + (k + 1) \in (m + 1)..Len(s)
        /\ (m + (k + 1)) - 1 = m + k /\ m + k <= Len(s)
    BY <1>0, <2>1
  <2>3. LinesOf(s)[m + (k + 1)] = LinesOf(s)[m + k]
    BY <2>2, LinesDefined
  <2>. QED  BY <1>2, <2>2, <2>3
<1>3. Nat \subseteq S
  <2> HIDE DEF S
  <2>. QED  BY <1>1, <1>2, SetInduction
<1>4. Len(s) - m \in Nat /\ m + (Len(s) - m) = Len(s) /\ Len(s) <= Len(s)
  BY <1>0
<1>5. Len(s) - m \in S
  BY <1>3, <1>4
<1>. QED  BY <1>4, <1>5

\* What storage holds of the file, in lines.
LEMMA DurableLines ==
    ASSUME NEW s \in Seq(Piece), NEW k \in 0..Len(s)
    PROVE  WholeLines(SubSeq(s, 1, k)) = LinesOf(s)[k]
<1>1. Len(s) \in Nat /\ \A i \in 1..k : i \in 1..Len(s)
  BY LenProperties
<1>2. /\ SubSeq(s, 1, k) \in Seq(Piece)
      /\ Len(SubSeq(s, 1, k)) = IF 1 <= k THEN k - 1 + 1 ELSE 0
      /\ \A i \in 1..(k - 1 + 1) : SubSeq(s, 1, k)[i] = s[1 + i - 1]
  BY <1>1, SubSeqProperties
<1>3. k \in Nat /\ Len(SubSeq(s, 1, k)) = k
  BY <1>1, <1>2
<1>4. \A i \in 1..k : SubSeq(s, 1, k)[i] = s[i]
  <2>1. \A i \in 1..k : 1 + i - 1 = i /\ i \in 1..(k - 1 + 1)
    BY <1>3
  <2>. QED  BY <1>2, <2>1
<1>5. k \in 0..k /\ k <= k /\ k <= Len(s)
  BY <1>1, <1>3
<1>6. LinesOf(SubSeq(s, 1, k))[k] = LinesOf(s)[k]
  BY <1>1, <1>2, <1>3, <1>4, <1>5, LinesAgree
<1>. QED  BY <1>3, <1>6 DEF WholeLines

-----------------------------------------------------------------------------
(***************************************************************************)
(* The file implements AppendLog.                                          *)
(***************************************************************************)

\* The abstract log, as the file has it.
AbstractLines   == WholeLines(file)
AbstractDurable == Len(WholeLines(SubSeq(file, 1, synced)))
AbstractOpen    == lifecycle = "active" /\ crashed = "no"

\* The abstract state, by the lines of the file.
LEMMA AbstractState ==
    ASSUME Shape, Levels
    PROVE  /\ AbstractLines = LinesOf(file)[Len(file)]
           /\ AbstractDurable = Len(LinesOf(file)[synced])
           /\ AbstractLines \in Seq(Line) /\ AbstractDurable \in Nat
           /\ AbstractDurable <= Len(AbstractLines)
<1>1. file \in Seq(Piece) /\ Len(file) \in Nat /\ synced \in 0..Len(file)
  BY LenProperties DEF Shape, Levels
<1>2. AbstractLines = LinesOf(file)[Len(file)]
  BY DEF AbstractLines, WholeLines
<1>3. AbstractDurable = Len(LinesOf(file)[synced])
  BY <1>1, DurableLines DEF AbstractDurable
<1>4. Len(file) \in 0..Len(file) /\ Len(file) \in synced..Len(file)
  BY <1>1
<1>5. LinesOf(file)[Len(file)] \in Seq(Line)
  BY <1>1, <1>4, LinesType
<1>6. /\ Len(LinesOf(file)[synced]) \in Nat
      /\ Len(LinesOf(file)[synced]) <= Len(LinesOf(file)[Len(file)])
  BY <1>1, <1>4, LinesGrow
<1>. QED  BY <1>2, <1>3, <1>5, <1>6

\* The same after a step.
LEMMA AbstractPrimed ==
    ASSUME Shape', Levels'
    PROVE  /\ AbstractLines' = LinesOf(file')[Len(file')]
           /\ AbstractDurable' = Len(LinesOf(file')[synced'])
<1>1. PICK s : s = file'
  OBVIOUS
<1>2. PICK k : k = synced'
  OBVIOUS
<1>3. s \in Seq(Piece) /\ Len(s) \in Nat /\ k \in 0..Len(s)
  BY <1>1, <1>2, LenProperties DEF Shape, Levels
<1>4. WholeLines(SubSeq(s, 1, k)) = LinesOf(s)[k]
  BY <1>3, DurableLines
<1>5. AbstractDurable' = Len(LinesOf(s)[k])
  BY <1>1, <1>2, <1>4 DEF AbstractDurable
<1>. QED  BY <1>1, <1>2, <1>5 DEF AbstractLines, WholeLines

\* A write adds its line, if it completes it, and nothing otherwise.
LEMMA WriteAppends ==
    ASSUME Shape, Control, InProgress, Levels, Shape', Levels', NEW a \in Actors, Write(a)
    PROVE  /\ Here(a) \in Line /\ AbstractOpen /\ AbstractOpen'
           /\ AbstractLines' = AbstractLines \/ AbstractLines' = Append(AbstractLines, Here(a))
           /\ AbstractDurable' = AbstractDurable
<1>0. /\ file \in Seq(Piece) /\ Len(file) \in Nat /\ Parts \in Nat \ {0}
      /\ synced \in 0..Len(file)
  BY LenProperties, WriterAssumption DEF Shape, Levels
<1>1. pc[a] = "write" /\ crashed = "no" /\ UNCHANGED <<lifecycle, crashed, synced>>
  BY DEF Write, At, stateVars
<1>2. AbstractOpen /\ AbstractOpen'
  BY <1>1 DEF AbstractOpen, Control, ControlOf, Persisting
<1>3. Here(a) \in Line
  <2>1. KindOf(a) # "close" /\ delivery[a] \in 1..Deliveries(a)
    BY <1>1, DeliveriesType DEF Control, ControlOf, Persisting, Shape
  <2>2. a \in Runs \cup Events
    BY <2>1, Kinds DEF KindOf
  <2>. QED  BY <2>1, <2>2, HereIsLine DEF Here
<1>4. PICK n \in 0..(Parts - 1) : \E upto \in (n + 1)..Parts :
              /\ EndsWith(a, n)
              /\ Len(file') = Len(file) + (upto - n)
              /\ file' \in Seq(Piece)
              /\ \A i \in 1..Len(file) : file'[i] = file[i]
              /\ \A i \in (Len(file) + 1)..Len(file') :
                    file'[i] = [line |-> Here(a), part |-> i - (Len(file) - n)]
  BY Writing
<1>5. PICK upto \in (n + 1)..Parts :
              /\ Len(file') = Len(file) + (upto - n)
              /\ file' \in Seq(Piece)
              /\ \A i \in 1..Len(file) : file'[i] = file[i]
              /\ \A i \in (Len(file) + 1)..Len(file') :
                    file'[i] = [line |-> Here(a), part |-> i - (Len(file) - n)]
  BY <1>4
<1>6. /\ n \in Nat /\ upto \in Nat /\ n < upto /\ upto <= Parts
      /\ Len(file') \in Nat /\ Len(file) < Len(file') /\ Len(file) <= Len(file')
      /\ Len(file) <= Len(file) /\ Len(file') = Len(file) + (upto - n)
  BY <1>0, <1>5
<1>7. \A m \in 0..Len(file) : LinesOf(file')[m] = LinesOf(file)[m]
  BY <1>0, <1>5, <1>6, LinesAgree
<1>8. AbstractDurable' = AbstractDurable
  <2>1. AbstractDurable' = Len(LinesOf(file')[synced'])
    BY AbstractPrimed
  <2>2. LinesOf(file')[synced'] = LinesOf(file)[synced]
    BY <1>0, <1>1, <1>7
  <2>. QED  BY <2>1, <2>2, AbstractState
<1>9. ASSUME NEW i \in (Len(file) + 1)..Len(file')
      PROVE  /\ file'[i].line = Here(a) /\ file'[i].part = i - (Len(file) - n)
             /\ file'[i].part = Parts <=> i = Len(file') /\ upto = Parts
  <2>1. file'[i] = [line |-> Here(a), part |-> i - (Len(file) - n)]
    BY <1>5
  <2>2. file'[i].line = Here(a) /\ file'[i].part = i - (Len(file) - n)
    BY <2>1
  <2>3. i - (Len(file) - n) = Parts <=> i = Len(file') /\ upto = Parts
    BY <1>0, <1>6
  <2>. QED  BY <2>2, <2>3
<1>10. /\ LinesOf(file')[Len(file)] = AbstractLines
       /\ AbstractLines' = LinesOf(file')[Len(file')]
  <2>1. Len(file) \in 0..Len(file)
    BY <1>0
  <2>2. AbstractLines' = LinesOf(file')[Len(file')]
    BY AbstractPrimed
  <2>. QED  BY <1>7, <2>1, <2>2, AbstractState
<1>11. CASE upto # Parts
  <2>1. /\ Len(file) \in 0..Len(file')
        /\ \A i \in (Len(file) + 1)..Len(file') : file'[i].part # Parts
    BY <1>0, <1>6, <1>9, <1>11
  <2>2. LinesOf(file')[Len(file')] = LinesOf(file')[Len(file)]
    BY <1>5, <2>1, LinesRest
  <2>. QED  BY <1>2, <1>3, <1>8, <1>10, <2>2
<1>12. CASE upto = Parts
  <2>1. PICK last \in Nat : last = Len(file') - 1
    BY <1>0, <1>6
  <2>2. /\ Len(file') \in 1..Len(file') /\ Len(file') \in (Len(file) + 1)..Len(file')
        /\ last <= Len(file') /\ Len(file) \in 0..last /\ Len(file) <= last
    BY <1>0, <1>6, <2>1
  <2>3. LinesOf(file')[Len(file')] = Append(LinesOf(file')[last], Here(a))
    BY <1>5, <1>9, <1>12, <2>1, <2>2, LinesDefined
  <2>4. LinesOf(file')[last] = LinesOf(file')[Len(file)]
    <3> DEFINE s == SubSeq(file', 1, last)
    <3>1. \A i \in 1..last : i \in 1..Len(file')
      BY <1>6, <2>1, <2>2
    <3>2. /\ s \in Seq(Piece) /\ Len(s) = IF 1 <= last THEN last - 1 + 1 ELSE 0
          /\ \A i \in 1..(last - 1 + 1) : s[i] = file'[1 + i - 1]
      <4>1. PICK g : g = file'
        OBVIOUS
      <4>2. 1 \in Int /\ last \in Int /\ \A i \in 1..last : g[i] \in Piece
        <5>1. \A i \in 1..Len(file') : file'[i] \in Piece
          BY <1>5, ElementOfSeq
        <5>. QED  BY <3>1, <4>1, <5>1
      <4>3. /\ SubSeq(g, 1, last) \in Seq(Piece)
            /\ Len(SubSeq(g, 1, last)) = IF 1 <= last THEN last - 1 + 1 ELSE 0
            /\ \A i \in 1..(last - 1 + 1) : SubSeq(g, 1, last)[i] = g[1 + i - 1]
        BY <4>2, SubSeqProperties
      <4>. QED  BY <4>1, <4>3
    <3>3. \A i \in 1..last : 1 + i - 1 = i /\ i \in 1..(last - 1 + 1)
      BY <2>1
    <3>4. Len(s) = last /\ \A i \in 1..last : s[i] = file'[i]
      <4>1. Len(s) = last
        BY <2>1, <3>2
      <4>2. \A i \in 1..last : s[i] = file'[i]
        BY <3>2, <3>3
      <4>. QED  BY <4>1, <4>2
    <3> HIDE DEF s
    <3>9. last <= Len(s) /\ last \in Nat
      BY <2>1, <3>4
    <3>5. \A m \in 0..last : LinesOf(s)[m] = LinesOf(file')[m]
      BY <1>5, <2>2, <3>2, <3>4, <3>9, LinesAgree
    <3>6. \A i \in (Len(file) + 1)..Len(s) : s[i].part # Parts
      <4>1. ASSUME NEW i \in (Len(file) + 1)..Len(s) PROVE s[i].part # Parts
        <5>1. i \in 1..last /\ i \in (Len(file) + 1)..Len(file') /\ i # Len(file')
          BY <1>0, <1>6, <2>1, <3>4
        <5>. QED  BY <1>9, <3>4, <5>1
      <4>. QED  BY <4>1
    <3>7. LinesOf(s)[Len(s)] = LinesOf(s)[Len(file)]
      BY <2>2, <3>2, <3>4, <3>6, LinesRest
    <3>8. last \in 0..last
      BY <2>1
    <3>. QED  BY <2>2, <3>4, <3>5, <3>7, <3>8
  <2>. QED  BY <1>2, <1>3, <1>8, <1>10, <2>3, <2>4
<1>. QED  BY <1>11, <1>12

\* A crash keeps a beginning of the log, and what storage holds of it.
LEMMA CrashCuts ==
    ASSUME Shape, Levels, Shape', Levels', Crash
    PROVE  /\ ~AbstractOpen' /\ AbstractDurable' = AbstractDurable
           /\ \E kept \in AbstractDurable..Len(AbstractLines) :
                 AbstractLines' = SubSeq(AbstractLines, 1, kept)
<1>0. file \in Seq(Piece) /\ Len(file) \in Nat /\ synced \in Nat
  BY LenProperties DEF Shape
<1>1. /\ file' \in Seq(Piece) /\ Len(file') <= Len(file) /\ Len(file') \in Nat
      /\ \A i \in 1..Len(file') : file'[i] = file[i]
      /\ crashed' # "no" /\ synced <= Len(file') /\ synced' = synced
  BY Cutting DEF Crash
<1>2. Len(file') <= Len(file')
  BY <1>1
<1>3. \A n \in 0..Len(file') : LinesOf(file')[n] = LinesOf(file)[n]
  BY <1>0, <1>1, <1>2, LinesAgree
<1>4. /\ synced \in 0..Len(file') /\ synced \in 0..Len(file) /\ Len(file') \in 0..Len(file')
      /\ Len(file') \in 0..Len(file) /\ Len(file') \in synced..Len(file)
      /\ Len(file) \in Len(file')..Len(file)
  BY <1>0, <1>1
<1>5. AbstractDurable' = AbstractDurable
  <2>1. AbstractDurable' = Len(LinesOf(file')[synced'])
    BY AbstractPrimed
  <2>2. LinesOf(file')[synced'] = LinesOf(file)[synced]
    BY <1>1, <1>3, <1>4
  <2>. QED  BY <2>1, <2>2, AbstractState
<1>6. AbstractLines' = LinesOf(file)[Len(file')]
  <2>1. AbstractLines' = LinesOf(file')[Len(file')]
    BY AbstractPrimed
  <2>. QED  BY <1>3, <1>4, <2>1
<1>7. PICK kept : kept = Len(LinesOf(file)[Len(file')])
  OBVIOUS
<1>8. /\ kept \in Nat /\ kept <= Len(AbstractLines)
      /\ AbstractLines' = SubSeq(AbstractLines, 1, kept)
  <2>1. /\ kept \in Nat /\ kept <= Len(LinesOf(file)[Len(file)])
        /\ LinesOf(file)[Len(file')] = SubSeq(LinesOf(file)[Len(file)], 1, kept)
    BY <1>0, <1>4, <1>7, LinesGrow
  <2>. QED  BY <1>6, <2>1, AbstractState
<1>9. AbstractDurable <= kept
  <2>1. Len(LinesOf(file)[synced]) <= kept
    BY <1>0, <1>4, <1>7, LinesGrow
  <2>. QED  BY <2>1, AbstractState
<1>10. kept \in AbstractDurable..Len(AbstractLines)
  <2>1. AbstractDurable \in Nat /\ Len(AbstractLines) \in Nat
    BY AbstractState, LenProperties
  <2>. QED  BY <1>8, <1>9, <2>1
<1>11. ~AbstractOpen'
  BY <1>1 DEF AbstractOpen
<1>. QED  BY <1>5, <1>8, <1>10, <1>11

\* The initial file is the empty log.
LEMMA InitRefines == Init => AbstractLog!LogInit
<1> SUFFICES ASSUME Init PROVE AbstractLog!LogInit
  OBVIOUS
<1>1. file = <<>> /\ synced = 0 /\ lifecycle = "active" /\ crashed = "no"
  BY DEF Init
<1>2. <<>> \in Seq(Piece) /\ Len(<<>>) = 0 /\ 0 \in 0..0
  OBVIOUS
<1>3. LinesOf(<<>>)[0] = <<>>
  BY <1>2, LinesDefined
<1>4. WholeLines(file) = <<>>
  BY <1>1, <1>2, <1>3 DEF WholeLines
<1>5. WholeLines(SubSeq(file, 1, synced)) = <<>>
  BY <1>1, <1>2, <1>3, DurableLines
<1>6. Len(WholeLines(SubSeq(file, 1, synced))) = 0
  BY <1>2, <1>5
<1>7. (lifecycle = "active" /\ crashed = "no") = TRUE
  BY <1>1
<1>. QED  BY <1>4, <1>6, <1>7 DEF AbstractLog!LogInit

\* Every step of the writer is one of the log, or none.
LEMMA StepRefines ==
    ASSUME IInv, IInv', Next
    PROVE  [AbstractLog!LogNext]_(AbstractLog!logVars)
<1> DEFINE Goal == [AbstractLog!LogNext]_(AbstractLog!logVars)
<1>0. /\ Shape /\ Control /\ InProgress /\ Levels /\ Shape' /\ Levels'
      /\ Len(file) \in Nat
  BY LenProperties DEF IInv, Shape
<1>1. ASSUME AbstractLines' = AbstractLines, AbstractDurable' = AbstractDurable,
             AbstractOpen' = AbstractOpen
      PROVE  Goal
  BY <1>1 DEF AbstractLog!logVars, AbstractLines, AbstractDurable, AbstractOpen
<1>2. ASSUME NEW line \in Line, AbstractOpen, AbstractLines' = Append(AbstractLines, line),
             AbstractDurable' = AbstractDurable, AbstractOpen' = AbstractOpen
      PROVE  Goal
  <2>1. AbstractLog!Append1(line)
    BY <1>2 DEF AbstractLog!Append1, AbstractLines, AbstractDurable, AbstractOpen
  <2>. QED  BY <2>1 DEF AbstractLog!LogNext
<1>3. ASSUME AbstractOpen, AbstractLines' = AbstractLines,
             AbstractDurable' = Len(AbstractLines), AbstractOpen' = AbstractOpen
      PROVE  Goal
  <2>1. AbstractLog!Synchronize
    BY <1>3 DEF AbstractLog!Synchronize, AbstractLines, AbstractDurable, AbstractOpen
  <2>. QED  BY <2>1 DEF AbstractLog!LogNext
<1>4. ASSUME AbstractOpen, AbstractLines' = AbstractLines, AbstractDurable' = AbstractDurable,
             AbstractOpen' = FALSE
      PROVE  Goal
  <2>1. AbstractLog!Disable
    BY <1>4 DEF AbstractLog!Disable, AbstractLines, AbstractDurable, AbstractOpen
  <2>. QED  BY <2>1 DEF AbstractLog!LogNext
<1>5. ASSUME NEW kept \in AbstractDurable..Len(AbstractLines),
             AbstractLines' = SubSeq(AbstractLines, 1, kept),
             AbstractDurable' = AbstractDurable, AbstractOpen' = FALSE
      PROVE  Goal
  <2>1. AbstractLog!CrashLog
    BY <1>5 DEF AbstractLog!CrashLog, AbstractLines, AbstractDurable, AbstractOpen
  <2>. QED  BY <2>1 DEF AbstractLog!LogNext
<1> HIDE DEF Goal
<1>6. ASSUME UNCHANGED file
      PROVE  /\ AbstractLines' = AbstractLines
             /\ synced' = synced => AbstractDurable' = AbstractDurable
             /\ synced' = Len(file) => AbstractDurable' = Len(AbstractLines)
  <2>1. AbstractLines' = AbstractLines
    BY <1>6 DEF AbstractLines
  <2>2. AbstractDurable' = Len(LinesOf(file)[synced'])
    BY <1>0, <1>6, AbstractPrimed
  <2>. QED  BY <1>0, <2>1, <2>2, AbstractState
<1>7. ASSUME UNCHANGED <<lifecycle, crashed>> PROVE AbstractOpen' = AbstractOpen
  BY <1>7 DEF AbstractOpen
<1>8. ASSUME NEW a \in Actors, Write(a) PROVE Goal
  <2>1. /\ Here(a) \in Line /\ AbstractOpen
        /\ AbstractLines' = AbstractLines \/ AbstractLines' = Append(AbstractLines, Here(a))
        /\ AbstractDurable' = AbstractDurable
    BY <1>0, <1>8, WriteAppends
  <2>2. AbstractOpen' = AbstractOpen
    BY <1>7, <1>8 DEF Write, stateVars
  <2>. QED  BY <1>1, <1>2, <2>1, <2>2
<1>9. ASSUME NEW a \in Actors, UNCHANGED <<file, synced, lifecycle, crashed>> PROVE Goal
  BY <1>1, <1>6, <1>7, <1>9
<1>10. ASSUME NEW a \in Actors, Acknowledges(a) PROVE Goal
  <2>1. /\ UNCHANGED <<file, lifecycle, crashed>> /\ synced' \in {synced, Len(file)}
        /\ crashed = "no" /\ pc[a] \in Persisting
    BY <1>10 DEF Acknowledges, Persisting
  <2>2. AbstractOpen /\ AbstractOpen' = AbstractOpen
    BY <1>0, <1>7, <2>1 DEF AbstractOpen, Control, ControlOf
  <2>3. CASE synced' = synced
    BY <1>9, <2>1, <2>3
  <2>4. CASE synced' = Len(file)
    BY <1>3, <1>6, <2>1, <2>2, <2>4
  <2>. QED  BY <2>1, <2>3, <2>4
<1>11. ASSUME NEW a \in Actors, UNCHANGED <<file, synced>>, crashed = "no", lifecycle' # "active",
              crashed' = "no"
       PROVE  Goal
  <2>1. AbstractLines' = AbstractLines /\ AbstractDurable' = AbstractDurable
    BY <1>6, <1>11
  <2>2. AbstractOpen' = FALSE
    BY <1>11 DEF AbstractOpen
  <2>3. CASE AbstractOpen
    BY <1>4, <2>1, <2>2, <2>3
  <2>4. CASE ~AbstractOpen
    <3>1. AbstractOpen' = AbstractOpen
      BY <2>2, <2>4 DEF AbstractOpen
    <3>. QED  BY <1>1, <2>1, <3>1
  <2>. QED  BY <2>3, <2>4
<1>12. ASSUME NEW a \in Actors, PersistFails(a) \/ CloseFile(a) PROVE Goal
  <2>1. /\ UNCHANGED <<file, synced>> /\ crashed = "no" /\ crashed' = "no"
        /\ lifecycle' \in {"failed", "closed"}
    BY <1>12 DEF PersistFails, CloseFile, At, streamVars
  <2>. QED  BY <1>11, <2>1
<1>13. ASSUME NEW a \in Actors, CloseSync(a) PROVE Goal
  <2>1. /\ UNCHANGED <<file, crashed>> /\ crashed = "no" /\ lifecycle = "active"
        /\ \/ synced' = Len(file) /\ UNCHANGED lifecycle
           \/ lifecycle' = "failed" /\ UNCHANGED synced
    BY <1>0, <1>13 DEF CloseSync, At, Control, ControlOf
  <2>2. CASE synced' = Len(file) /\ UNCHANGED lifecycle
    <3>1. AbstractOpen /\ AbstractOpen' = AbstractOpen
      BY <1>7, <2>1, <2>2 DEF AbstractOpen
    <3>. QED  BY <1>3, <1>6, <2>1, <2>2, <3>1
  <2>3. CASE lifecycle' = "failed" /\ UNCHANGED synced
    BY <1>11, <2>1, <2>3
  <2>. QED  BY <2>1, <2>2, <2>3
<1>14. ASSUME NEW a \in Actors, Form(a) PROVE Goal
  <2>1. \/ UNCHANGED <<file, synced, lifecycle, crashed>>
        \/ Write(a) \/ Acknowledges(a) \/ PersistFails(a) \/ CloseSync(a) \/ CloseFile(a)
    BY <1>14 DEF Form, Answers, Begins, FlushesEnd, Escape, stateVars, streamVars
  <2>. QED  BY <1>8, <1>9, <1>10, <1>12, <1>13, <1>14, <2>1
<1>15. ASSUME Crash PROVE Goal
  <2>1. /\ ~AbstractOpen' /\ AbstractDurable' = AbstractDurable
        /\ \E kept \in AbstractDurable..Len(AbstractLines) :
              AbstractLines' = SubSeq(AbstractLines, 1, kept)
    BY <1>0, <1>15, CrashCuts
  <2>2. AbstractOpen' = FALSE
    BY <2>1 DEF AbstractOpen
  <2>3. PICK kept \in AbstractDurable..Len(AbstractLines) :
           AbstractLines' = SubSeq(AbstractLines, 1, kept)
    BY <2>1
  <2>4. AbstractDurable' = AbstractDurable
    BY <2>1
  <2>. QED  BY <1>5, <2>2, <2>3, <2>4
<1>16. Goal
  <2>1. (\E a \in Actors : Form(a)) \/ Crash
    BY <1>0, StepForms
  <2>. QED  BY <1>14, <1>15, <2>1
<1>. QED  BY <1>16 DEF Goal

\* The file is an append-only log of whole lines: a write that completes its
\* line appends it, a synchronization stores what is there, nothing is added
\* once the writer failed or was closed, and a crash takes only what was not
\* stored.  The steps between are none of the log.
THEOREM Refinement == Spec => RefinesAppendLog
<1>1. Init => AbstractLog!LogInit
  BY InitRefines
<1>2. IInv /\ IInv' /\ [Next]_vars => [AbstractLog!LogNext]_(AbstractLog!logVars)
  <2>1. CASE IInv /\ IInv' /\ Next
    BY <2>1, StepRefines
  <2>2. CASE UNCHANGED vars
    BY <2>2 DEF vars, stateVars, callVars, streamVars, AbstractLog!logVars
  <2>. QED  BY <2>1, <2>2
<1>. QED
  BY <1>1, <1>2, Invariance, PTL DEF Spec, RefinesAppendLog, AbstractLog!LogSpec

-----------------------------------------------------------------------------
(***************************************************************************)
(* Nothing is lost in silence: a Run's errors count its missing lines.     *)
(***************************************************************************)

\* The errors the result of a Run has of the writer, and the calls of the
\* writer that did not return success.
ToldOf(r, callback) ==
    {i \in DOMAIN errors[r] : errors[r][i] = [callback |-> callback, observer |-> "log"]}

MissedOf(r, kind) ==
    {d \in DOMAIN results[r] : Kind(r, d) = kind /\ Observer(r, d) = "log" /\ results[r][d] # "ok"}

EvidenceCounted ==
    \A r \in Runs : \A kind \in {"start", "end"} :
        Cardinality(ToldOf(r, kind)) = Cardinality(MissedOf(r, kind))

\* Both are finite.
LEMMA EvidenceFinite ==
    ASSUME Shape, NEW r \in Runs, NEW kind
    PROVE  IsFiniteSet(ToldOf(r, kind)) /\ IsFiniteSet(MissedOf(r, kind))
<1>1. /\ DOMAIN errors[r] = 1..Len(errors[r]) /\ Len(errors[r]) \in Nat
      /\ DOMAIN results[r] = 1..Len(results[r]) /\ Len(results[r]) \in Nat
  BY LenProperties DEF Shape, Actors
<1>2. IsFiniteSet(1..Len(errors[r])) /\ IsFiniteSet(1..Len(results[r]))
  <2>1. 1 \in Int /\ Len(errors[r]) \in Int /\ Len(results[r]) \in Int
    BY <1>1
  <2>. QED  BY <2>1, FS_Interval
<1>3. ToldOf(r, kind) \subseteq 1..Len(errors[r]) /\ MissedOf(r, kind) \subseteq 1..Len(results[r])
  BY <1>1 DEF ToldOf, MissedOf
<1>. QED  BY <1>2, <1>3, FS_Subset

\* A call of the writer that fails adds one error of its kind and observer,
\* and any other return adds to neither.
LEMMA EvidenceReturning ==
    ASSUME Shape, Control, EvidenceCounted, NEW a \in Actors, pc[a] # "done",
           NEW result \in Results, Returns(a, result)
    PROVE  EvidenceCounted'
<1>1. ASSUME NEW r \in Runs, NEW kind \in {"start", "end"}
      PROVE  Cardinality(ToldOf(r, kind)') = Cardinality(MissedOf(r, kind)')
  <2>0. /\ errors \in [Runs -> Seq(Error)] /\ results \in [Actors -> Seq(Results)]
        /\ r \in Actors /\ errors[r] \in Seq(Error) /\ Len(errors[r]) \in Nat
    BY LenProperties DEF Shape, Actors
  <2>1. errors' = [errors EXCEPT ![a] = Contains(a, result)]
    BY DEF Returns
  <2>2. Cardinality(ToldOf(r, kind)) = Cardinality(MissedOf(r, kind))
    BY DEF EvidenceCounted
  <2>3. CASE r # a
    <3>1. errors'[r] = errors[r] /\ results'[r] = results[r]
      BY <2>0, <2>1, <2>3, Returning
    <3>. QED  BY <2>2, <3>1 DEF ToldOf, MissedOf
  <2>4. CASE r = a
    <3> DEFINE error == [callback |-> KindOf(a), observer |-> Observer(a, delivery[a])]
               missed == KindOf(a) = kind /\ Observer(a, delivery[a]) = "log" /\ result # "ok"
    <3>1. /\ Len(results'[a]) = delivery[a] /\ Len(results[a]) = delivery[a] - 1
          /\ results' \in [Actors -> Seq(Results)] /\ delivery[a] \in Nat \ {0}
          /\ \A d, x : Returned(a, d, x)' <=> Returned(a, d, x) \/ (d = delivery[a] /\ x = result)
      BY Returning DEF Shape
    <3>2. /\ DOMAIN results'[a] = 1..delivery[a] /\ DOMAIN results[a] = 1..(delivery[a] - 1)
      BY <2>0, <3>1, LenProperties
    <3>3. /\ results'[a][delivery[a]] = result
          /\ \A d \in 1..(delivery[a] - 1) : results'[a][d] = results[a][d]
      <4>1. results'[a][delivery[a]] = result
        <5>1. PICK last : last = delivery[a]
          OBVIOUS
        <5>2. Returned(a, last, result)'
          BY <3>1, <5>1
        <5>. QED  BY <5>1, <5>2 DEF Returned
      <4>2. ASSUME NEW d \in 1..(delivery[a] - 1) PROVE results'[a][d] = results[a][d]
        <5>1. Returned(a, d, results[a][d])
          BY <3>2 DEF Returned
        <5>2. PICK x : x = results[a][d]
          OBVIOUS
        <5>3. Returned(a, d, x)'
          BY <3>1, <5>1, <5>2
        <5>. QED  BY <5>2, <5>3 DEF Returned
      <4>. QED  BY <4>1, <4>2
    <3>4. MissedOf(a, kind)' = IF missed THEN MissedOf(a, kind) \cup {delivery[a]}
                               ELSE MissedOf(a, kind)
      <4>1. \A d \in 1..delivery[a] : d \in 1..(delivery[a] - 1) \/ d = delivery[a]
        BY <3>1
      <4>2. \A d \in 1..(delivery[a] - 1) : d \in 1..delivery[a]
        BY <3>1
      <4>3. delivery[a] \in 1..delivery[a]
        BY <3>1
      <4>. QED  BY <3>2, <3>3, <4>1, <4>2, <4>3 DEF MissedOf, KindOf
    <3>5. delivery[a] \notin MissedOf(a, kind)
      BY <3>1, <3>2 DEF MissedOf
    <3>6. errors'[a] = IF result # "ok" THEN Append(errors[a], error) ELSE errors[a]
      BY <2>0, <2>1, <2>4 DEF Contains
    <3>7. DOMAIN errors[a] = 1..Len(errors[a])
      BY <2>0, <2>4, LenProperties
    <3>8. ToldOf(a, kind)' = IF missed THEN ToldOf(a, kind) \cup {Len(errors[a]) + 1}
                             ELSE ToldOf(a, kind)
      <4>1. CASE result = "ok"
        BY <3>6, <4>1 DEF ToldOf
      <4>2. CASE result # "ok"
        <5>1. errors'[a] = Append(errors[a], error)
          BY <3>6, <4>2
        <5>2. /\ DOMAIN Append(errors[a], error) = 1..(Len(errors[a]) + 1)
              /\ \A i \in 1..Len(errors[a]) : Append(errors[a], error)[i] = errors[a][i]
              /\ Append(errors[a], error)[Len(errors[a]) + 1] = error
          BY <2>0, <2>4
        <5>3. error = [callback |-> kind, observer |-> "log"] <=> missed
          BY <4>2
        <5>4. /\ \A i \in 1..(Len(errors[a]) + 1) : i \in 1..Len(errors[a]) \/ i = Len(errors[a]) + 1
              /\ \A i \in 1..Len(errors[a]) : i \in 1..(Len(errors[a]) + 1)
              /\ Len(errors[a]) + 1 \in 1..(Len(errors[a]) + 1)
          BY <2>0, <2>4
        <5> HIDE DEF error, missed
        <5>. QED  BY <3>7, <5>1, <5>2, <5>3, <5>4 DEF ToldOf
      <4>. QED  BY <4>1, <4>2
    <3>9. Len(errors[a]) + 1 \notin ToldOf(a, kind)
      BY <2>0, <2>4, <3>7 DEF ToldOf
    <3>10. IsFiniteSet(ToldOf(a, kind)) /\ IsFiniteSet(MissedOf(a, kind))
      BY <2>4, EvidenceFinite
    <3> HIDE DEF missed, error
    <3>11. CASE missed
      <4>1. Cardinality(ToldOf(a, kind)') = Cardinality(ToldOf(a, kind)) + 1
        BY <3>8, <3>9, <3>10, <3>11, FS_AddElement
      <4>2. Cardinality(MissedOf(a, kind)') = Cardinality(MissedOf(a, kind)) + 1
        BY <3>4, <3>5, <3>10, <3>11, FS_AddElement
      <4>. QED  BY <2>2, <2>4, <4>1, <4>2
    <3>12. CASE ~missed
      BY <2>2, <2>4, <3>4, <3>8, <3>12
    <3>. QED  BY <3>11, <3>12
  <2>. QED  BY <2>3, <2>4
<1>. QED  BY <1>1 DEF EvidenceCounted

\* The errors of a Run count the calls of the writer that failed, always.
LEMMA EvidenceAlways == Spec => []EvidenceCounted
<1>1. Init => EvidenceCounted
  <2>1. ASSUME Init, NEW r \in Runs, NEW kind
        PROVE  ToldOf(r, kind) = {} /\ MissedOf(r, kind) = {}
    <3>1. errors[r] = <<>> /\ results[r] = <<>> /\ DOMAIN <<>> = {}
      BY <2>1 DEF Init, Actors
    <3>. QED  BY <3>1 DEF ToldOf, MissedOf
  <2>. QED  BY <2>1 DEF EvidenceCounted
<1>2. IInv /\ EvidenceCounted /\ [Next]_vars => EvidenceCounted'
  <2> SUFFICES ASSUME IInv, EvidenceCounted, [Next]_vars PROVE EvidenceCounted'
    OBVIOUS
  <2>1. ASSUME UNCHANGED <<errors, results>> PROVE EvidenceCounted'
    <3>1. ASSUME NEW r \in Runs, NEW kind \in {"start", "end"}
          PROVE  Cardinality(ToldOf(r, kind)') = Cardinality(MissedOf(r, kind)')
      <4>1. ToldOf(r, kind)' = ToldOf(r, kind) /\ MissedOf(r, kind)' = MissedOf(r, kind)
        BY <2>1 DEF ToldOf, MissedOf
      <4>. QED  BY <4>1 DEF EvidenceCounted
    <3>. QED  BY <3>1 DEF EvidenceCounted
  <2>2. CASE Next
    <3>1. Shape /\ Control /\ InProgress
      BY DEF IInv
    <3>2. ASSUME NEW a \in Actors, Form(a) PROVE EvidenceCounted'
      <4>1. CASE pc[a] # "done" /\ \E result \in Results : Returns(a, result)
        BY <3>1, <4>1, EvidenceReturning
      <4>2. CASE UNCHANGED <<delivery, results, errors>>
        BY <2>1, <4>2
      <4>. QED  BY <3>1, <3>2, <4>1, <4>2, Effects
    <3>3. ASSUME Crash PROVE EvidenceCounted'
      BY <2>1, <3>3 DEF Crash, callVars
    <3>. QED  BY <2>2, <3>1, <3>2, <3>3, StepForms
  <2>3. CASE UNCHANGED vars
    BY <2>1, <2>3 DEF vars, callVars
  <2>. QED  BY <2>2, <2>3
<1>. QED  BY <1>1, <1>2, Invariance, PTL DEF Spec

\* A Run whose result is out, on a machine that is up, misses no start and no
\* end of the file that its errors do not name, slot by slot: what the writer
\* returned to the Run as success is in the file.
THEOREM MissingTold == Spec => []MissingEvidenceTold
<1>1. ASSUME IInv, EvidenceCounted PROVE MissingEvidenceTold
  <2> SUFFICES ASSUME NEW r \in Runs, pc[r] = "done", crashed = "no"
               PROVE  LET Lines(kind) == {d \in 1..Deliveries(r) : Kind(r, d) = kind /\ InFile(<<r, d>>)}
                          LogSlots == {i \in DOMAIN Slots[r] : Slots[r][i] = "log"}
                      IN  /\ LogSlots # {} /\ Lines("start") = {} =>
                                Cardinality(ToldOf(r, "start")) = Cardinality(LogSlots)
                          /\ Cardinality(Lines("end")) >=
                                Cardinality(LogSlots) - Cardinality(ToldOf(r, "end"))
    BY DEF MissingEvidenceTold, ToldOf
  <2> DEFINE Lines(kind) == {d \in 1..Deliveries(r) : Kind(r, d) = kind /\ InFile(<<r, d>>)}
             LogSlots == {i \in DOMAIN Slots[r] : Slots[r][i] = "log"}
             Slot == Len(Slots[r])
  <2>0. Shape /\ Control /\ ReturnedStored /\ r \in Actors
    BY <1>1 DEF IInv, Actors
  <2>1. /\ Slot \in Nat \ {0} /\ Deliveries(r) = 2 * Slot /\ DOMAIN Slots[r] = 1..Slot
        /\ \A d \in 1..Slot : d \in 1..Deliveries(r)
    <3>1. Slot \in Nat \ {0} /\ Deliveries(r) = 2 * Slot
      BY DeliveriesType
    <3>2. Slots[r] \in Seq({"log", "quiet", "failing"})
      BY WriterAssumption
    <3>. QED  BY <3>1, <3>2, LenProperties
  <2>2. DOMAIN results[r] = 1..Deliveries(r)
    <3>1. Len(results[r]) = Deliveries(r) /\ results[r] \in Seq(Results)
      BY <2>0 DEF Control, ControlOf, Shape
    <3>. QED  BY <3>1, LenProperties
  <2>3. ASSUME NEW d \in 1..Deliveries(r)
        PROVE  /\ Kind(r, d) = "start" <=> d <= Slot
               /\ Kind(r, d) = "end" <=> d > Slot
               /\ d <= Slot => Observer(r, d) = Slots[r][d]
               /\ d > Slot => Observer(r, d) = Slots[r][d - Slot]
    <3>1. /\ Kind(r, d) = "start" <=> d <= Slot
          /\ Kind(r, d) = "end" <=> d > Slot
      BY <2>0, Kinds
    <3>2. ~(d <= Slot /\ d > Slot)
      BY <2>1
    <3>. QED  BY <3>1, <3>2 DEF Observer
  <2>4. ASSUME NEW d \in 1..Deliveries(r), Observer(r, d) = "log", results[r][d] = "ok"
        PROVE  /\ Kind(r, d) = "end" => InFile(<<r, d>>)
               /\ Kind(r, d) = "start" => \E e \in 1..d : InFile(<<r, e>>)
    <3>1. Returned(r, d, "ok")
      BY <2>2, <2>4 DEF Returned
    <3>2. /\ Kind(r, d) = "end" => Stored(<<r, d>>, synced)
          /\ Kind(r, d) = "start" => \E e \in 1..d : Stored(<<r, e>>, flushed)
      BY <2>0, <2>4, <3>1 DEF ReturnedStored
    <3>3. \A e, n : Stored(<<r, e>>, n) => InFile(<<r, e>>)
      BY <2>0, StoredInFile
    <3>. QED  BY <3>2, <3>3
  <2>5. ASSUME Lines("start") = {}
        PROVE  Cardinality(ToldOf(r, "start")) = Cardinality(LogSlots)
    <3>1. ASSUME NEW d \in 1..Slot, Slots[r][d] = "log" PROVE results[r][d] # "ok"
      <4>1. d \in 1..Deliveries(r) /\ d <= Slot /\ d \in Nat
        BY <2>1
      <4>2. Kind(r, d) = "start" /\ Observer(r, d) = "log"
        BY <2>3, <3>1, <4>1
      <4>3. ASSUME NEW e \in 1..d PROVE ~InFile(<<r, e>>)
        <5>1. e \in 1..Slot
          BY <2>1, <4>1
        <5>2. e \in 1..Deliveries(r) /\ e <= Slot
          BY <2>1, <5>1
        <5>3. Kind(r, e) = "start"
          BY <2>3, <5>2
        <5>. QED  BY <2>5, <5>2, <5>3
      <4>. QED  BY <2>4, <4>1, <4>2, <4>3
    <3>2. MissedOf(r, "start") = LogSlots
      <4>1. ASSUME NEW d \in MissedOf(r, "start") PROVE d \in LogSlots
        <5>1. d \in 1..Deliveries(r) /\ Kind(r, d) = "start" /\ Observer(r, d) = "log"
          BY <2>2 DEF MissedOf
        <5>2. d <= Slot /\ Slots[r][d] = "log"
          BY <2>3, <5>1
        <5>3. d \in 1..Slot
          BY <2>1, <5>1, <5>2
        <5>. QED  BY <2>1, <5>2, <5>3
      <4>2. ASSUME NEW d \in LogSlots PROVE d \in MissedOf(r, "start")
        <5>1. d \in 1..Slot /\ Slots[r][d] = "log"
          BY <2>1
        <5>2. d \in 1..Deliveries(r) /\ d <= Slot
          BY <2>1, <5>1
        <5>3. Kind(r, d) = "start" /\ Observer(r, d) = "log"
          BY <2>3, <5>1, <5>2
        <5>4. results[r][d] # "ok"
          BY <3>1, <5>1
        <5>. QED  BY <2>2, <5>2, <5>3, <5>4 DEF MissedOf
      <4>. QED  BY <4>1, <4>2
    <3>. QED  BY <1>1, <3>2 DEF EvidenceCounted
  <2>6. Cardinality(Lines("end")) >= Cardinality(LogSlots) - Cardinality(ToldOf(r, "end"))
    <3> DEFINE Ends == {d \in (Slot + 1)..(2 * Slot) : Slots[r][d - Slot] = "log"}
    <3>1. IsFiniteSet(Ends) /\ IsFiniteSet(Lines("end")) /\ IsFiniteSet(MissedOf(r, "end"))
            /\ IsFiniteSet(LogSlots)
      <4>1. /\ IsFiniteSet((Slot + 1)..(2 * Slot)) /\ IsFiniteSet(1..(2 * Slot))
            /\ IsFiniteSet(1..Slot)
        <5>1. 1 \in Int /\ Slot \in Int /\ Slot + 1 \in Int /\ 2 * Slot \in Int
          BY <2>1
        <5> HIDE DEF Slot
        <5>. QED  BY <5>1, FS_Interval
      <4>2. /\ Ends \subseteq (Slot + 1)..(2 * Slot) /\ Lines("end") \subseteq 1..(2 * Slot)
            /\ LogSlots \subseteq 1..Slot
        BY <2>1
      <4>3. IsFiniteSet(MissedOf(r, "end"))
        BY <2>0, EvidenceFinite
      <4> HIDE DEF Ends, Lines, LogSlots
      <4>. QED  BY <4>1, <4>2, <4>3, FS_Subset
    <3>2. Ends \subseteq Lines("end") \cup MissedOf(r, "end")
      <4>1. ASSUME NEW d \in Ends PROVE d \in Lines("end") \/ d \in MissedOf(r, "end")
        <5>1. d \in 1..Deliveries(r) /\ d > Slot /\ Slots[r][d - Slot] = "log"
          BY <2>1
        <5>2. Kind(r, d) = "end" /\ Observer(r, d) = "log"
          BY <2>3, <5>1
        <5>3. CASE results[r][d] = "ok"
          BY <2>4, <5>1, <5>2, <5>3
        <5>4. CASE results[r][d] # "ok"
          BY <2>2, <5>1, <5>2, <5>4 DEF MissedOf
        <5>. QED  BY <5>3, <5>4
      <4>. QED  BY <4>1
    <3>3. Cardinality(Ends) = Cardinality(LogSlots)
      <4> DEFINE f == [i \in LogSlots |-> Slot + i]
      <4>1. ASSUME NEW i \in LogSlots PROVE Slot + i \in Ends /\ i \in Nat
        <5>1. i \in 1..Slot /\ Slots[r][i] = "log" /\ Slot \in Nat
          BY <2>1
        <5>2. Slot + i \in (Slot + 1)..(2 * Slot) /\ (Slot + i) - Slot = i
          BY <5>1
        <5>. QED  BY <5>1, <5>2
      <4>2. ASSUME NEW d \in Ends PROVE \E i \in LogSlots : Slot + i = d
        <5>1. d - Slot \in 1..Slot /\ Slot + (d - Slot) = d
          BY <2>1
        <5>2. d - Slot \in LogSlots
          BY <2>1, <5>1
        <5>. QED  BY <5>1, <5>2
      <4>3. \A i, j \in LogSlots : Slot + i = Slot + j => i = j
        BY <2>1, <4>1
      <4>4. f \in Bijection(LogSlots, Ends)
        <5> HIDE DEF LogSlots, Ends
        <5>1. f \in [LogSlots -> Ends]
          BY <4>1
        <5>2. f \in Injection(LogSlots, Ends)
          BY <4>3, <5>1 DEF Injection, IsInjective
        <5>3. f \in Surjection(LogSlots, Ends)
          BY <4>2, <5>1 DEF Surjection
        <5>. QED  BY <5>2, <5>3 DEF Bijection
      <4>5. ExistsBijection(LogSlots, Ends)
        BY <4>4 DEF ExistsBijection
      <4> HIDE DEF LogSlots, Ends
      <4>. QED  BY <3>1, <4>5, FS_Bijection
    <3> HIDE DEF Ends, Lines, LogSlots
    <3>4. /\ IsFiniteSet(Lines("end") \cup MissedOf(r, "end"))
          /\ Cardinality(Lines("end") \cup MissedOf(r, "end")) <=
                Cardinality(Lines("end")) + Cardinality(MissedOf(r, "end"))
      <4>1. IsFiniteSet(Lines("end") \cap MissedOf(r, "end"))
        BY <3>1, FS_Intersection
      <4>2. /\ Cardinality(Lines("end")) \in Nat /\ Cardinality(MissedOf(r, "end")) \in Nat
            /\ Cardinality(Lines("end") \cap MissedOf(r, "end")) \in Nat
        BY <3>1, <4>1, FS_CardinalityType
      <4>3. /\ IsFiniteSet(Lines("end") \cup MissedOf(r, "end"))
            /\ Cardinality(Lines("end") \cup MissedOf(r, "end")) =
                  Cardinality(Lines("end")) + Cardinality(MissedOf(r, "end"))
                  - Cardinality(Lines("end") \cap MissedOf(r, "end"))
        BY <3>1, FS_Union
      <4>. QED  BY <4>2, <4>3
    <3>5. Cardinality(Ends) <= Cardinality(Lines("end") \cup MissedOf(r, "end"))
      BY <3>2, <3>4, FS_Subset
    <3>6. Cardinality(MissedOf(r, "end")) = Cardinality(ToldOf(r, "end"))
      BY <1>1 DEF EvidenceCounted
    <3>7. /\ Cardinality(Lines("end")) \in Nat /\ Cardinality(MissedOf(r, "end")) \in Nat
          /\ Cardinality(LogSlots) \in Nat
          /\ Cardinality(Lines("end") \cup MissedOf(r, "end")) \in Nat
      BY <3>1, <3>4, FS_CardinalityType
    <3>. QED  BY <3>3, <3>4, <3>5, <3>6, <3>7
  <2>. QED  BY <2>5, <2>6
<1>. QED  BY <1>1, Invariance, EvidenceAlways, PTL
=============================================================================
