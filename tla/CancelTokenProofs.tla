-------------------------- MODULE CancelTokenProofs --------------------------
(***************************************************************************)
(* Proofs about CancelToken, for any number of cancel calls and of racing  *)
(* awaits: no await sleeps through a request, all agree on its time, and a *)
(* token tripped in time starts no provider.                               *)
(***************************************************************************)
EXTENDS CancelToken, TLAPS

\* The token starts untripped and nobody has polled.
LEMMA InitIInv == Init => IInv
BY TokenAssumption DEF Init, IInv, TypeOK, OneNotification, ArmedInTime,
   OneRequestTime, TrippedAtOnce, UnstartedUntilPolled, Tripped, Racing, Committed

\* A cancel call keeps the invariant: only the winner of the OnceLock ever
\* reaches the notification.
LEMMA CancelStepIInv ==
    ASSUME IInv, NEW c \in Cancellers, CancelStep(c)
    PROVE  IInv'
<1> USE DEF IInv, cancelVars, evidence
<1>1. CASE CheckTripped(c)
  BY <1>1, TokenAssumption DEF CheckTripped, Moves, TypeOK, OneNotification,
     ArmedInTime, OneRequestTime, TrippedAtOnce, UnstartedUntilPolled, Tripped,
     Racing, Committed
<1>2. CASE Trip(c)
  <2>1. TypeOK'
    BY <1>2 DEF Trip, Moves, TypeOK
  <2>2. OneNotification'
    BY <1>2, TokenAssumption DEF Trip, Moves, TypeOK, OneNotification, Tripped
  <2>3. (OneRequestTime /\ TrippedAtOnce)'
    BY <1>2, TokenAssumption DEF Trip, Moves, TypeOK, OneRequestTime, TrippedAtOnce, Tripped
  <2>4. (ArmedInTime /\ UnstartedUntilPolled)'
    BY <1>2 DEF Trip, ArmedInTime, UnstartedUntilPolled, Committed
  <2> QED BY <2>1, <2>2, <2>3, <2>4
<1>3. CASE NotifyWaiters(c)
  <2>1. requested = c /\ generation = 0
    BY <1>3 DEF NotifyWaiters, OneNotification
  <2>2. TypeOK'
    BY <1>3, <2>1 DEF NotifyWaiters, Moves, TypeOK
  <2>3. OneNotification'
    BY <1>3, <2>1, TokenAssumption DEF NotifyWaiters, Moves, TypeOK, OneNotification, Tripped
  <2>4. (ArmedInTime /\ OneRequestTime /\ TrippedAtOnce /\ UnstartedUntilPolled)'
    BY <1>3, <2>1 DEF NotifyWaiters, TypeOK, ArmedInTime, OneRequestTime, TrippedAtOnce,
       UnstartedUntilPolled, Tripped, Committed
  <2> QED BY <2>2, <2>3, <2>4
<1> QED BY <1>1, <1>2, <1>3 DEF CancelStep

\* A read of the request time keeps the invariant, wherever the racer goes on
\* to: past the recheck it holds a ticket of before any notification.
LEMMA ReadsIInv ==
    ASSUME IInv, NEW r \in Racers, NEW place \in Racing, NEW next \in Racing,
           Reads(r, place, next),
           next \in Committed => place = "recheck"
    PROVE  IInv'
<1> USE DEF IInv, cancelVars, evidence
<1>1. UNCHANGED <<requested, generation, caller, ticket, provider, tripped>>
  BY DEF Reads
<1>2. \/ Tripped /\ observed' = [observed EXCEPT ![r] = requested]
         /\ racer' = [racer EXCEPT ![r] = "cancelled"]
      \/ ~Tripped /\ observed' = observed /\ racer' = [racer EXCEPT ![r] = next]
  BY DEF Reads, ReturnCancelled, Goes
<1>3. TypeOK'
  BY <1>1, <1>2 DEF TypeOK
<1>4. OneNotification'
  BY <1>1 DEF OneNotification, Tripped
<1>5. (ArmedInTime /\ OneRequestTime)'
  <2>1. ~Tripped => ticket[r] = 0
    <3>1. ticket[r] \in {0, 1} /\ ticket[r] <= generation
      BY DEF ArmedInTime, TypeOK
    <3> QED BY <3>1 DEF OneNotification
  <2> QED BY <1>1, <1>2, <2>1 DEF ArmedInTime, OneRequestTime, TypeOK, Committed
<1>6. (TrippedAtOnce /\ UnstartedUntilPolled)'
  BY <1>1, <1>2 DEF TrippedAtOnce, UnstartedUntilPolled, TypeOK, Tripped, Racing
<1> QED BY <1>3, <1>4, <1>5, <1>6

\* A poll of the select keeps the invariant.
LEMMA RacerStepIInv ==
    ASSUME IInv, NEW r \in Racers,
           PollStep(r) \/ Begin(r) \/ Answer(r) \/ SpuriousPoll(r)
    PROVE  IInv'
<1> USE DEF IInv, cancelVars, evidence
<1>1. CASE Check(r)
  BY <1>1, ReadsIInv DEF Check, Racing, Committed
<1>2. CASE Arm(r)
  BY <1>2 DEF Arm, Goes, TypeOK, OneNotification, ArmedInTime, OneRequestTime,
     TrippedAtOnce, UnstartedUntilPolled, Tripped, Racing, Committed
<1>3. CASE Recheck(r)
  BY <1>3, ReadsIInv DEF Recheck, Racing, Committed
<1>4. CASE PollNotified(r) \/ Wake(r) \/ SpuriousPoll(r)
  BY <1>4 DEF PollNotified, Wake, SpuriousPoll, Goes, TypeOK, OneNotification,
     ArmedInTime, OneRequestTime, TrippedAtOnce, UnstartedUntilPolled, Tripped,
     Racing, Committed, Notified
<1>5. CASE Woken(r)
  BY <1>5, ReadsIInv DEF Woken, Racing, Committed
<1>6. CASE PollProvider(r)
  BY <1>6 DEF PollProvider, Goes, TypeOK, OneNotification, ArmedInTime,
     OneRequestTime, TrippedAtOnce, UnstartedUntilPolled, Tripped, Racing, Committed
<1>7. CASE Begin(r)
  BY <1>7 DEF Begin, Goes, TypeOK, OneNotification, ArmedInTime, OneRequestTime,
     TrippedAtOnce, UnstartedUntilPolled, Tripped, Racing, Committed
<1>8. CASE Answer(r)
  BY <1>8 DEF Answer, TypeOK, OneNotification, ArmedInTime, OneRequestTime,
     TrippedAtOnce, UnstartedUntilPolled, Tripped, Racing, Committed
<1> QED BY <1>1, <1>2, <1>3, <1>4, <1>5, <1>6, <1>7, <1>8 DEF PollStep

\* The invariant holds of every reachable state.
THEOREM Invariance == Spec => []IInv
<1>1. IInv /\ [Next]_vars => IInv'
  <2> SUFFICES ASSUME IInv, [Next]_vars PROVE IInv'
    OBVIOUS
  <2>1. CASE Next
    BY <2>1, CancelStepIInv, RacerStepIInv DEF Next
  <2>2. CASE UNCHANGED vars
    BY <2>2 DEF vars, IInv, TypeOK, OneNotification, ArmedInTime, OneRequestTime,
       TrippedAtOnce, UnstartedUntilPolled, Tripped, Committed
  <2> QED BY <2>1, <2>2
<1> QED BY InitIInv, <1>1, PTL DEF Spec

\* Every variable keeps its shape, and notify_waiters is called at most once.
THEOREM TypeCorrect == Spec => []TypeOK
<1>1. IInv => TypeOK
  BY DEF IInv
<1> QED BY Invariance, <1>1, PTL

\* A racer that passed its recheck holds a ticket of generation 0; once the
\* request is recorded, the winner either has notified or is about to.
THEOREM NoWakeupIsLost == Spec => []NoLostWakeup
<1>1. IInv => NoLostWakeup
  BY DEF IInv, TypeOK, NoLostWakeup, OneNotification, ArmedInTime, Committed, Notified
<1> QED BY Invariance, <1>1, PTL

\* All awaits cancelled by one token return the same request time.
THEOREM RequestTimesAgree == Spec => []OneRequestTime
<1>1. IInv => OneRequestTime
  BY DEF IInv
<1> QED BY Invariance, <1>1, PTL

\* A token tripped before the await begins starts no provider.
THEOREM NoInvokeOnceTripped == Spec => []TrippedNeverInvokes
<1>1. IInv => TrippedNeverInvokes
  BY DEF IInv, TrippedAtOnce, TrippedNeverInvokes
<1> QED BY Invariance, <1>1, PTL

=============================================================================
