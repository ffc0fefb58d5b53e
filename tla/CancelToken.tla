----------------------------- MODULE CancelToken -----------------------------
(***************************************************************************)
(* The cooperative cancellation token of a Run, and the provider awaits    *)
(* that race it.                                                           *)
(*                                                                         *)
(* Any thread may call cancel: the first request time wins a OnceLock, and *)
(* only the winner notifies.  A racer is one invoke_model call: a biased   *)
(* select that polls the token's cancelled() future first and the provider *)
(* second, and parks when both are pending.  A Notify wake-up reaches the  *)
(* futures created before it, whether or not they are being polled.        *)
(*                                                                         *)
(* A request time is abstracted to the call that sampled it.               *)
(***************************************************************************)
EXTENDS Naturals

CONSTANTS
    Cancellers,  \* calls of CancelToken::cancel
    Racers,      \* provider awaits racing the token
    NoRequest    \* requested_at is unset

ASSUME TokenAssumption == NoRequest \notin Cancellers

VARIABLES
    requested,   \* CancelInner.requested_at
    generation,  \* CancelInner.notify: how often notify_waiters was called
    caller,      \* where each cancel call is
    racer,       \* where each racer's poll is
    ticket,      \* the generation a racer's Notified future was created in
    provider,    \* the provider future of each racer
    observed,    \* the request time a cancelled racer returned
    tripped      \* history: the token was tripped before this await began

vars == <<requested, generation, caller, racer, ticket, provider, observed, tripped>>
cancelVars == <<requested, generation, caller>>
evidence   == <<observed, tripped>>

Init ==
    /\ requested = NoRequest
    /\ generation = 0
    /\ caller = [c \in Cancellers |-> "idle"]
    /\ racer = [r \in Racers |-> "idle"]
    /\ ticket = [r \in Racers |-> 0]
    /\ provider = [r \in Racers |-> "unstarted"]
    /\ observed = [r \in Racers |-> NoRequest]
    /\ tripped = [r \in Racers |-> FALSE]

Tripped == requested # NoRequest

-----------------------------------------------------------------------------
(* cancel: check, sample the clock, set once, notify *)

Moves(c, place) == caller' = [caller EXCEPT ![c] = place]

CheckTripped(c) ==
    /\ caller[c] = "idle"
    /\ Moves(c, IF Tripped THEN "returned" ELSE "trip")
    /\ UNCHANGED <<requested, generation, racer, ticket, provider, evidence>>

\* OnceLock::set takes one value.  (The variant overwrites it.)
TripAgain(c) ==
    /\ caller[c] = "trip"
    /\ requested' = c
    /\ Moves(c, "notify")
    /\ UNCHANGED <<generation, racer, ticket, provider, evidence>>

Trip(c) ==
    /\ caller[c] = "trip"
    /\ \/ /\ Tripped
          /\ Moves(c, "returned")
          /\ UNCHANGED requested
       \/ /\ ~Tripped
          /\ requested' = c
          /\ Moves(c, "notify")
    /\ UNCHANGED <<generation, racer, ticket, provider, evidence>>

NotifyWaiters(c) ==
    /\ caller[c] = "notify"
    /\ generation' = generation + 1
    /\ Moves(c, "returned")
    /\ UNCHANGED <<requested, racer, ticket, provider, evidence>>

-----------------------------------------------------------------------------
(* The race: cancelled() is polled before the provider, at every poll *)

Goes(r, place) == racer' = [racer EXCEPT ![r] = place]

\* (The variant polls the provider before the token.)
BeginWithProvider(r) ==
    /\ racer[r] = "idle"
    /\ Goes(r, "invoke")
    /\ tripped' = [tripped EXCEPT ![r] = Tripped]
    /\ UNCHANGED <<cancelVars, ticket, provider, observed>>

Begin(r) ==
    /\ racer[r] = "idle"
    /\ Goes(r, "check")
    /\ tripped' = [tripped EXCEPT ![r] = Tripped]
    /\ UNCHANGED <<cancelVars, ticket, provider, observed>>

\* cancelled() is ready with the recorded request time.
ReturnCancelled(r) ==
    /\ Tripped
    /\ observed' = [observed EXCEPT ![r] = requested]
    /\ Goes(r, "cancelled")

\* One of the three reads of requested_at: return, or go on to `next`.
Reads(r, place, next) ==
    /\ racer[r] = place
    /\ \/ ReturnCancelled(r)
       \/ /\ ~Tripped
          /\ Goes(r, next)
          /\ UNCHANGED observed
    /\ UNCHANGED <<cancelVars, ticket, provider, tripped>>

Check(r) == Reads(r, "check", "arm")

\* notified() remembers the generation; enable() registers it.
Arm(r) ==
    /\ racer[r] = "arm"
    /\ ticket' = [ticket EXCEPT ![r] = generation]
    /\ Goes(r, "recheck")
    /\ UNCHANGED <<cancelVars, provider, evidence>>

\* (The variant awaits at once: a request between check and arm is missed.)
RecheckSkipped(r) ==
    /\ racer[r] = "recheck"
    /\ Goes(r, "notified")
    /\ UNCHANGED <<cancelVars, ticket, provider, evidence>>

Recheck(r) == Reads(r, "recheck", "notified")

Notified(r) == generation # ticket[r]

\* A poll of the Notified future: it does not look at requested_at.
PollNotified(r) ==
    /\ racer[r] = "notified"
    /\ Goes(r, IF Notified(r) THEN "woken" ELSE "invoke")
    /\ UNCHANGED <<cancelVars, ticket, provider, evidence>>

Woken(r) == Reads(r, "woken", "check")

\* The provider future, polled second: it starts on its first poll, may be
\* ready at once, and otherwise the select parks.
PollProvider(r) ==
    /\ racer[r] = "invoke"
    /\ \/ /\ provider' = [provider EXCEPT ![r] = "answered"]
          /\ Goes(r, "completed")
       \/ /\ provider[r] # "answered"
          /\ provider' = [provider EXCEPT ![r] = "running"]
          /\ Goes(r, "parked")
    /\ UNCHANGED <<cancelVars, ticket, evidence>>

\* The provider answers, with a response or an error, whenever it likes.
Answer(r) ==
    /\ provider[r] = "running"
    /\ racer[r] \notin {"completed", "cancelled"}
    /\ provider' = [provider EXCEPT ![r] = "answered"]
    /\ UNCHANGED <<cancelVars, racer, ticket, evidence>>

\* A waker that fired gets the parked select polled again.
Wake(r) ==
    /\ racer[r] = "parked"
    /\ Notified(r) \/ provider[r] = "answered"
    /\ Goes(r, "notified")
    /\ UNCHANGED <<cancelVars, ticket, provider, evidence>>

\* The task that holds the select may also be polled for reasons of its own.
SpuriousPoll(r) ==
    /\ racer[r] = "parked"
    /\ ~Notified(r) /\ provider[r] # "answered"
    /\ Goes(r, "notified")
    /\ UNCHANGED <<cancelVars, ticket, provider, evidence>>

-----------------------------------------------------------------------------
CancelStep(c) == CheckTripped(c) \/ Trip(c) \/ NotifyWaiters(c)

PollStep(r) ==
    \/ Check(r) \/ Arm(r) \/ Recheck(r)
    \/ PollNotified(r) \/ Woken(r) \/ PollProvider(r)
    \/ Wake(r)

Next ==
    \/ \E c \in Cancellers : CancelStep(c)
    \/ \E r \in Racers : PollStep(r) \/ Begin(r) \/ Answer(r) \/ SpuriousPoll(r)

Spec == Init /\ [][Next]_vars

\* A cancel call that has begun returns, and the executor polls a task that
\* was woken.  Nothing makes a host cancel, an await begin, a provider answer
\* or a task be polled without a wake-up.
Fairness ==
    /\ \A c \in Cancellers : WF_vars(caller[c] # "idle" /\ CancelStep(c))
    /\ \A r \in Racers : WF_vars(PollStep(r))

FairSpec == Spec /\ Fairness

-----------------------------------------------------------------------------
(* Properties *)

Racing    == {"check", "arm", "recheck", "notified", "woken", "invoke", "parked"}
Committed == {"notified", "invoke", "parked"}  \* past the recheck

\* Every variable keeps its shape; notify_waiters is called at most once.
TypeOK ==
    /\ requested \in Cancellers \cup {NoRequest}
    /\ generation \in {0, 1}
    /\ caller \in [Cancellers -> {"idle", "trip", "notify", "returned"}]
    /\ racer \in [Racers -> Racing \cup {"idle", "completed", "cancelled"}]
    /\ ticket \in [Racers -> {0, 1}]
    /\ provider \in [Racers -> {"unstarted", "running", "answered"}]
    /\ observed \in [Racers -> Cancellers \cup {NoRequest}]
    /\ tripped \in [Racers -> BOOLEAN]

\* A racer never sleeps through a request: once one is recorded, a parked
\* racer's future has been notified or the call that recorded the request is
\* about to notify (the recheck after arming in cancelled()).
NoLostWakeup ==
    \A r \in Racers : racer[r] = "parked" /\ Tripped =>
        Notified(r) \/ caller[requested] = "notify"

\* Everyone who learns of the cancellation learns the same request time, the
\* recorded one, however many calls raced to make it (requested_at, trip).
OneRequestTime ==
    \A r \in Racers : observed[r] # NoRequest => observed[r] = requested

\* A token tripped before an await begins keeps that provider from ever being
\* started (biased select, cancelled() polled first).
TrippedNeverInvokes ==
    \A r \in Racers : tripped[r] =>
        provider[r] = "unstarted" /\ racer[r] # "completed"

\* After a request no await lasts, even if its provider never answers.
RequestEndsAwaits ==
    \A r \in Racers : Tripped ~> racer[r] \notin Racing

\* The inductive invariant.  The winner of the race to trip is the only call
\* that ever notifies, and a racer past its recheck holds a ticket of before
\* any notification, because it saw no request after arming.
OneNotification ==
    /\ ~Tripped => generation = 0
    /\ \A c \in Cancellers : caller[c] = "notify" => requested = c /\ generation = 0
    /\ Tripped => caller[requested] \in {"notify", "returned"}
    /\ Tripped /\ caller[requested] = "returned" => generation = 1

ArmedInTime ==
    \A r \in Racers :
        /\ racer[r] \in Committed => ticket[r] = 0
        /\ ticket[r] <= generation

TrippedAtOnce ==
    \A r \in Racers :
        tripped[r] => /\ Tripped
                      /\ racer[r] \in {"check", "cancelled"}
                      /\ provider[r] = "unstarted"

UnstartedUntilPolled ==
    \A r \in Racers : racer[r] = "idle" => provider[r] = "unstarted"

IInv ==
    /\ TypeOK /\ OneNotification /\ ArmedInTime /\ OneRequestTime
    /\ TrippedAtOnce /\ UnstartedUntilPolled
=============================================================================
