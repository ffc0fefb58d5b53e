-------------------------- MODULE ProviderInvocation --------------------------
(***************************************************************************)
(* One invocation of the provider client: selection, discovery, the        *)
(* preflight of Ollama, one request, and up to two attempts to have it     *)
(* answered, each classified and recorded, closed into a response or into  *)
(* an error with the evidence of what was reached.                         *)
(*                                                                         *)
(* Around it: a provider that may answer anything, late, partly or never;  *)
(* the timer of the HTTP client, which bounds each request together with   *)
(* its body; a process environment that others change; and a caller who    *)
(* may drop the call at any await.                                         *)
(*                                                                         *)
(* Wall time is left out: it is written into evidence and never read.      *)
(***************************************************************************)
EXTENDS Adapters

CONSTANTS
    Envelopes,   \* [Providers -> sets of typed envelopes, Nothing among them]
    Statuses,    \* the HTTP statuses a server may answer with
    BodyLimit,   \* MAX_GENERATION_BODY_BYTES, in units of a chunk
    Timeout      \* ModelSettings::timeout_secs, in ticks of the clock

\* The retry budget is a constant of the code.
MaxAttempts == 2

ASSUME TimeoutAssumption  == Timeout \in Nat \ {0}
ASSUME BodyAssumption     == BodyLimit \in Nat
ASSUME StatusAssumption   == Statuses \subseteq 100..999
ASSUME EnvelopeAssumption ==
    \A p \in Providers : \A e \in Envelopes[p] \ {Nothing} : e \in EnvelopeType(p)

\* The usage and the raw text a call reports, as far as it has them.
Usages   == [latency: Nat, tokens: (SUBSET Sides) \cup {Nothing}, id: Nat \cup {Nothing}]
RawTexts == [try: Nat, text: Texts \cup Seq({"byte"})]

ASSUME EvidenceAssumption ==
    Nothing \notin Usages /\ Nothing \notin RawTexts /\ Nothing \notin Seq({"byte"})

VARIABLES
    name,      \* the provider part of the caller's model name
    env,       \* the configuration, as it stands now
    seen,      \* what discovery has read of it so far
    pc,        \* the point the invocation has reached
    now,       \* the monotonic clock
    begun,     \* invoke_started
    opened,    \* attempt_started, and when the pending request was posted
    prepared,  \* PreparedInvocation: the one request, or Nothing
    wire,      \* what passed on the wire: the exchanges, in order
    attempts,  \* the attempt rows recorded so far
    result     \* the response or error returned, or Nothing

vars == <<name, env, seen, pc, now, begun, opened, prepared, wire, attempts, result>>

\* An exchange has its step, its request (the key and the base; the rest differs
\* by step alone), the status and id of its response or Nothing, how much of the
\* body was received, the envelope it was, and its fate: "open", "unanswered",
\* "refused", "charset", "overflow", "broken" or "complete".

Awaiting == {"probing", "posted", "reading"}
Finished == {"returned", "dropped"}

-----------------------------------------------------------------------------
At(point) == pc = point
Goto(point) == pc' = point

call == <<name, seen, begun, prepared>>  \* what an attempt never changes

Pending == Last(wire)

\* Clock::elapsed_ms and Clock::close; the readings never run backwards.
Elapsed == now - begun
Span    == now - opened

Posts(step, request) ==
    /\ wire' = Append(wire, [step |-> step, request |-> request, status |-> Nothing,
                             id |-> Nothing, received |-> 0, envelope |-> Nothing,
                             fate |-> "open"])
    /\ opened' = now

\* The pending exchange, as the wire will show it.
Exchanged(exchange) == wire' = [wire EXCEPT ![Len(wire)] = exchange]

Returns(outcome) == result' = outcome /\ Goto("returned")

Error(kind, retryable, identified, raw, usage) ==
    [ok |-> FALSE, kind |-> kind, retryable |-> retryable, identified |-> identified,
     raw |-> raw, usage |-> usage]

\* local_failure and pre_attempt_error.
FailsEarly(kind, identified, usage) ==
    /\ Returns(Error(kind, FALSE, identified, Nothing, usage))
    /\ UNCHANGED attempts

-----------------------------------------------------------------------------
(* invoke and prepare *)

Invoke ==
    /\ At("invoke")
    /\ begun' = now
    /\ IF ResolveFailure(name) = Nothing
       THEN Goto("discover") /\ UNCHANGED <<attempts, result>>
       ELSE FailsEarly(ResolveFailure(name), FALSE, Nothing)
    /\ UNCHANGED <<name, env, seen, now, opened, prepared, wire>>

ReadFirst ==
    /\ At("discover")
    /\ seen' = FirstRead(name, env)
    /\ Goto("discovering")
    /\ UNCHANGED <<name, env, now, begun, opened, prepared, wire, attempts, result>>

Discover ==
    /\ At("discovering")
    /\ LET read == SecondRead(name, seen, env)
       IN  IF DiscoverFailure(name, read) = Nothing
           THEN /\ prepared' = Discovered(name, read)
                /\ Goto(IF name = "ollama" THEN "preflight" ELSE "build")
                /\ UNCHANGED <<attempts, result>>
           ELSE FailsEarly(DiscoverFailure(name, read), TRUE, Nothing) /\ UNCHANGED prepared
    /\ seen' = Unset
    /\ UNCHANGED <<name, env, now, begun, opened, wire>>

Preflight ==
    /\ At("preflight")
    /\ Posts("preflight", prepared)
    /\ Goto("probing")
    /\ UNCHANGED <<call, env, now, attempts, result>>

\* Only the status counts; the body is never read.
PreflightAnswered ==
    /\ At("probing")
    /\ \E status \in Statuses :
          /\ Exchanged([Pending EXCEPT !.status = status,
                                       !.fate = IF Success(status) THEN "complete" ELSE "refused"])
          /\ IF PreflightFailure(status) = Nothing
             THEN Goto("build") /\ UNCHANGED <<attempts, result>>
             ELSE FailsEarly(PreflightFailure(status), TRUE,
                             [latency |-> Elapsed, tokens |-> Nothing, id |-> Nothing])
    /\ UNCHANGED <<call, env, now, opened>>

\* A transport failure, a timeout among them, is never retried here.
PreflightUnanswered ==
    /\ Exchanged([Pending EXCEPT !.fate = "unanswered"])
    /\ FailsEarly("provider_unavailable", TRUE, Nothing)
    /\ UNCHANGED <<call, env, now, opened>>

PreflightFails == At("probing") /\ PreflightUnanswered

\* build_generation_request; every attempt borrows what was prepared.
Build ==
    /\ At("build")
    /\ Goto("attempt")
    /\ UNCHANGED <<call, env, now, opened, wire, attempts, result>>

-----------------------------------------------------------------------------
(* run_generation_attempts *)

\* One attempt starts and posts the request.  (The variant reads the
\* configuration again for each attempt.)
PostRediscovered ==
    /\ At("attempt")
    /\ Posts("generation", Discovered(name, env))
    /\ Goto("posted")
    /\ UNCHANGED <<call, env, now, attempts, result>>

Post ==
    /\ At("attempt")
    /\ Posts("generation", prepared)
    /\ Goto("posted")
    /\ UNCHANGED <<call, env, now, attempts, result>>

\* WireOutcome, with the facts that close the call if this attempt does: a
\* completion has no kind, and a failure without response facts no usage.
Outcome(kind, retryable, raw, usage) ==
    [kind |-> kind, retryable |-> retryable, raw |-> raw, usage |-> usage]

ResponseUsage(tokens, id) == [latency |-> Elapsed, tokens |-> tokens, id |-> id]
RawText(text) == IF text = Nothing THEN Nothing ELSE [try |-> Len(wire), text |-> text]
Bytes(size) == [i \in 1..size |-> "byte"]

\* The strict parse of a completed text decides between response and error.
Closed(outcome) ==
    CASE outcome.kind # Nothing ->
            Error(outcome.kind, outcome.retryable, TRUE, outcome.raw, outcome.usage)
      [] outcome.kind = Nothing /\ IsObject(outcome.raw.text) ->
            [ok |-> TRUE, kind |-> Nothing, retryable |-> FALSE, identified |-> TRUE,
             raw |-> outcome.raw, usage |-> outcome.usage]
      [] outcome.kind = Nothing /\ ~IsObject(outcome.raw.text) ->
            Error("invalid_response", FALSE, TRUE, outcome.raw, outcome.usage)

RetriesLeft == Len(attempts) + 1 < MaxAttempts

\* The row of the attempt, then the retry or the end of the call.
\* (The variant records the last attempt only.)
AttemptEndsRecordingLast(outcome) ==
    /\ IF outcome.retryable /\ RetriesLeft
       THEN Goto("attempt") /\ UNCHANGED <<attempts, result>>
       ELSE /\ attempts' = Append(attempts, [success |-> outcome.kind = Nothing,
                                             kind |-> outcome.kind, duration |-> Span,
                                             retryable |-> outcome.retryable])
            /\ Returns(Closed(outcome))
    /\ UNCHANGED <<call, env, now, opened>>

AttemptEnds(outcome) ==
    /\ attempts' = Append(attempts, [success |-> outcome.kind = Nothing, kind |-> outcome.kind,
                                     retryable |-> outcome.retryable, duration |-> Span])
    /\ IF outcome.retryable /\ RetriesLeft
       THEN Goto("attempt") /\ UNCHANGED result
       ELSE Returns(Closed(outcome))
    /\ UNCHANGED <<call, env, now, opened>>

\* (The variant reports the usage of a call that got no response.)
UnansweredWithUsage(kind) ==
    /\ Exchanged([Pending EXCEPT !.fate = "unanswered"])
    /\ AttemptEnds(Outcome(kind, TRUE, Nothing, ResponseUsage(Nothing, Nothing)))

Unanswered(kind) ==
    /\ Exchanged([Pending EXCEPT !.fate = "unanswered"])
    /\ AttemptEnds(Outcome(kind, TRUE, Nothing, Nothing))

\* HttpFailure::Connection and HttpFailure::Send.
AttemptFails == At("posted") /\ Unanswered("provider_unavailable")

\* A response whose metadata ends the attempt before its body is read.
Rejected(response, fate, kind, retryable) ==
    /\ Exchanged([response EXCEPT !.fate = fate])
    /\ AttemptEnds(Outcome(kind, retryable, Nothing, ResponseUsage(Nothing, response.id)))

Responses ==
    [status: Statuses, id: {RequestId(name, header) : header \in {Nothing, Len(wire)}}]

Respond ==
    /\ At("posted")
    /\ \E head \in Responses :
          LET response == [Pending EXCEPT !.status = head.status, !.id = head.id]
              verdict  == MapGenerationStatus(name, head.status)
          IN  IF ~Success(head.status)
              THEN Rejected(response, "refused", verdict.kind, verdict.retryable)
              ELSE \/ Rejected(response, "charset", "invalid_response", FALSE)
                   \/ Rejected(response, "overflow", "invalid_response", FALSE)
                   \/ /\ Exchanged(response)
                      /\ Goto("reading")
                      /\ UNCHANGED <<call, env, now, opened, attempts, result>>

\* append_bounded: a chunk that does not fit ends the attempt.
ReadChunk ==
    /\ At("reading")
    /\ \E size \in 1..2 :
          LET grown == [Pending EXCEPT !.received = @ + size]
          IN  IF size > BodyLimit - Pending.received
              THEN Rejected(grown, "overflow", "invalid_response", FALSE)
              ELSE /\ Exchanged(grown)
                   /\ UNCHANGED <<call, env, pc, now, opened, attempts, result>>

\* What was collected before a read failed is kept where it is UTF-8.
BodyBreaks(kind) ==
    /\ Exchanged([Pending EXCEPT !.fate = "broken"])
    /\ \E utf8 \in BOOLEAN :
          LET partial == IF utf8 /\ Pending.received > 0 THEN Bytes(Pending.received) ELSE Nothing
          IN  AttemptEnds(Outcome(kind, TRUE, RawText(partial),
                                  ResponseUsage(Nothing, Pending.id)))

\* HttpFailure::BodyRead, and a connection lost while reading.
BodyFails == At("reading") /\ BodyBreaks("provider_unavailable")

\* The body is complete: an envelope, or bytes that are none.
EnvelopeOutcome(envelope, utf8) ==
    LET classified == Extract(name, envelope)
        body       == IF utf8 THEN Bytes(Pending.received) ELSE Nothing
    IN  IF classified = Nothing
        THEN Outcome("invalid_response", FALSE, RawText(body), ResponseUsage(Nothing, Pending.id))
        ELSE Outcome(IF classified.natural THEN Nothing ELSE "invalid_response", FALSE,
                     RawText(classified.text), ResponseUsage(classified.tokens, Pending.id))

BodyCompletes ==
    /\ At("reading")
    /\ \E envelope \in Envelopes[name], utf8 \in BOOLEAN :
          /\ envelope # Nothing => utf8 /\ Pending.received > 0
          /\ Exchanged([Pending EXCEPT !.envelope = envelope, !.fate = "complete"])
          /\ AttemptEnds(EnvelopeOutcome(envelope, utf8))

-----------------------------------------------------------------------------
(* The world around the call *)

\* Time that passes outside an await is too short to be seen.
Tick ==
    /\ pc \in Awaiting
    /\ Span < Timeout
    /\ now' = now + 1
    /\ UNCHANGED <<call, env, pc, opened, wire, attempts, result>>

\* reqwest's timeout runs from the post to the last byte of the body.
\* (The variant stops at the head of the response.)
TimesOutOnHead ==
    /\ Span = Timeout
    /\ \/ At("probing") /\ PreflightUnanswered
       \/ At("posted") /\ Unanswered("timeout")

TimesOut ==
    /\ Span = Timeout
    /\ \/ At("probing") /\ PreflightUnanswered
       \/ At("posted") /\ Unanswered("timeout")
       \/ At("reading") /\ BodyBreaks("timeout")

\* Another thread of the host changes the process environment.
SetEnv ==
    /\ pc \notin Finished
    /\ env' \in EnvOf(name) \ {env}
    /\ UNCHANGED <<call, pc, now, opened, wire, attempts, result>>

\* The caller drops the future, as the Run does when it is cancelled.
Drop ==
    /\ pc \in Awaiting
    /\ Goto("dropped")
    /\ UNCHANGED <<call, env, now, opened, wire, attempts, result>>

-----------------------------------------------------------------------------
\* The client, and its clock, are older than the call.
Init ==
    /\ name \in Names
    /\ env \in EnvOf(name) /\ seen = Unset
    /\ pc = "invoke"
    /\ now = 1 /\ begun = 0 /\ opened = 0
    /\ prepared = Nothing
    /\ wire = <<>>
    /\ attempts = <<>>
    /\ result = Nothing

Prepare  == Invoke \/ ReadFirst \/ Discover \/ Preflight \/ Build
Server   == \/ PreflightAnswered \/ PreflightFails \/ AttemptFails \/ Respond
            \/ ReadChunk \/ BodyFails \/ BodyCompletes
World    == Tick \/ TimesOut \/ SetEnv \/ Drop

Next == Prepare \/ Post \/ Server \/ World

Spec == Init /\ [][Next]_vars

\* The call computes when it can and its timer runs; nothing is assumed of
\* the provider.
FairSpec == Spec /\ WF_vars(Prepare \/ Post) /\ WF_vars(Tick) /\ WF_vars(TimesOut)

-----------------------------------------------------------------------------
(* Properties *)

\* The generation requests: all but a preflight, which comes first.
Tries == IF wire # <<>> /\ wire[1].step = "preflight" THEN Tail(wire) ELSE wire

Natural(exchange) ==
    LET classified == Extract(name, exchange.envelope)
    IN  classified # Nothing /\ classified.natural

Transient(exchange) ==
    \/ exchange.fate \in {"unanswered", "broken"}
    \/ exchange.fate = "refused" /\ exchange.status \in {429} \cup 500..599

\* The record of the attempts is the truth about the wire: one row for each
\* generation request whose outcome the call saw, in their order, a success
\* exactly where the provider completed naturally, retryable exactly where the
\* failure was transient; none for a preflight and none for the request a
\* dropped call left behind.  A request is sent again only after a transient
\* failure, the budget is used up before a transient failure ends the call, and
\* the error says of itself what its last attempt says.
AttemptsMatchWire ==
    /\ \A i \in DOMAIN Tries : Tries[i].step = "generation"
    /\ \A i \in DOMAIN Tries : i \in DOMAIN attempts <=> Tries[i].fate # "open"
    /\ DOMAIN attempts \subseteq DOMAIN Tries
    /\ \A i \in DOMAIN attempts :
          /\ attempts[i].success <=> Natural(Tries[i])
          /\ attempts[i].retryable <=> Transient(Tries[i])
    /\ Len(Tries) <= MaxAttempts
    /\ \A i \in 1..(Len(Tries) - 1) : attempts[i].retryable
    /\ At("returned") =>
          LET transient == attempts # <<>> /\ Last(attempts).retryable
          IN  /\ result.retryable <=> transient
              /\ transient => Len(attempts) = MaxAttempts

\* The spans of the rows, one after the other, fit into a span.
EndToEnd(rows, span) ==
    \E ends \in [0..Len(rows) -> 0..span] :
        /\ ends[0] = 0
        /\ \A i \in DOMAIN rows : ends[i] = ends[i - 1] + rows[i].duration

\* An answer closes the call with the facts of the exchange that closed it and
\* of no earlier one: usage exactly if that exchange got a response, with that
\* response's request id and token counts, and raw text only of that exchange,
\* never more of it than the limit admits, and none of a body beyond it.  Its
\* latency covers every attempt, none of which takes more than its allowance,
\* and the call has taken no more than one allowance for each request it sent.
EvidenceOfClosingExchange ==
    At("returned") =>
        IF wire = <<>> THEN result.usage = Nothing /\ result.raw = Nothing
        ELSE LET last == Last(wire)
                 classified == Extract(name, last.envelope)
             IN  /\ (result.usage # Nothing) <=> (last.status # Nothing)
                 /\ result.usage # Nothing =>
                       /\ result.usage.id = last.id
                       /\ result.usage.tokens = IF classified = Nothing THEN Nothing
                                                ELSE classified.tokens
                 /\ result.raw # Nothing =>
                       /\ result.raw.try = Len(wire)
                       /\ last.step = "generation" /\ last.fate \in {"broken", "complete"}
                       /\ last.received <= BodyLimit
                 /\ Natural(last) => result.raw # Nothing
                 /\ Elapsed <= Len(wire) * Timeout
                 /\ \A i \in DOMAIN attempts : attempts[i].duration <= Timeout
                 /\ result.usage # Nothing =>
                       /\ result.usage.latency <= Elapsed
                       /\ EndToEnd(attempts, result.usage.latency)

\* What a natural completion is, provider by provider.
Unobjected(envelope) ==
    CASE name = "openai" -> /\ envelope.status = "completed"
                            /\ \A i \in DOMAIN envelope.parts : envelope.parts[i] # "refusal"
      [] name = "anthropic" -> envelope.stop = "end_turn"
      [] name = "gemini" -> /\ ~envelope.blocked /\ envelope.candidates # <<>>
                            /\ \A i \in DOMAIN envelope.candidates :
                                  envelope.candidates[i].finish = "STOP"
      [] name = "ollama" -> Len(envelope.choices) = 1 /\ envelope.choices[1].finish = "stop"

\* Among parts of other kinds, a head and then a tail are all there is of text.
OneObject(parts) ==
    \E i, j \in DOMAIN parts :
        /\ i < j /\ parts[i] = "head" /\ parts[j] = "tail"
        /\ \A k \in DOMAIN parts \ {i, j} : parts[k] \notin Chunks

PartsOf(envelope) ==
    CASE name \in {"openai", "anthropic"} -> envelope.parts
      [] name = "gemini" -> FlattenSeq([i \in DOMAIN envelope.candidates |->
                                           envelope.candidates[i].parts])
      [] name = "ollama" -> FlattenSeq([i \in DOMAIN envelope.choices |->
                                           envelope.choices[i].content])

\* The caller gets a proposal exactly when the last exchange brought a
\* complete envelope that nothing in it objects to, whose text, all of it and
\* in order, is one JSON object: never half of one, never a refused one.
AcceptedIsNatural ==
    At("returned") /\ wire # <<>> =>
        LET envelope == Last(wire).envelope
        IN  result.ok <=> /\ envelope # Nothing
                          /\ Unobjected(envelope)
                          /\ OneObject(PartsOf(envelope))

\* Whatever happens to the environment meanwhile, everything a call sends goes
\* to one place with one credential, both usable; and a generation request to
\* Ollama follows one preflight, which succeeded.
OneRequest ==
    \A i \in DOMAIN wire :
        /\ wire[i].request = prepared
        /\ prepared.key # "malformed" /\ prepared.base \notin {"malformed", "ends_in_api"}
        /\ prepared.key = "unset" => name = "ollama"
        /\ wire[i].step = "preflight" <=> (name = "ollama" /\ i = 1)
        /\ i > 1 /\ name = "ollama" => Success(wire[1].status)

\* A call ends though its provider never answers, or never stops answering.
InvokeReturns == <>(pc \in Finished)
=============================================================================
