------------------------------- MODULE Adapters -------------------------------
(***************************************************************************)
(* What the four provider adapters make of the outside world: of the       *)
(* configuration before a call, of an HTTP status, and of the typed view   *)
(* of a success envelope.                                                  *)
(*                                                                         *)
(* Model text is a sequence of chunks.  Two chunks are enough to tell the  *)
(* order and the completeness of a concatenation: only "head" followed by  *)
(* "tail" is one JSON object.                                              *)
(***************************************************************************)
EXTENDS Naturals, Sequences, SequencesExt

CONSTANTS
    Keys,     \* credentials that form a header
    Nothing   \* a value that is not there: Option::None

Providers == {"openai", "anthropic", "gemini", "ollama"}
Chunks    == {"head", "tail"}
Texts     == Seq(Chunks)
Sides     == {"input", "output"}  \* the token counts a usage object can report

\* The kinds of error a call can end with.
Kinds == {"invalid_model_name", "unknown_provider", "missing_credentials",
          "provider_unavailable", "model_not_found", "invalid_payload", "rate_limited",
          "timeout", "provider_error", "invalid_response"}

\* What an adapter makes of an envelope: whether it ended naturally, its text
\* and its token counts, as far as the envelope has them.
Extraction ==
    [natural: BOOLEAN, text: Texts \cup {Nothing}, tokens: (SUBSET Sides) \cup {Nothing}]

\* None is none of the values it stands in for.
ASSUME NothingAssumption ==
    /\ Nothing \notin Kinds /\ Nothing \notin Nat /\ Nothing \notin Texts
    /\ \A sides \in SUBSET Sides : Nothing # sides
    /\ Nothing \notin Extraction

\* The prefixes of a model name: a provider's, an unknown one, or none at all.
Names == Providers \cup {"unknown", "malformed"}

Object == <<"head", "tail">>

\* extract_json_object: the whole text is one object, or nothing is.
IsObject(text) == text = Object

-----------------------------------------------------------------------------
(* Selection and discovery *)

\* resolve: Nothing, or the kind of the local failure.
ResolveFailure(name) ==
    CASE name = "malformed" -> "invalid_model_name"
      [] name = "unknown"   -> "unknown_provider"
      [] OTHER              -> Nothing

\* The configuration a call can read: the provider's own key, the fallback of
\* Gemini's, the base URL of Ollama's.  An empty value is an unset one.
KeyValues == {"unset", "malformed"} \cup Keys
Bases     == {"unset", "malformed", "ends_in_api", "local"}

Env == [key: KeyValues, fallback: KeyValues, base: Bases]

\* The variables the provider's discovery reads; the others stay unset.
EnvOf(name) ==
    {env \in Env : /\ env.key # "unset" => name \in Providers
                   /\ env.fallback # "unset" => name = "gemini"
                   /\ env.base # "unset" => name = "ollama"}

Unset == [key |-> "unset", fallback |-> "unset", base |-> "unset"]

\* One variable is read at a time: the base URL of Ollama before its key, the
\* provider's own key before the fallback.
FirstRead(provider, env) ==
    IF provider = "ollama" THEN [Unset EXCEPT !.base = env.base]
                           ELSE [Unset EXCEPT !.key = env.key]
SecondRead(provider, seen, env) ==
    IF provider = "ollama" THEN [seen EXCEPT !.key = env.key]
                           ELSE [seen EXCEPT !.fallback = env.fallback]

Key(provider, env) ==
    IF provider = "gemini" /\ env.key = "unset" THEN env.fallback ELSE env.key

DiscoverFailure(provider, env) ==
    CASE provider = "ollama" /\ env.base \in {"malformed", "ends_in_api"} ->
            "provider_unavailable"
      [] Key(provider, env) = "malformed" -> "missing_credentials"
      [] Key(provider, env) = "unset" /\ provider # "ollama" -> "missing_credentials"
      [] OTHER -> Nothing

\* Discovered, as it goes on the wire in each request of the call.
Discovered(provider, env) == [key |-> Key(provider, env), base |-> env.base]

-----------------------------------------------------------------------------
(* HTTP statuses *)

Success(status) == status \in 200..299

Verdict(kind, retryable) == [kind |-> kind, retryable |-> retryable]

GenericStatus(status) ==
    CASE status = 429        -> Verdict("rate_limited", TRUE)
      [] status \in 500..599 -> Verdict("provider_unavailable", TRUE)
      [] OTHER               -> Verdict("provider_error", FALSE)

OllamaStatus(status) ==
    CASE status \in {400, 422} -> Verdict("invalid_payload", FALSE)
      [] status = 404          -> Verdict("model_not_found", FALSE)
      [] OTHER                 -> GenericStatus(status)

MapGenerationStatus(provider, status) ==
    IF provider = "ollama" THEN OllamaStatus(status) ELSE GenericStatus(status)

\* classify_preflight_status: Nothing, or the kind that ends the call.
PreflightFailure(status) ==
    CASE Success(status)     -> Nothing
      [] status = 404        -> "model_not_found"
      [] status \in 300..399 -> "provider_error"
      [] OTHER               -> "provider_unavailable"

\* Only two providers have a correlation header.
RequestId(provider, header) ==
    IF provider \in {"openai", "anthropic"} THEN header ELSE Nothing

-----------------------------------------------------------------------------
(* Success envelopes, in the fields each adapter's typed view requires *)

Parts(others) == Chunks \cup others

OpenAiEnvelope ==
    [status: {"completed", "failed", "in_progress", "cancelled", "queued", "incomplete"},
     parts: Seq(Parts({"refusal", "reasoning"})), usage: SUBSET Sides]
AnthropicEnvelope ==
    [stop: {"end_turn", "max_tokens", "stop_sequence", "tool_use", "pause_turn",
            "refusal", "model_context_window_exceeded"},
     parts: Seq(Parts({"thinking"})), usage: SUBSET Sides]
GeminiEnvelope ==
    [blocked: BOOLEAN, candidates: Seq([finish: {"STOP", "MAX_TOKENS"}, parts: Texts]),
     usage: SUBSET Sides]
OllamaEnvelope ==
    [choices: Seq([finish: {"stop", "length", "tool_calls"}, content: Texts]),
     usage: SUBSET Sides]

EnvelopeType(provider) ==
    CASE provider = "openai"    -> OpenAiEnvelope
      [] provider = "anthropic" -> AnthropicEnvelope
      [] provider = "gemini"    -> GeminiEnvelope
      [] provider = "ollama"    -> OllamaEnvelope

\* token_counts: None when neither side was reported.
TokenCounts(usage) == IF usage = {} THEN Nothing ELSE usage

IsChunk(part) == part \in Chunks

\* The text parts among the parts, in their order.
ChunksOf(parts) ==
    LET chunks[n \in 0..Len(parts)] ==
            IF n = 0 THEN <<>>
            ELSE IF IsChunk(parts[n]) THEN Append(chunks[n - 1], parts[n])
            ELSE chunks[n - 1]
    IN  chunks[Len(parts)]

\* The concatenated text, or Nothing where no text part was observed.
TextOf(parts) == IF ChunksOf(parts) = <<>> THEN Nothing ELSE ChunksOf(parts)

Completed(text, usage) ==
    [natural |-> TRUE, text |-> IF text = Nothing THEN <<>> ELSE text,
     tokens |-> TokenCounts(usage)]

NonNatural(text, usage) ==
    [natural |-> FALSE, text |-> text, tokens |-> TokenCounts(usage)]

\* (The variant takes the status for the whole truth.)
ClassifyOpenAiByStatus(envelope) ==
    IF envelope.status = "completed"
    THEN Completed(TextOf(envelope.parts), envelope.usage)
    ELSE NonNatural(TextOf(envelope.parts), envelope.usage)

\* A refusal overrides the status.
ClassifyOpenAi(envelope) ==
    IF envelope.status = "completed" /\ ~Contains(envelope.parts, "refusal")
    THEN Completed(TextOf(envelope.parts), envelope.usage)
    ELSE NonNatural(TextOf(envelope.parts), envelope.usage)

ClassifyAnthropic(envelope) ==
    IF envelope.stop = "end_turn"
    THEN Completed(TextOf(envelope.parts), envelope.usage)
    ELSE NonNatural(TextOf(envelope.parts), envelope.usage)

CandidateText(candidates) ==
    TextOf(FlattenSeq([i \in DOMAIN candidates |-> candidates[i].parts]))

ClassifyGemini(envelope) ==
    LET candidates == envelope.candidates
        stopped    == \A i \in DOMAIN candidates : candidates[i].finish = "STOP"
        text       == CandidateText(candidates)
    IN  IF ~envelope.blocked /\ candidates # <<>> /\ stopped
        THEN Completed(text, envelope.usage)
        ELSE NonNatural(text, envelope.usage)

\* Anything but one choice is no valid envelope.
ClassifyOllama(envelope) ==
    IF Len(envelope.choices) # 1 THEN Nothing
    ELSE LET choice == envelope.choices[1]
         IN  IF choice.finish = "stop"
             THEN Completed(choice.content, envelope.usage)
             ELSE NonNatural(choice.content, envelope.usage)

\* Provider::extract.  A body that is no envelope of the provider's type is
\* Nothing already.
Extract(provider, envelope) ==
    IF envelope = Nothing THEN Nothing
    ELSE CASE provider = "openai"    -> ClassifyOpenAi(envelope)
           [] provider = "anthropic" -> ClassifyAnthropic(envelope)
           [] provider = "gemini"    -> ClassifyGemini(envelope)
           [] provider = "ollama"    -> ClassifyOllama(envelope)
=============================================================================
