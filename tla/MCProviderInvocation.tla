------------------------- MODULE MCProviderInvocation -------------------------
(***************************************************************************)
(* The envelopes and statuses a server may send: for each provider a       *)
(* natural object, an objection to one, a text in the wrong order, and for *)
(* each boundary of the status tables a status on either side.             *)
(***************************************************************************)
EXTENDS ProviderInvocation

None == {}
Both == Sides

OpenAi(status, parts, usage)  == [status |-> status, parts |-> parts, usage |-> usage]
Anthropic(stop, parts, usage) == [stop |-> stop, parts |-> parts, usage |-> usage]
Gemini(blocked, candidates)   == [blocked |-> blocked, candidates |-> candidates, usage |-> {"input"}]
Ollama(choices)               == [choices |-> choices, usage |-> Both]

Candidate(finish, parts)  == [finish |-> finish, parts |-> parts]
Choice(finish, content)   == [finish |-> finish, content |-> content]

MCEnvelopes ==
    [openai |->
        {Nothing, OpenAi("completed", <<"reasoning", "head", "tail">>, Both),
         OpenAi("completed", <<"head", "refusal", "tail">>, Both),
         OpenAi("completed", <<"tail", "head">>, None),
         OpenAi("incomplete", <<"head">>, Both)},
     anthropic |->
        {Nothing, Anthropic("end_turn", <<"head", "thinking", "tail">>, Both),
         Anthropic("max_tokens", Object, None),
         Anthropic("end_turn", <<>>, Both)},
     gemini |->
        {Nothing, Gemini(FALSE, <<Candidate("STOP", Object)>>),
         Gemini(FALSE, <<Candidate("STOP", <<"head">>), Candidate("STOP", <<"tail">>)>>),
         Gemini(FALSE, <<Candidate("STOP", Object), Candidate("MAX_TOKENS", <<>>)>>),
         Gemini(TRUE, <<Candidate("STOP", Object)>>),
         Gemini(FALSE, <<>>)},
     ollama |->
        {Nothing, Ollama(<<Choice("stop", Object)>>),
         Ollama(<<Choice("length", Object)>>),
         Ollama(<<Choice("stop", <<"head">>), Choice("stop", <<"tail">>)>>),
         Ollama(<<>>)}]

MCStatuses == {200, 307, 404, 429, 500, 599, 600}
=============================================================================
