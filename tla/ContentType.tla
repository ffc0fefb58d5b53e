----------------------------- MODULE ContentType -----------------------------
(***************************************************************************)
(* Which response bodies a provider client reads as UTF-8: those without a *)
(* Content-Type, and those whose Content-Type is well formed and names at  *)
(* most one charset, UTF-8.  The field is scanned by hand, over quotes,    *)
(* escapes and separators, so here it is a sequence of symbols: "charset"  *)
(* and "utf-8" stand for these words in any case, "t" for another token    *)
(* character, "invalid" for an octet that no string may hold.               *)
(***************************************************************************)
EXTENDS Naturals, Sequences, FiniteSets, FiniteSetsExt, SequencesExt

TokenSymbols == {"t", "charset", "utf-8"}
Separators   == {"semicolon", "equals", "slash", "quote", "backslash", "space"}
Symbols      == TokenSymbols \cup Separators \cup {"invalid"}

\* No parameter has an empty name.
Malformed == [name |-> <<>>, value |-> <<>>]

\* Where s first holds the symbol, or just after its end.
First(symbol, s) == Min({i \in DOMAIN s : s[i] = symbol} \cup {Len(s) + 1})

Before(s, i) == SubSeq(s, 1, i - 1)
After(s, i)  == SubSeq(s, i + 1, Len(s))

\* The symbols of s at the places, in order.
Picked(s, places) ==
    LET picked[i \in 0..Len(s)] ==
            IF i = 0 THEN <<>>
            ELSE IF i \in places THEN Append(picked[i - 1], s[i]) ELSE picked[i - 1]
    IN  picked[Len(s)]

-----------------------------------------------------------------------------
(* The scanner *)

IsToken(s) == s # <<>> /\ ToSet(s) \subseteq TokenSymbols

TrimOws(s) ==
    LET kept == {i \in DOMAIN s : s[i] # "space"}
    IN  IF kept = {} THEN <<>> ELSE SubSeq(s, Min(kept), Max(kept))

IsMediaType(s) ==
    LET slash == First("slash", s)
    IN  slash <= Len(s) /\ IsToken(Before(s, slash)) /\ IsToken(After(s, slash))

\* (The variant of the boundary scan does not know escapes.)
FindBoundaryUnescaped(s) ==
    LET quoted[i \in 0..Len(s)] == i > 0 /\ (quoted[i - 1] # (s[i] = "quote"))
        ends == {i \in DOMAIN s : s[i] = "semicolon" /\ ~quoted[i - 1]}
    IN  IF ends # {} THEN Min(ends) ELSE IF quoted[Len(s)] THEN 0 ELSE Len(s) + 1

\* Where the boundary scan is after i symbols: outside of quotes, inside, or
\* behind a backslash that still awaits its character.
AfterSymbol(was, symbol) ==
    CASE was = "escape"                         -> "inside"
      [] was = "inside" /\ symbol = "backslash" -> "escape"
      [] was = "inside" /\ symbol = "quote"     -> "outside"
      [] was = "outside" /\ symbol = "quote"    -> "inside"
      [] OTHER                                  -> was

Scan(s) ==
    LET scan[i \in 0..Len(s)] == IF i = 0 THEN "outside" ELSE AfterSymbol(scan[i - 1], s[i])
    IN  scan

\* find_parameter_boundary: the first semicolon outside of quotes, the end of
\* the field, or 0 for quotes that are never closed.
FindBoundary(s) ==
    LET ends == {i \in DOMAIN s : s[i] = "semicolon" /\ Scan(s)[i - 1] = "outside"}
    IN  IF ends # {} THEN Min(ends) ELSE IF Scan(s)[Len(s)] = "outside" THEN Len(s) + 1 ELSE 0

\* What each character of a quoted string is, after the quote that opens it.
Escaping(s) ==
    LET reads[i \in 0..Len(s)] ==
            IF i > 1 /\ s[i] = "backslash" /\ reads[i - 1] # "escape" THEN "escape" ELSE "character"
    IN  reads

\* parse_quoted_value: where the string that starts s ends, or 0.
ClosingQuote(s) ==
    LET closes == {i \in 2..Len(s) : s[i] = "quote" /\ Escaping(s)[i - 1] # "escape"}
    IN  IF closes = {} THEN 0 ELSE Min(closes)

\* The characters a quoted string stands for: each backslash is left out and
\* what follows it taken.
Unescaped(s) == Picked(s, {i \in 2..(Len(s) - 1) : Escaping(s)[i] # "escape"})

\* parse_parameter: the name and the logical value of one parameter.
ParseParameter(raw) ==
    LET parameter == TrimOws(raw)
        equals    == First("equals", parameter)
        name      == Before(parameter, equals)
        value     == After(parameter, equals)
    IN  IF equals > Len(parameter) \/ ~IsToken(name) \/ value = <<>> THEN Malformed
        ELSE IF value[1] = "quote" /\ ClosingQuote(value) = Len(value)
             THEN [name |-> name, value |-> Unescaped(value)]
        ELSE IF IsToken(value) THEN [name |-> name, value |-> value]
        ELSE Malformed

\* Where each parameter starts, from the first on; after the last one behind
\* the end of the field, and then, or when there is no boundary, 0.
Starts(s) ==
    LET starts[n \in 0..Len(s)] ==
            IF n = 0 THEN First("semicolon", s) + 1
            ELSE LET start == starts[n - 1]
                     end   == FindBoundary(SubSeq(s, start, Len(s)))
                 IN  IF start \notin 1..(Len(s) + 1) \/ end = 0 THEN 0 ELSE start + end
    IN  starts

Count(s) == Max({n \in 0..Len(s) : n = 0 \/ Starts(s)[n] # 0})

Parameter(s, n) == ParseParameter(SubSeq(s, Starts(s)[n - 1], Starts(s)[n] - 2))

\* ParameterScanner: the parameters in order, up to one that is malformed.
Parameters(s) ==
    IF First("semicolon", s) > Len(s) THEN <<>>
    ELSE [n \in 1..Count(s) |-> Parameter(s, n)]
         \o IF Starts(s)[Count(s)] = Len(s) + 2 THEN <<>> ELSE <<Malformed>>

\* uses_supported_charset, of the values of the field.
UsesSupportedCharset(values) ==
    IF values = <<>> THEN TRUE
    ELSE LET s == values[1]
             parameters == Parameters(s)
             charsets == {n \in DOMAIN parameters :
                            parameters[n] # Malformed /\ parameters[n].name = <<"charset">>}
         IN  /\ Len(values) = 1
             /\ "invalid" \notin ToSet(s)
             /\ IsMediaType(TrimOws(Before(s, First("semicolon", s))))
             /\ Malformed \notin ToSet(parameters)
             /\ \A m, n \in charsets : m = n
             /\ \A n \in charsets : parameters[n].value = <<"utf-8">>

-----------------------------------------------------------------------------
(* Reference: the field as a grammar reads it *)

\* What is left of a quoted string when the backslashes at escapes are taken
\* away, if these are escapes and nothing else ends the string early.
QuotedAs(s, escapes) ==
    /\ Len(s) >= 2 /\ s[1] = "quote" /\ s[Len(s)] = "quote"
    /\ escapes \subseteq 2..(Len(s) - 2)
    /\ \A i \in escapes : s[i] = "backslash" /\ i + 1 \notin escapes
    /\ \A i \in 2..(Len(s) - 1) :
          i \in escapes \/ i - 1 \in escapes \/ s[i] \notin {"quote", "backslash"}

\* parameter = token "=" ( token / quoted-string ), and its logical value.
Values(text) ==
    (IF IsToken(text) THEN {text} ELSE {})
    \cup {Picked(text, 2..(Len(text) - 1) \ escapes) :
          escapes \in {e \in SUBSET {i \in DOMAIN text : text[i] = "backslash"} : QuotedAs(text, e)}}

Readings(parameter) ==
    UNION {{[name |-> Before(parameter, e), value |-> value] : value \in Values(After(parameter, e))} :
           e \in {e \in DOMAIN parameter : parameter[e] = "equals" /\ IsToken(Before(parameter, e))}}

\* The field is a media type and parameters, with white space around each;
\* the semicolons at cuts are those that separate them.
Segment(s, cuts, c) ==
    TrimOws(SubSeq(s, c + 1, Min({d \in cuts : d > c} \cup {Len(s) + 1}) - 1))

GrammarAdmits(s) ==
    /\ "invalid" \notin ToSet(s)
    /\ \E cuts \in SUBSET {i \in DOMAIN s : s[i] = "semicolon"} :
        LET Read(c)  == Readings(Segment(s, cuts, c))
            charsets == {c \in cuts : \E r \in Read(c) : r.name = <<"charset">>}
        IN  /\ IsMediaType(Segment(s, cuts, 0))
            /\ \A c \in cuts : Read(c) # {}
            /\ \A c, d \in charsets : c = d
            /\ \A c \in charsets : [name |-> <<"charset">>, value |-> <<"utf-8">>] \in Read(c)
=============================================================================
