----------------------------- MODULE MCBoundary -----------------------------
(***************************************************************************)
(* What the program decides about data at its edges, on every small input: *)
(* the texts of TextBoundary, and the payloads of the Run Record's lines.  *)
(***************************************************************************)
EXTENDS TextBoundary, RecordLine

CONSTANTS
    WrapDepth        \* constructors put around a value

ASSUME WrapAssumption == WrapDepth \in Nat

-----------------------------------------------------------------------------

\* Days around the epoch, today, the centuries of an era, of which the last is
\* a leap year, and the last instant a timestamp can hold; the calendar repeats
\* after an era of 146097 days.
Days == (0..1500) \cup (10900..11100) \cup (19000..21500) \cup (46900..48100)
        \cup (83900..84500) \cup (120400..121000) \cup (157000..157600)
        \cup (213503000..213503982)

Instant(day, second) == [day |-> day, second |-> second, micro |-> 7]

MCNamedInstants == {Instant(11016, 0)}
MCInstants ==
    MCNamedInstants \cup {Instant(day, 86399) : day \in Days}
    \cup {Instant(11016, second) : second \in {59, 60, 3599, 3600, 43200}}

\* Texts whose order differs with the encoding, or that need an escape.
Texts == {<<>>, <<97>>, <<34, 10>>, <<65533>>, <<128512>>}

Leaves ==
    {Text(text) : text \in Texts}
    \cup {Scalar("integer", <<55>>), Scalar("float", <<53>>), Scalar("wide", <<57>>),
          Scalar("not finite", <<>>), Scalar("unit", <<>>), Scalar("none", <<>>),
          Scalar("unit variant", <<98>>)}

Siblings == {Text(<<97>>), Scalar("not finite", <<>>)}

Wrapped(v) ==
    {Over(kind, <<v>>) : kind \in {"some", "newtype", "sequence"}}
    \cup {Node(kind, <<98>>, <<>>, <<v>>) : kind \in {"newtype variant", "tuple variant"}}
    \cup UNION {{Node(kind, <<98>>, <<>>, <<v, w>>), Node(kind, <<98>>, <<>>, <<w, v>>)} :
                   kind \in {"sequence", "tuple variant"}, w \in Siblings}
    \cup {Node(kind, <<98>>, <<Text(s), Text(t)>>, <<v, Text(<<97>>)>>) :
             kind \in {"struct", "struct variant"}, s, t \in Texts}
    \cup {Node("map", <<>>, <<key, Text(t)>>, <<v, Text(<<97>>)>>) : key \in Leaves, t \in Texts}

GrowValue ==
    /\ Grow("value", WrapDepth)
    /\ input' \in Wrapped(input)

Init ==
    \/ TextInit
    \/ \E leaf \in Leaves : Start("value", leaf)

Next == TextNext \/ GrowValue

Spec == Init /\ [][Next]_vars

-----------------------------------------------------------------------------
(* Properties *)

\* A value is refused exactly when it holds a number JSON cannot or a key that
\* is no text; every other one is read back from its line as serde_json would
\* have given it, whatever its strings hold.
ValueSurvivesTheLine ==
    subject = "value" =>
        IF Convertible(input)
        THEN ReadLine(Line(<<101>>, ToJson(input), <<>>)) = Envelope(<<101>>, JsonOf(input), <<>>)
        ELSE ToJson(input) = Refusal
=============================================================================
