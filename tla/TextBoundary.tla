---------------------------- MODULE TextBoundary ----------------------------
(***************************************************************************)
(* What the program decides about texts at its edges, compared with        *)
(* reference definitions: a behaviour picks a subject and a first input,   *)
(* and makes the input larger step by step.                                *)
(***************************************************************************)
EXTENDS ContentType, ImagePart, RecordFileName

CONSTANTS
    FieldLength,     \* symbols added to a Content-Type
    ImageLength,     \* characters added to an image's text
    MaxBytes,        \* limits of an image's size
    MaxIdentity,     \* limit of an identity's length
    Instants,        \* at which files are created
    NamedInstants    \* those of them every name is formed with

ASSUME BoundaryAssumption ==
    /\ {FieldLength, ImageLength, MaxIdentity} \subseteq Nat
    /\ MaxBytes \subseteq Nat
    /\ NamedInstants \subseteq Instants
    /\ \A at \in Instants : /\ at = [day |-> at.day, second |-> at.second, micro |-> at.micro]
                            /\ at.day \in Nat /\ at.second \in Nat /\ at.second < 86400

VARIABLES
    subject,  \* what is decided about
    input,    \* the data
    grown     \* how often it was made larger

vars == <<subject, input, grown>>

Start(what, with) == subject = what /\ input = with /\ grown = 0

Grow(what, limit) == subject = what /\ grown < limit /\ grown' = grown + 1 /\ UNCHANGED subject

-----------------------------------------------------------------------------

Media == <<"t", "slash", "t", "semicolon">>

FieldStarts ==
    {<<>>, Media, Media \o <<"charset", "equals">>, Media \o <<"charset", "equals", "quote">>,
     Media \o <<"charset", "equals", "utf-8", "semicolon">>,
     Media \o <<"t", "equals", "quote", "backslash">>}

GrowField ==
    /\ Grow("field", FieldLength)
    /\ \E symbol \in Symbols : input' = Append(input, symbol)

\* A PNG's signature fills the first eleven characters.
ImageStarts ==
    {[text |-> [i \in 1..n |-> "A"], png |-> png, max |-> max] :
        n \in 8..(Max(MaxBytes) + 9), png \in BOOLEAN, max \in MaxBytes}

GrowImage ==
    /\ Grow("image", ImageLength)
    /\ \E c \in Characters : input' = [input EXCEPT !.text = Append(@, c)]

NameOf(application, logId, at) == [application |-> application, logId |-> logId, at |-> at]

NameStarts ==
    {NameOf(<<"x">>, <<"x">>, at) : at \in Instants}
    \cup {NameOf(<<>>, <<>>, at) : at \in NamedInstants}

GrowName ==
    /\ Grow("name", 2 * (MaxIdentity + 1)) /\ input.at \in NamedInstants
    /\ \E c \in NameCharacters :
        \/ Len(input.application) <= MaxIdentity /\ input' = [input EXCEPT !.application = Append(@, c)]
        \/ Len(input.logId) <= MaxIdentity /\ input' = [input EXCEPT !.logId = Append(@, c)]

TextInit ==
    \/ \E field \in FieldStarts : Start("field", field)
    \/ \E image \in ImageStarts : Start("image", image)
    \/ \E name \in NameStarts : Start("name", name)

TextNext == GrowField \/ GrowImage \/ GrowName

TextSpec == TextInit /\ [][TextNext]_vars

-----------------------------------------------------------------------------
(* Properties *)

\* The hand-written scan of quotes, escapes and separators agrees with the
\* grammar on every Content-Type: it reads as UTF-8 exactly the bodies whose
\* field can be read as a media type and parameters, with at most one charset,
\* which is UTF-8 after its quotes and escapes.
CharsetDecidedByGrammar ==
    subject = "field" => (UsesSupportedCharset(<<input>>) <=> GrammarAdmits(input))

\* Decoding a bounded beginning of an image's text decides like reading all of
\* it: whatever is admitted is one PNG within the limit, with its exact size,
\* and nothing that would be is refused.
ImageDecidedByBeginning ==
    subject = "image" =>
        LET png == input.png /\ Len(input.text) > 10 IN
        Png(input.text, png, input.max) = PngReference(input.text, png, input.max)

\* A file's name tells its application, its log identity and the instant of
\* its creation, and tells them in one way only; so the exclusive creation
\* never takes one file for another.
NameTellsItsParts ==
    subject = "name" =>
        LET name == FileName(input.application, input.logId, input.at) IN
        IsIdentity(input.application, MaxIdentity) /\ IsIdentity(input.logId, MaxIdentity) =>
            /\ IsUtc(name.stamp)
            /\ NameReadings(name) = {<<input.application, input.logId, input.at>>}
=============================================================================
